------------------------ MODULE InteractivePlayback ------------------------
(***************************************************************************)
(* Watching a policy in a window: scripts/play_interactive.py over the     *)
(* sessions of visualization/interactive_playback.py.                      *)
(*                                                                         *)
(* Two threads.  The main one builds the session, looks whether the        *)
(* policy sees the velocity command, and then loops: write the command of  *)
(* the keyboard, step if the controls permit, show.  The thread of the     *)
(* viewer calls _on_key, which changes the controls, the command and, for  *)
(* a reset, the environment itself, under no lock.  Python may switch      *)
(* threads at a call but not between two plain loads and stores, so a step *)
(* here ends at each call.  The environment's step and its reset are two   *)
(* such calls each, one that moves the robot and one that observes it;     *)
(* what happens inside either is taken whole.  The keys that command drive *)
(* environments derived from NpEnv itself, with velocity commands in their *)
(* state: a project that builds on this one brings them, this repository   *)
(* has none.  Speed and drawing are left out.  An observation is a stamp:  *)
(* the life of the robot it was made in, the steps the environment had     *)
(* taken and the command it was under.                                     *)
(***************************************************************************)
EXTENDS SnapshotSession, FiniteSets

CONSTANTS
    IpLaunches,      \* [algo, backend, mode, obsMode, ckpt, display, keyboard, check, paused, task],
                     \* backend and display saying whether they are there, task what it has
    IpLimit,         \* the task's velocity limits: [axis |-> set of commands], 0 among them
    IpProbe,         \* _COMMAND_OBS_VERIFY_COMMAND, within the limits of no axis
    MaxIpKeys, MaxIpSteps

Axes == {"vx", "vyaw"}

\* A task with one observation group has one width, here the actor's.
IpStarts == [algo : STRING, backend : BOOLEAN, mode : STRING, obsMode : {"auto", "flat", "actor"},
             ckpt : [there : BOOLEAN, legible : BOOLEAN, width : {"actor", "flat", "other"}, contract : BOOLEAN],
             display : BOOLEAN, keyboard : BOOLEAN, check : BOOLEAN, paused : BOOLEAN,
             task : [commands : BOOLEAN, sees : BOOLEAN, walks : BOOLEAN, oneGroup : BOOLEAN]]
ASSUME IpAssumption ==
    /\ IpLaunches \subseteq IpStarts
    /\ \A l \in IpLaunches : l.task.oneGroup => l.ckpt.width # "flat"
    /\ \A a \in Axes : IpLimit[a] \subseteq Int /\ 0 \in IpLimit[a]
    /\ MaxIpKeys \in Nat /\ MaxIpSteps \in Nat

VARIABLES
    ipLaunch,
    ipMain,      \* [at, source, obsMode, from, got]: main thread, its action's observation, a result
    ipKey,       \* [at, loaded, obs, left]: viewer thread
    ipEnv,       \* [life, t, command, limit, autoreset]
    ipSession,   \* [obs, count]
    ipControls,  \* [paused, requests]
    ipCommand,   \* KeyboardCommander.command, or NoCommander
    ipGhost,     \* [owed, twice]: steps owed to presses of N, presses that met a consumption
    ipSeen       \* [began, resets, missed, written, shown, strayed]: the life in which playing
                 \* began and the presses of Backspace; actions carried out in another state
                 \* than they were computed for; the command written last, the one of the last
                 \* step, and actions computed under neither that one nor by its observation

ipvars == <<ipLaunch, ipMain, ipKey, ipEnv, ipSession, ipControls, ipCommand, ipGhost, ipSeen>>

NoCommander == [a \in {} |-> 0]
Commanded == ipCommand # NoCommander
Still == [a \in Axes |-> 0]
NoObs == [life |-> 0, t |-> 0, command |-> Still]
LimitOf(a) == IpLimit[a]
Probing == [a \in Axes |-> {IpProbe}]
Commands(limit) == {c \in [Axes -> UNION {limit[a] : a \in Axes}] : \A a \in Axes : c[a] \in limit[a]}
StampOf(env) == [life |-> env.life, t |-> env.t, command |-> env.command]

IpInit ==
    /\ ipLaunch \in IpLaunches
    /\ ipMain = [at |-> "build", source |-> "none", obsMode |-> "none", from |-> NoObs, got |-> NoObs]
    /\ ipKey = [at |-> "absent", loaded |-> 0, obs |-> NoObs, left |-> MaxIpKeys]
    /\ ipEnv = [life |-> 0, t |-> 0, command |-> Still, limit |-> [a \in Axes |-> LimitOf(a)],
                autoreset |-> TRUE]
    /\ ipSession = [obs |-> NoObs, count |-> 0]
    /\ ipControls = [paused |-> FALSE, requests |-> 0]
    /\ ipCommand = NoCommander
    /\ ipGhost = [owed |-> 0, twice |-> 0]
    /\ ipSeen = [began |-> 0, resets |-> 0, missed |-> 0, written |-> Still, shown |-> Still, strayed |-> 0]

------------------------------------------------------------------------------
(* Building the session.                                                      *)

\* create_rsl_rl_playback_session: the observation a checkpoint was trained on, told by
\* the width of its first layer where that can be read.
ResolvedMode ==
    IF ipLaunch.algo # "ppo" \/ ipLaunch.obsMode # "auto" \/ ipLaunch.mode # "policy" \/ ~ipLaunch.ckpt.there
    THEN ipLaunch.obsMode
    ELSE IF ~ipLaunch.ckpt.legible THEN "flat"
    ELSE ipLaunch.ckpt.width

\* What the policy is fed: the wrapper takes auto for flat, off-policy sessions always
\* take the actor's group, and a task with one group has one observation.
Fed(mode) ==
    IF ipLaunch.task.oneGroup \/ ipLaunch.algo = "sac" \/ mode = "actor" THEN "actor" ELSE "flat"
\* The width of the network the session builds.
Net(mode) == IF ipLaunch.algo = "ppo" THEN Fed(mode) ELSE "actor"

SessionRefused(mode) ==
    ipLaunch.mode = "policy" /\ ipLaunch.ckpt.there
    /\ (mode = "other" \/ ~ipLaunch.ckpt.contract \/ ipLaunch.ckpt.width # Net(mode))
Source == IF ipLaunch.mode = "policy" /\ ~ipLaunch.ckpt.there THEN "zero" ELSE ipLaunch.mode

\* The session is made before the window is known to open.
BuildSession ==
    /\ ipMain.at = "build"
    /\ ipMain' = [ipMain EXCEPT !.at = IF ~ipLaunch.backend THEN "gone"
                                       ELSE IF SessionRefused(ResolvedMode) THEN "raised"
                                       ELSE IF ~ipLaunch.display THEN "gone" ELSE "reset",
                                !.source = Source, !.obsMode = ResolvedMode]
    /\ UNCHANGED <<ipLaunch, ipKey, ipEnv, ipSession, ipControls, ipCommand, ipGhost, ipSeen>>

\* The environment's reset, which draws a command within the configured limits.
ResetOf(env, command) == [env EXCEPT !.life = @ + 1, !.command = command]
SessionOf(env) == [obs |-> StampOf(env), count |-> 0]

SessionReset ==
    /\ ipMain.at = "reset"
    /\ \E c \in Commands(ipEnv.limit) :
           /\ ipEnv' = ResetOf(ipEnv, c)
           /\ ipSession' = SessionOf(ResetOf(ipEnv, c))
    /\ ipMain' = [ipMain EXCEPT !.at = "arrows"]
    /\ UNCHANGED <<ipLaunch, ipKey, ipControls, ipCommand, ipGhost, ipSeen>>

\* _state_policy_obs_contains_command.
SeesCommand(env) == ipLaunch.task.commands /\ ipLaunch.task.sees /\ env.command # Still

\* _policy_obs_contains_command: a reset under the probe, and another under the limits
\* put back.
AfterProbe(env, probed, drawn) == ResetOf([probed EXCEPT !.limit = env.limit], drawn)

\* Whether the policy sees the command, and what is left of the environment then.
Verify(then, otherwise) ==
    LET Goes(seen) == ipMain' = [ipMain EXCEPT !.at = IF seen THEN then ELSE otherwise] IN
    IF SeesCommand(ipEnv) \/ ~ipLaunch.task.commands
    THEN Goes(ipLaunch.task.commands) /\ UNCHANGED <<ipEnv, ipSession>>
    ELSE \E drawn \in Commands(ipEnv.limit), p \in Commands(Probing) :
            LET probed == ResetOf([ipEnv EXCEPT !.limit = Probing], p)
                after == AfterProbe(ipEnv, probed, drawn)
            IN Goes(SeesCommand(probed)) /\ ipEnv' = after /\ ipSession' = SessionOf(after)

\* _should_render_velocity_arrows.
CheckArrows ==
    /\ ipMain.at = "arrows"
    /\ IF ipLaunch.mode = "policy" /\ ipLaunch.task.walks /\ ipLaunch.task.commands
       THEN Verify("keys", "keys")
       ELSE ipMain' = [ipMain EXCEPT !.at = "keys"] /\ UNCHANGED <<ipEnv, ipSession>>
    /\ UNCHANGED <<ipLaunch, ipKey, ipControls, ipCommand, ipGhost, ipSeen>>

\* The keyboard needs a policy that sees the command, unless told otherwise.
CheckKeys ==
    /\ ipMain.at = "keys"
    /\ IF ipLaunch.keyboard /\ ipLaunch.check
       THEN Verify("open", "gone")
       ELSE ipMain' = [ipMain EXCEPT !.at = "open"] /\ UNCHANGED <<ipEnv, ipSession>>
    /\ UNCHANGED <<ipLaunch, ipKey, ipControls, ipCommand, ipGhost, ipSeen>>

\* _build_keyboard_commander, and no autoreset under the keyboard.
Commandeered(env) == [env EXCEPT !.command = Still, !.autoreset = FALSE]

Open ==
    /\ ipMain.at = "open"
    /\ ipControls' = [ipControls EXCEPT !.paused = ipLaunch.paused]
    /\ IF ipLaunch.keyboard /\ ipLaunch.task.commands
       THEN ipCommand' = Still /\ ipEnv' = Commandeered(ipEnv)
       ELSE UNCHANGED <<ipCommand, ipEnv>>
    /\ ipMain' = [ipMain EXCEPT !.at = "top"]
    /\ ipKey' = [ipKey EXCEPT !.at = "idle"]
    /\ ipSeen' = [ipSeen EXCEPT !.began = ipEnv.life]
    /\ UNCHANGED <<ipLaunch, ipSession, ipGhost>>

------------------------------------------------------------------------------
(* The loop.                                                                  *)

WriteCommand ==
    /\ ipMain.at = "top"
    /\ \E running \in BOOLEAN :
        /\ ipMain' = [ipMain EXCEPT !.at = IF running THEN "permit" ELSE "done"]
        /\ ipEnv' = IF running /\ Commanded THEN [ipEnv EXCEPT !.command = ipCommand] ELSE ipEnv
        /\ ipKey' = IF running THEN ipKey ELSE [ipKey EXCEPT !.at = "absent"]
        /\ ipSeen' = IF running /\ Commanded THEN [ipSeen EXCEPT !.written = ipCommand] ELSE ipSeen
    /\ UNCHANGED <<ipLaunch, ipSession, ipControls, ipCommand, ipGhost>>

Less(n) == IF n > 0 THEN n - 1 ELSE n

\* Mutant: a step of a running playback serves every press there is.
AllServed(controls) == 0

\* consume_step_permission.
Served(controls) == Less(controls.requests)

Permit ==
    /\ ipMain.at = "permit"
    /\ LET granted == ~ipControls.paused \/ ipControls.requests > 0
       IN /\ ipMain' = [ipMain EXCEPT !.at = IF granted THEN "act" ELSE "top"]
          /\ ipControls' = [ipControls EXCEPT !.requests = IF granted THEN Served(ipControls) ELSE @]
          /\ ipGhost' = [ipGhost EXCEPT !.owed = IF ~granted THEN @ ELSE IF ipControls.paused THEN @ - 1 ELSE Less(@)]
    /\ UNCHANGED <<ipLaunch, ipKey, ipEnv, ipSession, ipCommand, ipSeen>>

\* _build_actions: a network fed another width than its own raises.
ActOn ==
    /\ ipMain.at = "act"
    /\ ipMain' = [ipMain EXCEPT !.at = IF ipMain.source = "policy" /\ Fed(ipMain.obsMode) # Net(ipMain.obsMode)
                                       THEN "raised" ELSE "step",
                                !.from = ipSession.obs]
    /\ UNCHANGED <<ipLaunch, ipKey, ipEnv, ipSession, ipControls, ipCommand, ipGhost, ipSeen>>

\* env.step up to the backend's.
One(holds) == IF holds THEN 1 ELSE 0
Place(stamp) == [life |-> stamp.life, t |-> stamp.t]

PhysicsStep ==
    /\ ipMain.at = "step" /\ ipEnv.t < MaxIpSteps
    /\ ipEnv' = [ipEnv EXCEPT !.t = @ + 1]
    /\ ipMain' = [ipMain EXCEPT !.at = "observe"]
    /\ ipSeen' = [ipSeen EXCEPT !.missed = @ + One(Place(ipMain.from) # Place(ipEnv)),
                               !.strayed = @ + One(Commanded /\ ipMain.from.command # ipSeen.shown)]
    /\ UNCHANGED <<ipLaunch, ipKey, ipSession, ipControls, ipCommand, ipGhost>>

\* The rest of env.step: an episode that ends begins anew, or stays over.
Observe ==
    /\ ipMain.at = "observe"
    /\ \E ends \in BOOLEAN, c \in Commands(ipEnv.limit) :
        LET after == IF ends /\ ipEnv.autoreset THEN ResetOf(ipEnv, c) ELSE ipEnv
        IN /\ ipEnv' = after
           /\ ipMain' = [ipMain EXCEPT !.at = "store", !.got = StampOf(after)]
    /\ UNCHANGED <<ipLaunch, ipKey, ipSession, ipControls, ipCommand, ipGhost, ipSeen>>

StoreObs ==
    /\ ipMain.at = "store"
    /\ ipSession' = [obs |-> ipMain.got, count |-> ipSession.count + 1]
    /\ ipMain' = [ipMain EXCEPT !.at = "top", !.from = NoObs, !.got = NoObs]
    /\ ipSeen' = [ipSeen EXCEPT !.shown = ipSeen.written]
    /\ UNCHANGED <<ipLaunch, ipKey, ipEnv, ipControls, ipCommand, ipGhost>>

------------------------------------------------------------------------------
(* The keys.                                                                  *)

Key(at) ==
    ipKey' = [at |-> at, loaded |-> 0, obs |-> NoObs, left |-> ipKey.left - (IF ipKey.at = "idle" THEN 1 ELSE 0)]
MayPress == ipKey.at = "idle" /\ ipKey.left > 0

TogglePause ==
    /\ MayPress /\ Key("idle")
    /\ ipControls' = [ipControls EXCEPT !.paused = ~@]
    /\ UNCHANGED <<ipLaunch, ipMain, ipEnv, ipSession, ipCommand, ipGhost, ipSeen>>

\* request_single_step loads the count before it calls max, and stores it after.
LoadRequests ==
    /\ MayPress
    /\ ipKey' = [ipKey EXCEPT !.at = "request", !.loaded = ipControls.requests, !.left = @ - 1]
    /\ UNCHANGED <<ipLaunch, ipMain, ipEnv, ipSession, ipControls, ipCommand, ipGhost, ipSeen>>
StoreRequests ==
    /\ ipKey.at = "request" /\ Key("pause")
    /\ ipControls' = [ipControls EXCEPT !.requests = ipKey.loaded + 1]
    /\ ipGhost' = [ipGhost EXCEPT !.owed = @ + 1, !.twice = @ + (ipKey.loaded - ipControls.requests)]
    /\ UNCHANGED <<ipLaunch, ipMain, ipEnv, ipSession, ipCommand, ipSeen>>
PauseForStep ==
    /\ ipKey.at = "pause" /\ Key("idle")
    /\ ipControls' = [ipControls EXCEPT !.paused = TRUE]
    /\ UNCHANGED <<ipLaunch, ipMain, ipEnv, ipSession, ipCommand, ipGhost, ipSeen>>

\* Backspace: the environment's reset, the session's, then the commander's.
ResetEnv ==
    /\ MayPress /\ Commanded
    /\ \E c \in Commands(ipEnv.limit) : ipEnv' = ResetOf(ipEnv, c)
    /\ ipKey' = [ipKey EXCEPT !.at = "observe", !.left = @ - 1]
    /\ ipSeen' = [ipSeen EXCEPT !.resets = @ + 1]
    /\ UNCHANGED <<ipLaunch, ipMain, ipSession, ipControls, ipCommand, ipGhost>>
ObserveReset ==
    /\ ipKey.at = "observe"
    /\ ipKey' = [ipKey EXCEPT !.at = "reset", !.obs = StampOf(ipEnv)]
    /\ UNCHANGED <<ipLaunch, ipMain, ipEnv, ipSession, ipControls, ipCommand, ipGhost, ipSeen>>
ResetSession ==
    /\ ipKey.at = "reset" /\ Key("zero")
    /\ ipSession' = [obs |-> ipKey.obs, count |-> 0]
    /\ UNCHANGED <<ipLaunch, ipMain, ipEnv, ipControls, ipCommand, ipGhost, ipSeen>>
ZeroCommand ==
    /\ ipKey.at = "zero" \/ MayPress
    /\ Commanded /\ Key("idle")
    /\ ipCommand' = Still
    /\ UNCHANGED <<ipLaunch, ipMain, ipEnv, ipSession, ipControls, ipGhost, ipSeen>>

\* nudge: one step up or down an axis, clipped to the limits.
Clipped(a, v) ==
    CHOOSE w \in LimitOf(a) : \A u \in LimitOf(a) : (v - w) * (v - w) <= (v - u) * (v - u)
Nudge(a, sign) ==
    /\ MayPress /\ Commanded /\ Key("idle")
    /\ ipCommand' = [ipCommand EXCEPT ![a] = Clipped(a, @ + sign)]
    /\ UNCHANGED <<ipLaunch, ipMain, ipEnv, ipSession, ipControls, ipGhost, ipSeen>>

IpNext ==
    \/ BuildSession \/ SessionReset \/ CheckArrows \/ CheckKeys \/ Open
    \/ WriteCommand \/ Permit \/ ActOn \/ PhysicsStep \/ Observe \/ StoreObs
    \/ TogglePause \/ LoadRequests \/ StoreRequests \/ PauseForStep
    \/ ResetEnv \/ ObserveReset \/ ResetSession \/ ZeroCommand
    \/ \E a \in Axes, sign \in {-1, 1} : Nudge(a, sign)

IpSpec == IpInit /\ [][IpNext]_ipvars

------------------------------------------------------------------------------
(* Properties.                                                                *)

Playing == ipMain.at \in {"top", "permit", "act", "step", "observe", "store"}

\* Every press of N is served by a step of its own, and while paused nothing steps
\* without one: except that a press that meets the consumption of an earlier one makes
\* that one serve twice.
StepsAsPressed ==
    /\ ipGhost.owed <= ipControls.requests
    /\ ipControls.requests <= ipGhost.owed + ipGhost.twice

\* The probe for the command leaves no trace: playing begins under the task's limits,
\* with a command drawn within them, and no key leads out of them.
WithinLimits ==
    Playing => /\ ipEnv.limit = [a \in Axes |-> LimitOf(a)]
               /\ ipEnv.command \in Commands(ipEnv.limit)
               /\ Commanded => ipCommand \in Commands(ipEnv.limit)

\* The reset key, whose thread knows no step under way, lets at most two actions be
\* carried out in another state than the one they were computed for: the one under way,
\* and one computed from the observation the reset stores late.  Nothing else does.
ActsOnCurrent == ipSeen.missed <= 2 * ipSeen.resets

\* Commands reach the policy: it plays under the keyboard only if it sees them, unless
\* told otherwise, and acts on an observation that shows the command written for the
\* step before.  The first action is an exception, as are up to two for each Backspace:
\* a reset draws a command, and what it observes or replaces shows that one.
FollowsKeys ==
    Commanded => /\ ipLaunch.check => ipLaunch.task.sees
                 /\ ipSeen.strayed <= 1 + 2 * ipSeen.resets

\* Under the keyboard a robot that fell stays down until Backspace.
StaysDown == Playing /\ Commanded => ipEnv.life = ipSeen.began + ipSeen.resets

\* With the observation left to auto, a PPO checkpoint of either width plays unless its
\* contract is refused.
AutoFits ==
    ipMain.at = "raised" /\ ipLaunch.algo = "ppo" /\ ipLaunch.obsMode = "auto"
    /\ ipLaunch.ckpt.legible /\ ipLaunch.ckpt.width # "other" => ~ipLaunch.ckpt.contract

WindowSound == StepsAsPressed /\ WithinLimits /\ ActsOnCurrent /\ FollowsKeys /\ StaysDown /\ AutoFits

\* What is shown of a policy: the window steps as its keys were pressed, commands stay
\* within their limits, the policy acts on the present state and the command written
\* last but for the actions that the start or a reset accounts for, and a frame filmed by
\* SnapshotSession shows one captured state with its own overlay.
PlaybackSound == WindowSound /\ FramesAligned
=============================================================================
