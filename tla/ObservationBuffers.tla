-------------------------- MODULE ObservationBuffers --------------------------
(***************************************************************************)
(* managers/observation_manager.py with _buffers/ and _noise/: what one    *)
(* observation term hands out for a batch of rows that are stepped         *)
(* together and reset apart.  A term's frame passes through its noise      *)
(* model, the check for NaN, a delay buffer and a history buffer; both     *)
(* buffers are circular with one write pointer for all rows, so a reset of *)
(* some rows has to leave the others' slots where they are.                *)
(*                                                                         *)
(* A frame is the episode and age of the row it was computed at: noise,    *)
(* clip and scale change its numbers and not its identity.  The additive   *)
(* bias of a noise model is the number of draws summed in it.              *)
(***************************************************************************)
EXTENDS Naturals, Sequences, FiniteSets

CONSTANTS ObEnv,
          Configs,       \* the term configurations considered
          Zero, Invalid, \* a row cleared to zero; a row with NaN or Inf
          NoRow,
          ObMaxSteps, ObMaxResets  \* bounds of the model

\* ObservationTermCfg and its group's settings.  maxLag = 0 means no delay
\* buffer, history = 0 no history, period = 0 a lag update every step.
TermConfig(c) ==
    /\ c.minLag \in Nat /\ c.maxLag \in Nat /\ c.minLag <= c.maxLag
    /\ c.history \in Nat /\ c.period \in Nat
    /\ c.perEnv \in BOOLEAN /\ c.holds \in BOOLEAN /\ c.phased \in BOOLEAN
    /\ c.siblings \in BOOLEAN                            \* another term of the group is temporal
    /\ c.noise \in {"none", "drawn", "bias"}
    /\ c.policy \in {"disabled", "sanitize", "error"} /\ c.perTerm \in BOOLEAN

ASSUME ConfigAssumption == \A c \in Configs : TermConfig(c)

\* A cleared row is no NaN, and no frame is one.
ASSUME FrameAssumption == Zero # Invalid /\ Invalid \notin Nat \X Nat

VARIABLES
    cfg,
    obEpisode, obAge,           \* of the simulated rows
    delay, history,         \* the circular buffers
    lags, stepCount, phase, \* _current_lags, _step_count, _phase_offsets
    bias,                   \* draws in NoiseModelWithAdditiveBias._bias
    cached,                 \* _obs_buffer, NoRow if none
    out,                    \* the rows handed out last
    resetting,              \* the rows reset and not yet observed
    failed,                 \* an exception left the manager
    seen, delayed,          \* ghosts: a row's frames of this episode, and its delayed ones
    time, obResets

bufvars == <<delay, history, lags, stepCount, phase, bias>>
ghostvars == <<seen, delayed>>
obsbufvars == <<cfg, obEpisode, obAge, bufvars, cached, out, resetting, failed, ghostvars, time, obResets>>

Frame == ((0 .. ObMaxResets + 1) \X (0 .. ObMaxSteps)) \cup {Zero, Invalid}

------------------------------------------------------------------------------
(* CircularBuffer *)

NewBuffer(n) ==
    [slots |-> [i \in 0 .. n - 1 |-> [e \in ObEnv |-> Zero]], ptr |-> n - 1,
     pushes |-> [e \in ObEnv |-> 0], init |-> FALSE]

Length(b) == Cardinality(DOMAIN b.slots)

\* append: all rows at the next slot; a row with no history is filled with its frame.
Appended(b, data) ==
    LET p == (b.ptr + 1) % Length(b)
    IN [slots |-> [i \in DOMAIN b.slots |->
                     [e \in ObEnv |-> IF i = p \/ b.pushes[e] = 0 THEN data[e] ELSE b.slots[i][e]]],
        ptr |-> p, pushes |-> [e \in ObEnv |-> b.pushes[e] + 1], init |-> TRUE]

\* backfill: one frame in every slot of the given rows; time does not advance.
Backfill(b, data, rows) ==
    [b EXCEPT !.slots = [i \in DOMAIN b.slots |->
                           [e \in ObEnv |-> IF e \in rows THEN data[e] ELSE b.slots[i][e]]],
              !.pushes = [e \in ObEnv |-> IF e \in rows THEN 1 ELSE b.pushes[e]]]

\* Mutant: a reset of some rows rewinds the pointer all rows share.
ResetBufferRewinds(b, rows) ==
    [b EXCEPT !.slots = [i \in DOMAIN b.slots |->
                           [e \in ObEnv |-> IF e \in rows THEN Zero ELSE b.slots[i][e]]],
              !.pushes = [e \in ObEnv |-> IF e \in rows THEN 0 ELSE b.pushes[e]],
              !.ptr = Length(b) - 1]

ResetBuffer(b, rows) ==
    [b EXCEPT !.slots = [i \in DOMAIN b.slots |->
                           [e \in ObEnv |-> IF e \in rows THEN Zero ELSE b.slots[i][e]]],
              !.pushes = [e \in ObEnv |-> IF e \in rows THEN 0 ELSE b.pushes[e]]]

Min2(a, b) == IF a < b THEN a ELSE b
Max2(a, b) == IF a > b THEN a ELSE b

\* __getitem__: lag steps back, clamped to what the row has.
AtLag(b, lag, e) ==
    LET n == Length(b)
        valid == Min2(lag, Min2(Max2(b.pushes[e], 1), n) - 1)
    IN b.slots[(b.ptr + n - valid) % n][e]

\* buffer: oldest to newest.
Ordered(b, e) ==
    LET n == Length(b) IN [k \in 1 .. n |-> b.slots[(b.ptr + k) % n][e]]

------------------------------------------------------------------------------
(* DelayBuffer *)

CurrentLength(b, e) == Min2(b.pushes[e], Length(b))

Peek(b, ls, e) == AtLag(b, Max2(Min2(ls[e], CurrentLength(b, e) - 1), 0), e)

\* The rows whose lag is due, and the lags they may draw.
ShouldUpdate == {e \in ObEnv : cfg.period = 0 \/ (stepCount[e] + phase[e]) % cfg.period = 0}

SampledLags ==
    LET due == ShouldUpdate
        Draw == {f \in [ObEnv -> cfg.minLag .. cfg.maxLag] : cfg.perEnv \/ \A d, e \in ObEnv : f[d] = f[e]}
    IN {[e \in ObEnv |-> IF e \in due \ held THEN f[e] ELSE lags[e]] :
          f \in Draw, held \in IF cfg.holds THEN SUBSET ObEnv ELSE {{}}}

PhaseOffsets == IF cfg.period > 0 /\ cfg.phased THEN [ObEnv -> 0 .. cfg.period - 1] ELSE [ObEnv -> {0}]

------------------------------------------------------------------------------
(* ObservationManager *)

Temporal == cfg.maxLag > 0 \/ cfg.history > 0 \/ cfg.siblings

ObInit ==
    /\ cfg \in Configs
    /\ obEpisode = [e \in ObEnv |-> 0] /\ obAge = [e \in ObEnv |-> 0]
    /\ delay = NewBuffer(cfg.maxLag + 1) /\ history = NewBuffer(Max2(cfg.history, 1))
    /\ lags = [e \in ObEnv |-> 0] /\ stepCount = [e \in ObEnv |-> 0] /\ phase \in PhaseOffsets
    /\ bias = [e \in ObEnv |-> 0]
    /\ cached = NoRow /\ out = [e \in ObEnv |-> NoRow]
    /\ resetting = ObEnv /\ failed = FALSE
    /\ seen = [e \in ObEnv |-> <<>>] /\ delayed = [e \in ObEnv |-> <<>>]
    /\ time = 0 /\ obResets = 0

\* The term computes every row; a per-term check sanitizes before the buffers.
RawFrame(e, bad) ==
    IF e \notin bad THEN <<obEpisode[e], obAge'[e]>>
    ELSE IF cfg.policy = "sanitize" /\ cfg.perTerm THEN Zero ELSE Invalid

\* The bias takes its shape, and its first draw, from the first observation.
InitializeBias ==
    bias' = IF cfg.noise = "bias" /\ \A e \in ObEnv : bias[e] = 0
            THEN [e \in ObEnv |-> 1] ELSE bias

\* A check of the final output only replaces what is handed out.
HandOut(w) ==
    IF cfg.policy = "sanitize" THEN [k \in DOMAIN w |-> IF w[k] = Invalid THEN Zero ELSE w[k]] ELSE w

CheckFails(bad) == cfg.policy = "error" /\ bad # {}

\* The per-step path over the whole batch; the delay buffer advances whether or
\* not the history does.
ComputeBatch(update, bad) ==
    LET raw == [e \in ObEnv |-> RawFrame(e, bad)]
    IN /\ ~CheckFails(bad)
       /\ InitializeBias
       /\ seen' = [e \in ObEnv |-> Append(seen[e], raw[e])]
       /\ IF cfg.maxLag > 0
          THEN /\ delay' = Appended(delay, raw)
               /\ lags' \in SampledLags
               /\ stepCount' = [e \in ObEnv |-> stepCount[e] + 1]
          ELSE UNCHANGED <<delay, lags, stepCount>>
       /\ LET value == [e \in ObEnv |-> IF cfg.maxLag > 0 THEN Peek(delay', lags', e) ELSE raw[e]]
              push == cfg.history > 0 /\ (update \/ ~history.init)
          IN /\ history' = IF push THEN Appended(history, value) ELSE history
             /\ delayed' = [e \in ObEnv |-> IF push \/ cfg.history = 0 THEN Append(delayed[e], value[e]) ELSE delayed[e]]
             /\ out' = [e \in ObEnv |-> HandOut(IF cfg.history > 0 THEN Ordered(history', e) ELSE <<value[e]>>)]
       /\ cached' = out'
       /\ UNCHANGED phase

\* The reset path: the rows' buffers are filled with their first frame.
\* Buffers nothing was appended to yet take the whole batch instead.
ComputeRows(rows, bad) ==
    LET raw == [e \in ObEnv |-> RawFrame(e, bad)]
    IN /\ InitializeBias
       /\ seen' = [e \in ObEnv |-> IF e \in rows THEN <<raw[e]>> ELSE seen[e]]
       /\ IF cfg.maxLag = 0 THEN UNCHANGED <<delay, lags, stepCount>>
          ELSE IF delay.init THEN /\ delay' = Backfill(delay, raw, rows)
                                  /\ UNCHANGED <<lags, stepCount>>
          ELSE /\ delay' = Appended(delay, raw)
               /\ lags' \in SampledLags
               /\ stepCount' = [e \in ObEnv |-> stepCount[e] + 1]
       /\ LET value == [e \in ObEnv |-> IF cfg.maxLag > 0 THEN Peek(delay', lags', e) ELSE raw[e]]
          IN /\ history' = IF cfg.history = 0 THEN history
                           ELSE IF history.init THEN Backfill(history, value, rows) ELSE Appended(history, value)
             /\ delayed' = [e \in ObEnv |-> IF e \in rows THEN <<value[e]>> ELSE delayed[e]]
             /\ out' = [e \in ObEnv |-> IF e \in rows
                                      THEN HandOut(IF cfg.history > 0 THEN Ordered(history', e) ELSE <<value[e]>>)
                                      ELSE out[e]]
       /\ UNCHANGED <<cached, phase>>

\* A group without delay or history hands the noise model the reset rows only;
\* the additive bias has a row per environment and does not fit them.
BiasFits(rows) == Temporal \/ cfg.noise # "bias" \/ rows = ObEnv

\* A physics step and the observations of it.
ObStep(bad) ==
    /\ resetting = {} /\ ~failed /\ time < ObMaxSteps
    /\ time' = time + 1
    /\ obAge' = [e \in ObEnv |-> obAge[e] + 1]
    /\ ComputeBatch(TRUE, bad)
    /\ UNCHANGED <<cfg, obEpisode, resetting, failed, obResets>>

\* get_active_iterable_terms: hands out the cache, and computes if a reset emptied it.
Query(bad) ==
    /\ resetting = {} /\ ~failed
    /\ IF cached = NoRow
       THEN /\ time < ObMaxSteps /\ time' = time + 1
            /\ obAge' = obAge
            /\ ComputeBatch(FALSE, bad)
       ELSE /\ out' = cached
            /\ UNCHANGED <<obAge, bufvars, cached, ghostvars, time>>
    /\ UNCHANGED <<cfg, obEpisode, resetting, failed, obResets>>

\* reset: the rows' buffers, lags, counters and phases, and a draw added to their bias.
ResetTerms(rows) ==
    /\ resetting = {} /\ ~failed /\ rows # {} /\ obResets < ObMaxResets
    /\ obResets' = obResets + 1
    /\ resetting' = rows
    /\ cached' = NoRow
    /\ obEpisode' = [e \in ObEnv |-> IF e \in rows THEN obResets + 1 ELSE obEpisode[e]]
    /\ obAge' = [e \in ObEnv |-> IF e \in rows THEN 0 ELSE obAge[e]]
    /\ delay' = ResetBuffer(delay, rows) /\ history' = ResetBuffer(history, rows)
    /\ lags' = [e \in ObEnv |-> IF e \in rows THEN 0 ELSE lags[e]]
    /\ stepCount' = [e \in ObEnv |-> IF e \in rows THEN 0 ELSE stepCount[e]]
    /\ \E drawn \in PhaseOffsets : phase' = [e \in ObEnv |-> IF e \in rows THEN drawn[e] ELSE phase[e]]
    /\ bias' = IF cfg.noise = "bias" THEN [e \in ObEnv |-> IF e \in rows THEN bias[e] + 1 ELSE bias[e]] ELSE bias
    /\ seen' = [e \in ObEnv |-> IF e \in rows THEN <<>> ELSE seen[e]]
    /\ delayed' = [e \in ObEnv |-> IF e \in rows THEN <<>> ELSE delayed[e]]
    /\ UNCHANGED <<cfg, out, failed, time>>

\* The rows under reset are observed; a row-scoped check sees them alone.
ObserveReset(bad) ==
    /\ resetting # {} /\ ~failed
    /\ BiasFits(resetting)
    /\ ~CheckFails(IF Temporal THEN bad ELSE bad \cap resetting)
    /\ obAge' = obAge
    /\ ComputeRows(resetting, bad)
    /\ resetting' = {}
    /\ UNCHANGED <<cfg, obEpisode, failed, time, obResets>>

\* NaN under the error policy, or a noise model given rows it has no bias for.
Raise(bad) ==
    /\ ~failed
    /\ \/ resetting = {} /\ CheckFails(bad)
       \/ resetting # {} /\ CheckFails(IF Temporal THEN bad ELSE bad \cap resetting)
       \/ resetting # {} /\ ~BiasFits(resetting)
    /\ failed' = TRUE
    /\ UNCHANGED <<cfg, obEpisode, obAge, bufvars, cached, out, resetting, ghostvars, time, obResets>>

ObNext ==
    \/ \E bad \in SUBSET ObEnv : ObStep(bad) \/ Query(bad) \/ ObserveReset(bad) \/ Raise(bad)
    \/ \E rows \in SUBSET ObEnv : ResetTerms(rows)

ObSpec == ObInit /\ [][ObNext]_obsbufvars

------------------------------------------------------------------------------
(* Properties *)

ObTypeOK ==
    /\ cfg \in Configs
    /\ obEpisode \in [ObEnv -> Nat] /\ obAge \in [ObEnv -> Nat]
    /\ \A b \in {delay, history} : /\ b.slots \in [DOMAIN b.slots -> [ObEnv -> Frame]]
                                   /\ b.ptr \in DOMAIN b.slots
    /\ lags \in [ObEnv -> 0 .. cfg.maxLag] /\ stepCount \in [ObEnv -> Nat]
    /\ phase \in PhaseOffsets /\ bias \in [ObEnv -> Nat]
    /\ resetting \subseteq ObEnv /\ failed \in BOOLEAN

\* A delayed observation is the row's own frame of lag computes ago, or the first
\* of its episode: never a frame of the previous episode, of the cleared buffer
\* or of another row's reset, however the resets of the rows interleave.
DelayedByLag ==
    cfg.maxLag > 0 => \A e \in ObEnv : seen[e] # <<>> =>
        Peek(delay, lags, e) = seen[e][Max2(Len(seen[e]) - lags[e], 1)]

\* A history window is the last frames handed to it in this episode, oldest
\* first, padded with the first of them.
WindowOfThisEpisode ==
    cfg.history > 0 => \A e \in ObEnv : delayed[e] # <<>> =>
        Ordered(history, e) =
            [k \in 1 .. cfg.history |-> delayed[e][Max2(Len(delayed[e]) - cfg.history + k, 1)]]

\* compute's docstring: on the reset path "other envs' buffers, delay schedules,
\* and lag draws are untouched".
RowState(e) ==
    <<lags[e], stepCount[e], phase[e], bias[e], Peek(delay, lags, e), Ordered(history, e)>>

OtherRowsUntouched ==
    [][ resetting' \cup resetting # {} /\ resetting # ObEnv =>
          \A e \in ObEnv \ (resetting \cup resetting') : RowState(e)' = RowState(e) ]_obsbufvars

\* Unless it is told not to look, the manager hands out no NaN, also not one
\* that an unchecked term left in its buffers several steps ago.
NothingInvalidHandedOut ==
    cfg.policy # "disabled" =>
        \A e \in ObEnv : out[e] # NoRow => \A k \in DOMAIN out[e] : out[e][k] # Invalid

\* What the buffers hold of a row belongs to its present episode, and is
\* fit to be handed out.
BuffersOfThisEpisode ==
    [](DelayedByLag /\ WindowOfThisEpisode /\ NothingInvalidHandedOut) /\ OtherRowsUntouched
=============================================================================
