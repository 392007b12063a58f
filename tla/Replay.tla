------------------------------- MODULE Replay -------------------------------
(***************************************************************************)
(* Checkpointed replay of stored candles (market_data/adapters/replay.py   *)
(* over save_replay_checkpoint).  Several runners may replay under one     *)
(* replay_id, resuming or from scratch, with a dataset that may have       *)
(* changed; a runner dies or a call fails between any two awaits.  The     *)
(* checkpoint row is overwritten without a condition.                      *)
(***************************************************************************)
EXTENDS Naturals, FiniteSets

CONSTANTS
    Datasets,       \* candle lists, by dataset hash
    DatasetLength,  \* number of candles of each
    Runners

ASSUME ReplayAssumption ==
    /\ DatasetLength \in Nat
    /\ "none" \notin Datasets

VARIABLES
    checkpoint,     \* replay_checkpoints row: dataset_hash, next_offset, status
    runner,         \* what each runner is doing
    emitted         \* history: candles handed to the consumer, by dataset

replayVars == <<checkpoint, runner, emitted>>

ReplayStatuses == {"RUNNING", "COMPLETED", "FAILED"}
NoCheckpoint == [dataset |-> "none", offset |-> 0, status |-> "RUNNING"]
IdleRunner == [step |-> "idle", dataset |-> "none", offset |-> 0]

ReplayInit ==
    /\ checkpoint = NoCheckpoint
    /\ runner = [r \in Runners |-> IdleRunner]
    /\ emitted = [d \in Datasets |-> {}]

StatusAt(offset) == IF offset = DatasetLength THEN "COMPLETED" ELSE "RUNNING"

\* Mutant: a resumed replay starts one candle too far.
BeginReplayAfter(r, d, reset) ==
    LET resumed == ~reset /\ checkpoint # NoCheckpoint
    IN  /\ runner[r].step = "idle"
        /\ resumed => checkpoint.dataset = d /\ checkpoint.status # "COMPLETED"
        /\ runner' = [runner EXCEPT ![r] =
                        [step |-> "begin", dataset |-> d,
                         offset |-> IF resumed THEN checkpoint.offset + 1 ELSE 0]]
        /\ UNCHANGED <<checkpoint, emitted>>

\* replay(): without reset the checkpoint is resumed, unless it belongs to
\* another dataset (ReplayDatasetChangedError) or is complete already.
BeginReplay(r, d, reset) ==
    LET resumed == ~reset /\ checkpoint # NoCheckpoint
    IN  /\ runner[r].step = "idle"
        /\ resumed => checkpoint.dataset = d /\ checkpoint.status # "COMPLETED"
        /\ runner' = [runner EXCEPT ![r] =
                        [step |-> "begin", dataset |-> d,
                         offset |-> IF resumed THEN checkpoint.offset ELSE 0]]
        /\ UNCHANGED <<checkpoint, emitted>>

\* The checkpoint at the start, running again unless there is no candle at all;
\* one that is at the end already has nothing to emit.
SaveStart(r) ==
    /\ runner[r].step = "begin"
    /\ checkpoint' = [dataset |-> runner[r].dataset, offset |-> runner[r].offset,
                      status |-> IF DatasetLength = 0 THEN "COMPLETED" ELSE "RUNNING"]
    /\ runner' = [runner EXCEPT ![r] = IF runner[r].offset = DatasetLength THEN IdleRunner
                                       ELSE [@ EXCEPT !.step = "emit"]]
    /\ UNCHANGED emitted

\* save_replay_checkpoint after each candle.
SaveCheckpoint(r) ==
    LET status == StatusAt(runner[r].offset)
    IN  /\ runner[r].step = "save"
        /\ checkpoint' = [dataset |-> runner[r].dataset, offset |-> runner[r].offset,
                          status |-> status]
        /\ runner' = [runner EXCEPT ![r] =
                        IF status = "COMPLETED" THEN IdleRunner ELSE [@ EXCEPT !.step = "emit"]]
        /\ UNCHANGED emitted

\* That write fails, and the position already counts in the one that records the
\* failure.
SaveFails(r) ==
    /\ runner[r].step = "save"
    /\ checkpoint' = [dataset |-> runner[r].dataset, offset |-> runner[r].offset,
                      status |-> "FAILED"]
    /\ runner' = [runner EXCEPT ![r] = IdleRunner]
    /\ UNCHANGED emitted

\* _emit_candle of candle number offset + 1, which then is accounted for.
EmitCandle(r) ==
    LET next == runner[r].offset + 1
    IN  /\ runner[r].step = "emit"
        /\ emitted' = [emitted EXCEPT ![runner[r].dataset] = @ \cup {next}]
        /\ runner' = [runner EXCEPT ![r].step = "save", ![r].offset = next]
        /\ UNCHANGED checkpoint

\* The callback raises, whatever it did before: the last accounted position is
\* saved as FAILED.
EmitFails(r) ==
    /\ runner[r].step = "emit"
    /\ emitted' \in {emitted, [emitted EXCEPT ![runner[r].dataset] =
                                  @ \cup {runner[r].offset + 1}]}
    /\ checkpoint' = [dataset |-> runner[r].dataset, offset |-> runner[r].offset,
                      status |-> "FAILED"]
    /\ runner' = [runner EXCEPT ![r] = IdleRunner]

\* The process dies, or the write at the start or of a failure fails.
RunnerDies(r) ==
    /\ runner[r].step # "idle"
    /\ runner' = [runner EXCEPT ![r] = IdleRunner]
    /\ UNCHANGED <<checkpoint, emitted>>

ReplayNext ==
    \E r \in Runners :
        \/ \E d \in Datasets, reset \in BOOLEAN : BeginReplay(r, d, reset)
        \/ SaveStart(r) \/ SaveCheckpoint(r) \/ SaveFails(r)
        \/ EmitCandle(r) \/ EmitFails(r) \/ RunnerDies(r)

ReplaySpec == ReplayInit /\ [][ReplayNext]_replayVars

-----------------------------------------------------------------------------
(* Properties *)

ReplayTypeOK ==
    /\ checkpoint \in [dataset : Datasets \cup {"none"}, offset : 0..DatasetLength,
                       status : ReplayStatuses]
    /\ runner \in [Runners -> [step : {"idle", "begin", "save", "emit"},
                               dataset : Datasets \cup {"none"}, offset : 0..DatasetLength]]
    /\ \A r \in Runners :
          /\ runner[r].step # "idle" => runner[r].dataset \in Datasets
          /\ runner[r].step = "emit" => runner[r].offset < DatasetLength
    /\ emitted \in [Datasets -> SUBSET (1..DatasetLength)]

\* The checkpoint never claims a candle that no consumer was given, whichever
\* runner wrote it last and however often runners died, restarted or replayed
\* from scratch: what a resumed replay skips has been emitted.
NoCandleSkipped ==
    \A i \in 1..checkpoint.offset : i \in emitted[checkpoint.dataset]
=============================================================================
