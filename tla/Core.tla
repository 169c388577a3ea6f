--------------------------------- MODULE Core ---------------------------------
(***************************************************************************)
(* The three parts on which a generation rests, each by itself: the ledger *)
(* of a user's credits, the outbox and a generation job.  A behaviour is   *)
(* about the part in focus, and the others rest: they share no variable.   *)
(* What outbox and job promise is in OutboxPromise and JobPromise.         *)
(* (JobSettlement is the job together with its hold.)                      *)
(***************************************************************************)
EXTENDS LedgerHolds, OutboxPromise, JobPromise, FiniteSets

CONSTANTS
  Drainers, BatchSize, MaxAttempts, MaxCrashes, OldRelease, RevivedKinds,     \* of Outbox
  Workers, RunAttempts, MaxStalls, MaxReplays, MaxSubmits, Legs, Faults   \* of GenerationJob

VARIABLES
  focus,
  written, kind, pc, copy, registered, inQueue, crashes,
  requeued, token, journal, delivery, run, erasing

Outbox == INSTANCE Outbox

Job == INSTANCE GenerationJob WITH MaxAttempts <- RunAttempts

outboxVars == <<written, kind, attempts, processed, payload, waiting, pc, copy, registered,
                inQueue, handed, crashes>>
jobVars == <<status, requeued, token, owed, journal, live, delivery, run, erasing>>
coreVars == <<focus, vars, outboxVars, jobVars>>

-----------------------------------------------------------------------------
\* Of the parts at rest, one initial state is enough.
CoreInit ==
  /\ focus \in {"ledger", "outbox", "job"}
  /\ Init /\ Job!Init
  /\ Outbox!Init
  /\ focus # "outbox" => /\ \A r \in 1..NumRows : kind[r] = "other"
                         /\ \A d \in Drainers : registered[d] = OldRelease

LedgerStep == focus = "ledger" /\ Next /\ UNCHANGED <<focus, outboxVars, jobVars>>
OutboxStep == focus = "outbox" /\ Outbox!Next /\ UNCHANGED <<focus, vars, jobVars>>
JobStep == focus = "job" /\ Job!Next /\ UNCHANGED <<focus, vars, outboxVars>>

CoreNext == LedgerStep \/ OutboxStep \/ JobStep

CoreSpec == CoreInit /\ [][CoreNext]_coreVars

-----------------------------------------------------------------------------
\* Every part's variables have their types.
TypesOK == TypeOK /\ Outbox!TypeOK /\ Job!TypeOK

=============================================================================
