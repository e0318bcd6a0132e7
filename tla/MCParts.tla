------------------------------ MODULE MCParts ------------------------------
(***************************************************************************)
(* Four parts of the firmware that share no state, checked by one run: the *)
(* flush with a rotation, the copy loop it calls, the mutex with any time  *)
(* limits, and the segment driver.  `part' says which of them a behaviour  *)
(* is about; the others stay in an initial state of theirs.                *)
(***************************************************************************)
EXTENDS FlushRotate, RotateCopy, LvglMutex, MCTm1622

VARIABLE part

partsVars == <<part, vars, copyVars, muxVars, tmVars>>

FlushMoves(A) == part = "flush" /\ A /\ UNCHANGED <<part, copyVars, muxVars, tmVars>>
CopyMoves(A) == part = "copy" /\ A /\ UNCHANGED <<part, vars, muxVars, tmVars>>
LockMoves(A) == part = "lock" /\ A /\ UNCHANGED <<part, vars, copyVars, tmVars>>
SegmentsMove(A) == part = "segments" /\ A /\ UNCHANGED <<part, vars, copyVars, muxVars>>

\* The copy is done, the calls are used up.
Finished ==
    /\ \/ part = "copy" /\ loop = "done"
       \/ part = "segments" /\ Idle /\ calls = MaxCalls
    /\ UNCHANGED partsVars

\* The part that moves starts in any of its initial states.
PartsInit ==
    /\ part \in {"flush", "copy", "lock", "segments"}
    /\ Init /\ CopyInit /\ MutexInit /\ TmInit
    /\ part # "flush" => screen = CHOOSE s \in Screens : TRUE
    /\ part # "copy" => args = <<90, 0, 0, 0, 0>>

PartsNext ==
    \/ FlushMoves(Next)
    \/ CopyMoves(CopyNext)
    \/ LockMoves(MutexNext)
    \/ SegmentsMove(TmNext)
    \/ Finished

\* The fairness of each part is that of its own specification.
PartsSpec ==
    /\ PartsInit /\ [][PartsNext]_partsVars
    /\ WF_partsVars(FlushMoves(TaskRuns)) /\ WF_partsVars(FlushMoves(Vsync))
    /\ SF_partsVars(LockMoves(Tick))
    /\ \A t \in Tasks : WF_partsVars(LockMoves(Take(t) \/ TimeOut(t)))
    /\ WF_partsVars(SegmentsMove(Drive))

=============================================================================
