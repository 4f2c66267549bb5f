------------------------ MODULE HousekeepingOverlaps ------------------------
(***************************************************************************)
(* Housekeeping with a history variable that says whether two handlers     *)
(* have overlapped yet between reading and writing one row.  As long as    *)
(* they have not, the behaviour is one of ApartSpec.                       *)
(***************************************************************************)
EXTENDS HousekeepingRefinement

VARIABLE overlapped

historyVars == <<vars, overlapped>>

HistoryInit == Init /\ overlapped = FALSE
HistoryNext == Next /\ overlapped' = (overlapped \/ ~Apart')
HistorySpec == HistoryInit /\ [][HistoryNext]_historyVars

\* Nothing overwrites COMPLETED before two handlers have overlapped
\* (housekeeping.service.ts:109-327).
CompletedUntilOverlap ==
    [][overlapped \/ \A t \in Tasks :
          "COMPLETED" \in Statuses(t) => tasks'[t].status = "COMPLETED"]_historyVars

\* Until then a task has a completion date exactly while it is COMPLETED, and its start
\* is no later: no request reopens a task without clearing what an earlier one dated,
\* although a failed inspection may skip startTask (housekeeping.service.ts:158-298, read
\* by getMetrics, 362-427).
DatesUntilOverlap == overlapped \/ CompletionDated

\* Until then the notes of a task change only to those that the request at its write
\* brought: `dto.notes ?? task.notes` puts nothing else there, and never takes notes
\* away (submitForInspection and inspectTask, housekeeping.service.ts:203 and 252).
NotesUntilOverlap ==
    [][overlapped \/ \A t \in Tasks :
          tasks[t] # Null /\ tasks'[t].notes # tasks[t].notes
          => \E q \in Slots : /\ req[q].task = t /\ req[q].pc = "write"
                              /\ req[q].notes # Null /\ tasks'[t].notes = req[q].notes]_historyVars

\* No room leaves its table before then, whoever changes it
\* (housekeeping.service.ts:268-284, properties.service.ts:345-378).
RoomsLegalUntilOverlap ==
    [][overlapped \/ \A r \in Rooms : RoomCanTransition(rooms[r], rooms'[r])]_historyVars

\* Until then whatever a handler does is a step of RoomTurnover, or nothing
\* (housekeeping.service.ts:61-327).
TurnoverUntilOverlap == [][overlapped \/ [Turnover!Next]_(Turnover!vars)]_historyVars

=============================================================================
