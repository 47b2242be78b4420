----------------------- MODULE PublicationDelivery_proofs -----------------------
(***************************************************************************)
(* Proofs about PublicationDelivery, for any number of publications,       *)
(* workers, post actions, crashes and recoveries.                          *)
(***************************************************************************)
EXTENDS PublicationDelivery, TLAPS

-----------------------------------------------------------------------------
(* Type correctness. *)

LEMMA TypeInit == Init => TypeOK
  BY DeliveryAssumption DEF Init, TypeOK, RowsTypeOK, ExecutorsTypeOK, RecoverersTypeOK,
     OthersTypeOK, ExecutorMemory, RecovererMemory, IdleExecutor, IdleRecoverer, Places,
     ActionPlaces, Proofs, Terminal, AttemptStates, ActionStates

\* An executor's memory stays well formed when it is replaced by a well-formed one,
LEMMA ExecutorUpdate ==
  ASSUME ExecutorsTypeOK, NEW e \in Executors, NEW m \in ExecutorMemory,
         m.pc # "idle" => m.pub \in Publications,
         m.hb = "on" => m.pc # "idle",
         m.pc \in ActionPlaces => m.action \in ActionKeys,
         ex' = [ex EXCEPT ![e] = m]
  PROVE  ExecutorsTypeOK'
  BY DEF ExecutorsTypeOK

\* in particular when the executor forgets its claim
LEMMA AbandonTyped ==
  ASSUME ExecutorsTypeOK, NEW e \in Executors, Abandon(e)
  PROVE  ExecutorsTypeOK'
  BY ExecutorUpdate DEF Abandon, IdleExecutor, ExecutorMemory, Places, ActionPlaces, Proofs

\* or goes to another place.
LEMMA GotoTyped ==
  ASSUME ExecutorsTypeOK, NEW e \in Executors, ex[e].pc # "idle",
         NEW place \in Places, place # "idle",
         place \in ActionPlaces => ex[e].action \in ActionKeys,
         Goto(e, place)
  PROVE  ExecutorsTypeOK'
  <1> DEFINE m == [ex[e] EXCEPT !.pc = place, !.proof = "unread"]
  <1>1. m \in ExecutorMemory
    BY DEF ExecutorsTypeOK, ExecutorMemory, Proofs
  <1>2. ex' = [ex EXCEPT ![e] = m]
    BY DEF Goto, ExecutorsTypeOK
  <1> QED BY <1>1, <1>2, ExecutorUpdate DEF ExecutorsTypeOK, ExecutorMemory

LEMMA NextActionTyped ==
  ASSUME ExecutorsTypeOK, NEW e \in Executors, ex[e].pc \in ActionPlaces, NextAction(e)
  PROVE  ExecutorsTypeOK'
  <1>1. CASE ex[e].action < PostActionCount
    <2> DEFINE m == [ex[e] EXCEPT !.pc = "reserve", !.proof = "unread",
                                  !.action = ex[e].action + 1]
    <2>1. ex[e].action \in Nat /\ ex[e] \in ExecutorMemory
      BY DEF ExecutorsTypeOK, ExecutorMemory
    <2>2. ex[e].action + 1 \in ActionKeys /\ ex[e].action + 1 \in Nat
      BY <1>1, <2>1, DeliveryAssumption DEF ActionKeys
    <2>3. m \in ExecutorMemory /\ m.pc = "reserve" /\ m.action = ex[e].action + 1
      BY <2>1, <2>2 DEF ExecutorMemory, Proofs, Places
    <2>4. ex' = [ex EXCEPT ![e] = m]
      BY <1>1 DEF NextAction, ExecutorsTypeOK
    <2>5. m.pub \in Publications
      BY <2>1 DEF ExecutorsTypeOK, ExecutorMemory, ActionPlaces
    <2> QED BY <2>2, <2>3, <2>4, <2>5, ExecutorUpdate
  <1>2. CASE ~(ex[e].action < PostActionCount)
    BY <1>2, GotoTyped DEF NextAction, Places, ActionPlaces
  <1> QED BY <1>1, <1>2

LEMMA ClaimTyped ==
  ASSUME TypeOK, NEW e \in Executors, NEW p \in Publications, NEW plan \in Nat,
         TakeClaim(e, p, plan)
  PROVE  TypeOK'
  <1>1. RowsTypeOK'
    <2>1. status' \in [Publications -> {"queued", "sending"} \cup Terminal]
      BY DEF TypeOK, RowsTypeOK, Terminal, TakeClaim
    <2>2. attempt' \in [Publications -> AttemptStates]
      BY DEF TypeOK, RowsTypeOK, AttemptStates, TakeClaim
    <2>3. issued' \in [Publications -> Nat]
      BY DEF TypeOK, RowsTypeOK, TakeClaim
    <2>4. token' \in [Publications -> Nat]
      BY <2>3 DEF TypeOK, RowsTypeOK, TakeClaim
    <2>5. ttl' \in [Publications -> Nat]
      BY DeliveryAssumption DEF TypeOK, RowsTypeOK, TakeClaim
    <2> QED BY <2>1, <2>2, <2>3, <2>4, <2>5 DEF TypeOK, RowsTypeOK, TakeClaim
  <1>2. ExecutorsTypeOK'
    <2> DEFINE m == [IdleExecutor EXCEPT !.pc = "claimed", !.pub = p,
                                         !.token = issued'[p], !.intent = plan]
    <2>1. m \in ExecutorMemory /\ m.pc = "claimed" /\ m.pub = p /\ m.hb = "off"
      BY <1>1 DEF RowsTypeOK, IdleExecutor, ExecutorMemory, Places, Proofs
    <2>2. ex' = [ex EXCEPT ![e] = m]
      BY DEF TakeClaim
    <2> QED BY <2>1, <2>2, ExecutorUpdate DEF TypeOK, ActionPlaces
  <1>3. RecoverersTypeOK' /\ OthersTypeOK'
    BY DEF TypeOK, RecoverersTypeOK, OthersTypeOK, TakeClaim, bounds, observed
  <1> QED BY <1>1, <1>2, <1>3 DEF TypeOK

\* The terminal writes keep the rows well formed.
LEMMA CloseTyped ==
  ASSUME TypeOK, NEW p \in Publications, NEW outcome \in {"published", "failed"},
         Close(p, outcome), ids' \in [Publications -> Nat \cup {-1}]
  PROVE  RowsTypeOK' /\ OthersTypeOK'
  <1>1. status' \in [Publications -> {"queued", "sending"} \cup Terminal]
    BY DEF TypeOK, RowsTypeOK, Terminal, Close
  <1>2. schedule' \in [Publications -> {"pending", "completed", "failed", "cancelled"}]
    BY DEF TypeOK, RowsTypeOK, Close
  <1>3. attempt' \in [Publications -> AttemptStates]
    BY DEF TypeOK, RowsTypeOK, AttemptStates, Close
  <1>4. token' \in [Publications -> Nat] /\ ttl' \in [Publications -> Nat]
    BY DEF TypeOK, RowsTypeOK, Close
  <1>5. RowsTypeOK'
    BY <1>1, <1>2, <1>3, <1>4 DEF TypeOK, RowsTypeOK, Close
  <1>6. OthersTypeOK'
    BY DEF TypeOK, OthersTypeOK, Close, bounds, observed
  <1> QED BY <1>5, <1>6

\* Steps that leave every table alone.
RowsUnchanged == UNCHANGED <<rows, bounds, observed, controls>>

LEMMA RowsUnchangedTyped ==
  ASSUME TypeOK, RowsUnchanged PROVE RowsTypeOK' /\ OthersTypeOK'
  BY DEF TypeOK, RowsTypeOK, OthersTypeOK, RowsUnchanged, rows, bounds, observed
LEMMA ExecuteTyped ==
  ASSUME TypeOK, NEW e \in Executors, Execute(e)
  PROVE  TypeOK'
  <1> USE DEF At
  <1>0. /\ ExecutorsTypeOK /\ RowsTypeOK
        /\ ex[e] \in ExecutorMemory
        /\ (rc' = rc => RecoverersTypeOK')
    BY DEF TypeOK, ExecutorsTypeOK, RecoverersTypeOK
  \* Steps that only move the executor.
  <1>1. ASSUME RowsUnchanged, rc' = rc, ExecutorsTypeOK'
        PROVE  TypeOK'
    BY <1>0, <1>1, RowsUnchangedTyped DEF TypeOK
  <1>2. ASSUME RowsUnchanged, rc' = rc, Abandon(e)
        PROVE  TypeOK'
    BY <1>0, <1>1, <1>2, AbandonTyped
  <1>3. ASSUME RowsUnchanged, rc' = rc, ex[e].pc # "idle", NEW place \in Places,
               place \notin ActionPlaces, place # "idle", Goto(e, place)
        PROVE  TypeOK'
    BY <1>0, <1>1, <1>3, GotoTyped
  <1>4. ASSUME NEW p \in Publications, Claim(e, p)
        PROVE  TypeOK'
    BY <1>0, <1>4, ClaimTyped DEF Claim, RowsTypeOK
  <1>5. ASSUME NEW p \in Publications, ReadClaim(e, p)
        PROVE  TypeOK'
    <2> DEFINE m == [IdleExecutor EXCEPT !.pc = "claim", !.pub = p, !.intent = intent[p]]
    <2>1. m \in ExecutorMemory /\ m.pc = "claim" /\ m.pub = p /\ m.hb = "off"
      BY <1>0 DEF RowsTypeOK, IdleExecutor, ExecutorMemory, Places, Proofs
    <2>2. ex' = [ex EXCEPT ![e] = m]
      BY <1>5 DEF ReadClaim
    <2>3. ExecutorsTypeOK'
      BY <1>0, <2>1, <2>2, ExecutorUpdate DEF ActionPlaces
    <2> QED BY <1>1, <1>5, <2>3 DEF ReadClaim, RowsUnchanged
  <1>6. CASE WriteClaim(e)
    <2>1. ex[e].pub \in Publications /\ ex[e].intent \in Nat
      BY <1>0, <1>6 DEF WriteClaim, ExecutorsTypeOK, ExecutorMemory
    <2> QED BY <1>2, <1>6, <2>1, ClaimTyped DEF WriteClaim, RowsUnchanged
  <1>7. CASE RecordTargets(e)
    BY <1>2, <1>3, <1>7 DEF RecordTargets, RowsUnchanged, Places, ActionPlaces
  <1>8. CASE RenewClaim(e)
    <2>1. RowsTypeOK'
      BY <1>8, DeliveryAssumption DEF TypeOK, RowsTypeOK, RenewClaim
    <2>2. OthersTypeOK' /\ RecoverersTypeOK'
      BY <1>8 DEF TypeOK, OthersTypeOK, RecoverersTypeOK, RenewClaim, bounds, observed
    <2>3. ExecutorsTypeOK'
      <3>1. CASE LeaseLive(ex[e].pub, ex[e].token)
        <4> DEFINE m == [ex[e] EXCEPT !.pc = "ready", !.hb = "on"]
        <4>1. m \in ExecutorMemory /\ m.pc = "ready" /\ m.pub = ex[e].pub
          BY <1>0 DEF ExecutorMemory, Places
        <4>2. ex' = [ex EXCEPT ![e] = m]
          BY <1>0, <1>8, <3>1 DEF RenewClaim, ExecutorsTypeOK
        <4>3. ex[e].pub \in Publications
          BY <1>0, <1>8 DEF RenewClaim, ExecutorsTypeOK
        <4> QED BY <1>0, <4>1, <4>2, <4>3, ExecutorUpdate DEF ActionPlaces
      <3>2. CASE ~LeaseLive(ex[e].pub, ex[e].token)
        BY <1>0, <1>8, <3>2, AbandonTyped DEF RenewClaim
      <3> QED BY <3>1, <3>2
    <2> QED BY <2>1, <2>2, <2>3 DEF TypeOK
  <1>9. CASE HeartbeatRenews(e)
    <2>1. RowsTypeOK'
      BY <1>9, DeliveryAssumption DEF TypeOK, RowsTypeOK, HeartbeatRenews
    <2> QED BY <1>9, <2>1 DEF TypeOK, HeartbeatRenews, ExecutorsTypeOK, RecoverersTypeOK,
               OthersTypeOK, bounds, observed, memory
  <1>10. CASE HeartbeatLoses(e)
    <2> DEFINE m == [ex[e] EXCEPT !.hb = "lost"]
    <2>1. m \in ExecutorMemory /\ m.hb = "lost" /\ m.pub = ex[e].pub /\ m.pc = ex[e].pc
          /\ m.action = ex[e].action
      BY <1>0 DEF ExecutorMemory
    <2>2. ex' = [ex EXCEPT ![e] = m]
      BY <1>0, <1>10 DEF HeartbeatLoses, ExecutorsTypeOK
    <2>3. ExecutorsTypeOK'
      BY <1>0, <2>1, <2>2, ExecutorUpdate DEF ExecutorsTypeOK
    <2> QED BY <1>1, <1>10, <2>3 DEF HeartbeatLoses, RowsUnchanged
  <1>11. ASSUME NEW place \in {"sent", "rejected"}, ex[e].pc # "idle",
                NEW n \in [Publications -> Nat], sends' = n, Goto(e, place),
                UNCHANGED <<rows, rc, controls, bounds, calls>>
         PROVE  TypeOK'
    <2>1. RowsTypeOK' /\ RecoverersTypeOK' /\ OthersTypeOK'
      BY <1>11 DEF TypeOK, RowsTypeOK, RecoverersTypeOK, OthersTypeOK, rows, bounds
    <2>2. ExecutorsTypeOK'
      BY <1>0, <1>11, GotoTyped DEF Places, ActionPlaces
    <2> QED BY <2>1, <2>2 DEF TypeOK
  <1>12. CASE SendDocument(e)
    <2>1. ex[e].pub \in Publications
      BY <1>0, <1>12 DEF SendDocument, ExecutorsTypeOK
    <2>2. sends' \in [Publications -> Nat]
      BY <1>12, <2>1 DEF SendDocument, Post, TypeOK, OthersTypeOK
    <2> QED BY <1>11, <1>12, <2>2 DEF SendDocument
  <1>13. CASE SendRejected(e)
    BY <1>3, <1>13 DEF SendRejected, RowsUnchanged, Places, ActionPlaces
  <1>14. CASE AuthorizeHook(e)
    BY <1>3, <1>14 DEF AuthorizeHook, RowsUnchanged, Places, ActionPlaces
  <1>15. CASE HookFails(e)
    BY <1>3, <1>15 DEF HookFails, RowsUnchanged, Places, ActionPlaces
  <1>16. CASE SkipTimer(e)
    BY <1>3, <1>16 DEF SkipTimer, RowsUnchanged, Places, ActionPlaces
  <1>17. CASE MaterializeAutodelete(e)
    <2>1. RowsTypeOK'
      BY <1>17 DEF TypeOK, RowsTypeOK, MaterializeAutodelete
    <2>2. OthersTypeOK' /\ RecoverersTypeOK'
      BY <1>17 DEF TypeOK, OthersTypeOK, RecoverersTypeOK, MaterializeAutodelete, bounds,
         observed
    <2>3. ExecutorsTypeOK'
      BY <1>0, <1>17, AbandonTyped, GotoTyped DEF MaterializeAutodelete, Places,
         ActionPlaces
    <2> QED BY <2>1, <2>2, <2>3 DEF TypeOK
  <1>18. CASE PlanActions(e)
    <2>1. CASE Authorized(e) /\ PostActionCount > 0
      <3> DEFINE m == [ex[e] EXCEPT !.pc = "reserve", !.action = 1]
      <3>1. m \in ExecutorMemory /\ m.pc = "reserve" /\ m.pub = ex[e].pub /\ m.action = 1
        BY <1>0 DEF ExecutorMemory, Places
      <3>2. ex' = [ex EXCEPT ![e] = m]
        BY <1>0, <1>18, <2>1 DEF PlanActions, ExecutorsTypeOK
      <3>3. ex[e].pub \in Publications /\ 1 \in ActionKeys
        BY <1>0, <1>18, <2>1, DeliveryAssumption DEF PlanActions, ExecutorsTypeOK,
           ActionKeys
      <3>4. ExecutorsTypeOK'
        BY <1>0, <3>1, <3>2, <3>3, ExecutorUpdate
      <3> QED BY <1>1, <1>18, <3>4 DEF PlanActions, RowsUnchanged
    <2>2. CASE ~(Authorized(e) /\ PostActionCount > 0)
      BY <1>3, <1>18, <2>2 DEF PlanActions, RowsUnchanged, Places, ActionPlaces
    <2> QED BY <2>1, <2>2
  \* Steps that may write the state of the current post action.
  <1>19. ASSUME ex[e].pc \in ActionPlaces, NEW state \in ActionStates,
                Mark(e, state) \/ UNCHANGED ledger,
                UNCHANGED <<status, schedule, attempt, intent, due, ids, active, token,
                            ttl, issued, timer, rc, controls, bounds, sends>>,
                calls' \in [Publications -> [ActionKeys -> Nat]], ExecutorsTypeOK'
         PROVE  TypeOK'
    <2> DEFINE p == ex[e].pub
               a == ex[e].action
               row == [ledger[p] EXCEPT ![a] = state]
    <2>1. p \in Publications /\ a \in ActionKeys
      BY <1>0, <1>19 DEF ExecutorsTypeOK, ActionPlaces
    <2>2. row \in [ActionKeys -> ActionStates]
      BY <1>0, <2>1 DEF RowsTypeOK
    <2>3. ledger' = [ledger EXCEPT ![p] = row] \/ ledger' = ledger
      BY <1>19 DEF Mark
    <2>4. ledger' \in [Publications -> [ActionKeys -> ActionStates]]
      BY <1>0, <2>2, <2>3 DEF RowsTypeOK
    <2>5. RowsTypeOK'
      BY <1>0, <1>19, <2>4 DEF RowsTypeOK
    <2>6. OthersTypeOK' /\ RecoverersTypeOK'
      BY <1>19 DEF TypeOK, OthersTypeOK, RecoverersTypeOK, bounds
    <2> QED BY <1>19, <2>5, <2>6 DEF TypeOK
  <1>20. calls \in [Publications -> [ActionKeys -> Nat]]
    BY DEF TypeOK, OthersTypeOK
  <1>21. ASSUME ex[e].pc \in {"call", "fresh"}
         PROVE  [calls EXCEPT ![ex[e].pub][ex[e].action] = @ + 1]
                    \in [Publications -> [ActionKeys -> Nat]]
    <2> DEFINE p == ex[e].pub
               a == ex[e].action
               row == [calls[p] EXCEPT ![a] = calls[p][a] + 1]
    <2>1. p \in Publications /\ a \in ActionKeys
      BY <1>0, <1>21 DEF ExecutorsTypeOK, ActionPlaces
    <2>2. row \in [ActionKeys -> Nat]
      BY <1>20, <2>1
    <2> QED BY <1>20, <2>2
  <1>22. CASE ReserveAction(e)
    <2>1. ex[e].pc = "reserve" /\ ex[e].action \in ActionKeys
      BY <1>0, <1>22 DEF ReserveAction, ExecutorsTypeOK, ActionPlaces
    <2>2. ExecutorsTypeOK'
      <3>1. CASE Goto(e, "fresh") \/ Goto(e, "settle")
        BY <1>0, <2>1, <3>1, GotoTyped DEF Places, ActionPlaces
      <3>2. CASE NextAction(e)
        BY <1>0, <2>1, <3>2, NextActionTyped DEF ActionPlaces
      <3> QED BY <1>22, <3>1, <3>2 DEF ReserveAction
    <2>3. calls' = calls /\ sends' = sends
      BY <1>22 DEF ReserveAction, observed
    <2>4. Mark(e, "reserved") \/ UNCHANGED ledger
      BY <1>22 DEF ReserveAction
    <2> QED BY <1>19, <1>20, <1>22, <2>1, <2>2, <2>3, <2>4 DEF ReserveAction, ActionPlaces,
               ActionStates
  <1>23. CASE ReproveAction(e)
    <2>1. ex[e].pc = "fresh" /\ ex[e].action \in ActionKeys
      BY <1>0, <1>23 DEF ReproveAction, ExecutorsTypeOK, ActionPlaces
    <2>2. ExecutorsTypeOK'
      BY <1>0, <1>23, <2>1, GotoTyped DEF ReproveAction, Places, ActionPlaces
    <2>3. calls' = calls /\ sends' = sends
      BY <1>23 DEF ReproveAction, observed
    <2>4. Mark(e, "suppressed") \/ UNCHANGED ledger
      BY <1>23 DEF ReproveAction
    <2> QED BY <1>19, <1>20, <1>23, <2>1, <2>2, <2>3, <2>4 DEF ReproveAction, ActionPlaces,
               ActionStates
  <1>24. CASE CallProvider(e)
    <2>1. ex[e].pc = "call" /\ ex[e].action \in ActionKeys
      BY <1>0, <1>24 DEF CallProvider, ExecutorsTypeOK, ActionPlaces
    <2>2. ExecutorsTypeOK'
      BY <1>0, <1>24, <2>1, GotoTyped DEF CallProvider, Places, ActionPlaces
    <2>3. calls' \in [Publications -> [ActionKeys -> Nat]]
      BY <1>21, <1>24, <2>1 DEF CallProvider
    <2> QED BY <1>19, <1>24, <2>1, <2>2, <2>3 DEF CallProvider, ActionPlaces, ActionStates,
               rows
  <1>25. CASE MarkAction(e)
    <2>1. ex[e].pc \in {"succeeded", "unknown"}
      BY <1>25 DEF MarkAction
    <2>2. ExecutorsTypeOK'
      BY <1>0, <1>25, <2>1, NextActionTyped DEF MarkAction, ActionPlaces
    <2>3. calls' = calls /\ sends' = sends
      BY <1>25 DEF MarkAction, observed
    <2> QED BY <1>19, <1>20, <1>25, <2>1, <2>2, <2>3 DEF MarkAction, ActionPlaces,
               ActionStates
  <1>26. CASE PostActionsFail(e)
    BY <1>3, <1>26 DEF PostActionsFail, RowsUnchanged, Places, ActionPlaces
  <1>27. CASE CancelAction(e)
    <2>1. ExecutorsTypeOK'
      BY <1>0, <1>27, AbandonTyped DEF CancelAction
    <2>2. calls' \in [Publications -> [ActionKeys -> Nat]]
      BY <1>20, <1>21, <1>27 DEF CancelAction
    <2>3. ex[e].pc \in ActionPlaces
      BY <1>27 DEF CancelAction, ActionPlaces
    <2>4. \E state \in ActionStates : Mark(e, state)
      BY <1>27 DEF CancelAction, ActionStates
    <2> QED BY <1>19, <1>27, <2>1, <2>2, <2>3, <2>4 DEF CancelAction
  <1>28. CASE StopHeartbeat(e)
    <2>1. CASE ex[e].hb = "lost"
      BY <1>2, <1>28, <2>1 DEF StopHeartbeat, RowsUnchanged
    <2>2. CASE ex[e].hb # "lost"
      <3> DEFINE place == IF ex[e].pc = "settle" THEN "publish" ELSE "fail"
                 m == [ex[e] EXCEPT !.hb = "off", !.pc = place]
      <3>1. m \in ExecutorMemory /\ m.pc = place /\ m.pub = ex[e].pub /\ m.hb = "off"
        BY <1>0 DEF ExecutorMemory, Places
      <3>2. ex' = [ex EXCEPT ![e] = m]
        BY <1>0, <1>28, <2>2 DEF StopHeartbeat, ExecutorsTypeOK
      <3>3. ex[e].pub \in Publications
        BY <1>0, <1>28 DEF StopHeartbeat, ExecutorsTypeOK
      <3>4. m.pc # "idle" /\ m.pc \notin ActionPlaces
        BY <3>1 DEF ActionPlaces
      <3> HIDE DEF m
      <3>5. ExecutorsTypeOK'
        BY <1>0, <3>1, <3>2, <3>3, <3>4, ExecutorUpdate
      <3> QED BY <1>1, <1>28, <3>5 DEF StopHeartbeat, RowsUnchanged
    <2> QED BY <2>1, <2>2
  <1>29. ASSUME NEW outcome \in {"published", "failed"}, ex[e].pc \in {"publish", "fail"},
                Close(ex[e].pub, outcome), Abandon(e), rc' = rc,
                ids' \in [Publications -> Nat \cup {-1}]
         PROVE  TypeOK'
    <2>1. ex[e].pub \in Publications
      BY <1>0, <1>29 DEF ExecutorsTypeOK
    <2>2. RowsTypeOK' /\ OthersTypeOK'
      BY <1>29, <2>1, CloseTyped
    <2> QED BY <1>0, <1>29, <2>2, AbandonTyped DEF TypeOK
  <1>30. CASE CompleteSuccess(e)
    <2>1. CASE Holds(e)
      <3>1. ids' \in [Publications -> Nat \cup {-1}]
        BY <1>0, <1>30, <2>1 DEF CompleteSuccess, RowsTypeOK, ExecutorMemory
      <3> QED BY <1>29, <1>30, <2>1, <3>1 DEF CompleteSuccess
    <2>2. CASE ~Holds(e)
      BY <1>2, <1>30, <2>2 DEF CompleteSuccess, RowsUnchanged
    <2> QED BY <2>1, <2>2
  <1>31. CASE CompleteFailure(e)
    <2>1. CASE Holds(e)
      BY <1>0, <1>29, <1>31, <2>1 DEF CompleteFailure, RowsTypeOK
    <2>2. CASE ~Holds(e)
      BY <1>2, <1>31, <2>2 DEF CompleteFailure, RowsUnchanged
    <2> QED BY <2>1, <2>2
  <1>32. CASE Read(e)
    <2> DEFINE answer == IF Proven(e) THEN "holds" ELSE "refused"
               m == [ex[e] EXCEPT !.proof = answer]
    <2>1. m \in ExecutorMemory /\ m.pc = ex[e].pc /\ m.pub = ex[e].pub /\ m.hb = ex[e].hb
          /\ m.action = ex[e].action
      BY <1>0 DEF ExecutorMemory, Proofs
    <2>2. ex' = [ex EXCEPT ![e] = m]
      BY <1>0, <1>32 DEF Read, ExecutorsTypeOK
    <2>3. ExecutorsTypeOK'
      BY <1>0, <2>1, <2>2, ExecutorUpdate DEF ExecutorsTypeOK
    <2> QED BY <1>1, <1>32, <2>3 DEF Read, RowsUnchanged
  <1>33. CASE Stop(e)
    BY <1>2, <1>33 DEF Stop, RowsUnchanged
  <1> QED BY <1>4, <1>5, <1>6, <1>7, <1>8, <1>9, <1>10, <1>12, <1>13, <1>14, <1>15, <1>16,
             <1>17, <1>18, <1>22, <1>23, <1>24, <1>25, <1>26, <1>27, <1>28, <1>30, <1>31,
             <1>32, <1>33 DEF Execute, Advance

LEMMA RecoverTyped ==
  ASSUME TypeOK, NEW r \in Recoverers, Recover(r) \/ RecoveryFault(r)
  PROVE  TypeOK'
  <1>0. RowsTypeOK /\ RecoverersTypeOK /\ rc[r] \in RecovererMemory
    BY DEF TypeOK, RecoverersTypeOK
  <1>1. ASSUME Forget(r) PROVE RecoverersTypeOK'
    BY <1>0, <1>1 DEF Forget, RecoverersTypeOK, RecovererMemory, IdleRecoverer, Proofs
  <1>2. ASSUME RowsUnchanged, ex' = ex, RecoverersTypeOK' PROVE TypeOK'
    BY <1>2, RowsUnchangedTyped DEF TypeOK, ExecutorsTypeOK
  <1>3. ASSUME NEW p \in Publications, ListExpired(r, p) PROVE TypeOK'
    <2>1. RecoverersTypeOK'
      BY <1>0, <1>3 DEF ListExpired, RecoverersTypeOK, RecovererMemory, Proofs, RowsTypeOK
    <2> QED BY <1>2, <1>3, <2>1 DEF ListExpired, RowsUnchanged
  <1>4. CASE TakeExpired(r)
    <2> DEFINE p == rc[r].pub
    <2>1. p \in Publications
      BY <1>0, <1>4 DEF TakeExpired, RecoverersTypeOK
    <2>2. OthersTypeOK' /\ ExecutorsTypeOK'
      BY <1>4 DEF TakeExpired, TypeOK, OthersTypeOK, ExecutorsTypeOK, bounds, observed
    <2>3. CASE Forget(r) /\ UNCHANGED <<token, ttl, issued>>
      BY <1>0, <1>1, <1>4, <2>2, <2>3 DEF TakeExpired, TypeOK, RowsTypeOK
    <2>4. CASE /\ issued' = [issued EXCEPT ![p] = @ + 1]
               /\ token' = [token EXCEPT ![p] = issued'[p]]
               /\ \E left \in 0..RecoveryTTL : ttl' = [ttl EXCEPT ![p] = left]
               /\ rc' = [rc EXCEPT ![r].pc = "taken", ![r].token = issued'[p]]
      <3>1. issued' \in [Publications -> Nat]
        BY <1>0, <2>1, <2>4 DEF RowsTypeOK
      <3>2. token' \in [Publications -> Nat]
        BY <1>0, <2>1, <2>4, <3>1 DEF RowsTypeOK
      <3>3. ttl' \in [Publications -> Nat]
        BY <1>0, <2>1, <2>4, DeliveryAssumption DEF RowsTypeOK
      <3>4. RecoverersTypeOK'
        BY <1>0, <2>1, <2>4, <3>1 DEF RecoverersTypeOK, RecovererMemory
      <3>5. RowsTypeOK'
        BY <1>0, <1>4, <3>1, <3>2, <3>3 DEF TakeExpired, RowsTypeOK
      <3> QED BY <2>2, <3>4, <3>5 DEF TypeOK
    <2> QED BY <1>4, <2>3, <2>4 DEF TakeExpired
  <1>5. CASE RecoveryRead(r)
    <2>1. RecoverersTypeOK'
      BY <1>0, <1>5 DEF RecoveryRead, RecoverersTypeOK, RecovererMemory, Proofs
    <2> QED BY <1>2, <1>5, <2>1 DEF RecoveryRead, RowsUnchanged
  <1>6. CASE RecoverUnknown(r)
    <2>1. rc[r].pub \in Publications
      BY <1>0, <1>6 DEF RecoverUnknown, RecoverersTypeOK
    <2>2. RecoverersTypeOK'
      BY <1>1, <1>6 DEF RecoverUnknown
    <2>3. CASE RecoveryHolds(r)
      <3>1. Close(rc[r].pub, "failed") /\ ids' = ids /\ ex' = ex
        BY <1>6, <2>3 DEF RecoverUnknown
      <3>2. RowsTypeOK' /\ OthersTypeOK'
        BY <1>0, <2>1, <3>1, CloseTyped DEF RowsTypeOK
      <3> QED BY <2>2, <3>1, <3>2 DEF TypeOK, ExecutorsTypeOK
    <2>4. CASE ~RecoveryHolds(r)
      BY <1>2, <1>6, <2>2, <2>4 DEF RecoverUnknown, RowsUnchanged
    <2> QED BY <2>3, <2>4
  <1>7. CASE RecoveryFault(r)
    BY <1>0, <1>1, <1>7 DEF RecoveryFault, TypeOK, RowsTypeOK, ExecutorsTypeOK,
       OthersTypeOK, rows, observed
  <1> QED BY <1>3, <1>4, <1>5, <1>6, <1>7 DEF Recover

LEMMA ControlTyped ==
  ASSUME TypeOK, NEW p \in Publications,
         Control(p) \/ BecomeDue(p) \/ SwitchChannel(p) \/ Age(p)
  PROVE  TypeOK'
  <1>0. RowsTypeOK /\ OthersTypeOK
    BY DEF TypeOK
  <1>1. ASSUME ex' = ex, rc' = rc, RowsTypeOK', OthersTypeOK' PROVE TypeOK'
    BY <1>1 DEF TypeOK, ExecutorsTypeOK, RecoverersTypeOK
  <1>2. ASSUME controls' \in [Publications -> SUBSET {"edit", "removal", "plan"}],
               UNCHANGED <<bounds, observed>>
        PROVE  OthersTypeOK'
    BY <1>0, <1>2 DEF OthersTypeOK, bounds, observed
  <1>3. ASSUME NEW c \in {"edit", "removal", "plan"}, Apply(p, c)
        PROVE  controls' \in [Publications -> SUBSET {"edit", "removal", "plan"}]
    BY <1>0, <1>3 DEF Apply, OthersTypeOK
  <1>4. ASSUME NEW c \in {"edit", "removal", "plan"}, Decide(p, c)
        PROVE  TypeOK'
    <2>1. controls' \in [Publications -> SUBSET {"edit", "removal", "plan"}]
      BY <1>0, <1>4 DEF Decide, OthersTypeOK
    <2>2. RowsTypeOK'
      BY <1>0, <1>4 DEF Decide, rows, RowsTypeOK
    <2> QED BY <1>1, <1>2, <1>4, <2>1, <2>2 DEF Decide
  <1>5. ASSUME Withdraw(p)
        PROVE  /\ status' \in [Publications -> {"queued", "sending"} \cup Terminal]
               /\ schedule' \in [Publications ->
                                    {"pending", "completed", "failed", "cancelled"}]
    BY <1>0, <1>5 DEF Withdraw, RowsTypeOK, Terminal
  <1>6. ASSUME ChangeIntent(p)
        PROVE  intent' \in [Publications -> Nat]
    BY <1>0, <1>6 DEF ChangeIntent, RowsTypeOK
  <1>7. CASE Cancel(p)
    <2>1. RowsTypeOK'
      BY <1>0, <1>5, <1>7 DEF Cancel, RowsTypeOK
    <2> QED BY <1>0, <1>1, <1>2, <1>7, <2>1 DEF Cancel, OthersTypeOK, memory
  <1>8. CASE Reschedule(p) \/ SetRepeat(p) \/ Edit(p)
    <2>1. due' \in [Publications -> BOOLEAN]
      BY <1>0, <1>8 DEF Reschedule, SetRepeat, Edit, RowsTypeOK
    <2>2. UNCHANGED <<status, schedule, attempt, ids, active, token, ttl, issued, timer,
                      ledger, ex, rc, controls, bounds, observed>>
      BY <1>8 DEF Reschedule, SetRepeat, Edit, memory
    <2>3. RowsTypeOK'
      BY <1>0, <1>6, <1>8, <2>1, <2>2 DEF Reschedule, SetRepeat, Edit, RowsTypeOK
    <2> QED BY <1>0, <1>1, <1>2, <2>2, <2>3 DEF OthersTypeOK
  <1>9. CASE WriteEdit(p)
    <2>1. RowsTypeOK'
      BY <1>0, <1>6, <1>9 DEF WriteEdit, RowsTypeOK
    <2> QED BY <1>1, <1>2, <1>3, <1>9, <2>1 DEF WriteEdit
  <1>10. CASE WriteRemoval(p)
    <2>1. timer' \in [Publications -> BOOLEAN]
      BY <1>0, <1>10 DEF WriteRemoval, RowsTypeOK
    <2>2. RowsTypeOK'
      BY <1>0, <1>5, <1>6, <1>10, <2>1 DEF WriteRemoval, RowsTypeOK
    <2> QED BY <1>1, <1>2, <1>3, <1>10, <2>2 DEF WriteRemoval
  <1>11. ASSUME PlannerCancels(p) \/ PlannerReschedules(p),
                controls' \in [Publications -> SUBSET {"edit", "removal", "plan"}]
         PROVE  TypeOK'
    <2>1. due' \in [Publications -> BOOLEAN]
      BY <1>0, <1>11 DEF PlannerCancels, PlannerReschedules, RowsTypeOK
    <2>2. CASE PlannerCancels(p)
      <3>1. RowsTypeOK'
        BY <1>0, <1>5, <2>2 DEF PlannerCancels, RowsTypeOK
      <3> QED BY <1>1, <1>2, <1>11, <2>2, <3>1 DEF PlannerCancels
    <2>3. CASE PlannerReschedules(p)
      <3>1. RowsTypeOK'
        BY <1>0, <1>6, <2>1, <2>3 DEF PlannerReschedules, RowsTypeOK
      <3> QED BY <1>1, <1>2, <1>11, <2>3, <3>1 DEF PlannerReschedules
    <2> QED BY <1>11, <2>2, <2>3
  <1>12. CASE Plan(p) \/ WritePlan(p)
    BY <1>0, <1>3, <1>11, <1>12 DEF Plan, WritePlan, OthersTypeOK
  <1>13. CASE BecomeDue(p)
    BY <1>0, <1>1, <1>13 DEF BecomeDue, RowsTypeOK, OthersTypeOK, memory, bounds, observed
  <1>14. CASE SwitchChannel(p)
    BY <1>0, <1>1, <1>14 DEF SwitchChannel, RowsTypeOK, OthersTypeOK, memory, observed
  <1>15. CASE Age(p)
    BY <1>0, <1>1, <1>15 DEF Age, RowsTypeOK, OthersTypeOK, memory, bounds, observed
  <1> QED BY <1>4, <1>7, <1>8, <1>9, <1>10, <1>12, <1>13, <1>14, <1>15
          DEF Control, ReadEdit, ReadRemoval, ReadPlan

LEMMA StutterTyped == ASSUME TypeOK, UNCHANGED vars PROVE TypeOK'
  BY DEF TypeOK, RowsTypeOK, ExecutorsTypeOK, RecoverersTypeOK, OthersTypeOK, vars

LEMMA NextTyped == ASSUME TypeOK, [Next]_vars PROVE TypeOK'
  BY ExecuteTyped, RecoverTyped, ControlTyped, StutterTyped DEF Next

\* Every reachable state is well formed, whatever the database and the bounds.
THEOREM TypeCorrect == Spec => []TypeOK
  BY TypeInit, NextTyped, PTL DEF Spec

-----------------------------------------------------------------------------
(* At most one send.                                                       *)

\* The executor holds a claim on ex[e].pub ...
Busy(e) == ex[e].pc \notin {"idle", "claim"}
\* ... and has not called the provider with it yet.
Unsent(e) == ex[e].pc \in {"claimed", "recorded", "ready"}

\* Attempt #1 is never removed, so a publication is claimed once and by one executor:
\* the provider is called by that executor only, and it stands there once.
SendInv ==
    /\ \A e \in Executors : Busy(e) => attempt[ex[e].pub] # "none"
    /\ \A e, f \in Executors : Busy(e) /\ Busy(f) /\ ex[e].pub = ex[f].pub => e = f
    /\ \A p \in Publications : attempt[p] = "none" => sends[p] = 0
    /\ \A e \in Executors : Unsent(e) => sends[ex[e].pub] = 0
    /\ \A p \in Publications : sends[p] <= 1

LEMMA SendInit == Init => SendInv
  BY DEF Init, SendInv, Busy, Unsent, IdleExecutor

\* A step that claims nothing and sends nothing keeps it.
LEMMA SendQuiet ==
  ASSUME TypeOK, SendInv, sends' = sends,
         \A p \in Publications : attempt'[p] = "none" => attempt[p] = "none",
         \A e \in Executors : Busy(e)' => Busy(e) /\ ex'[e].pub = ex[e].pub,
         \A e \in Executors : Unsent(e)' => Unsent(e)
  PROVE  SendInv'
  <1>1. \A e \in Executors : Busy(e) => ex[e].pub \in Publications
    BY DEF TypeOK, ExecutorsTypeOK, Busy
  <1>2. \A e \in Executors : Unsent(e) => Busy(e)
    BY DEF Unsent, Busy
  <1>3. \A e \in Executors : Unsent(e)' => Busy(e)'
    BY DEF Unsent, Busy
  <1>4. (\A e \in Executors : Busy(e) => attempt[ex[e].pub] # "none")'
    BY <1>1 DEF SendInv
  <1>5. (\A e, f \in Executors : Busy(e) /\ Busy(f) /\ ex[e].pub = ex[f].pub => e = f)'
    BY DEF SendInv
  <1>6. (\A e \in Executors : Unsent(e) => sends[ex[e].pub] = 0)'
    BY <1>1, <1>2, <1>3 DEF SendInv
  <1>7. /\ (\A p \in Publications : attempt[p] = "none" => sends[p] = 0)'
        /\ (\A p \in Publications : sends[p] <= 1)'
    BY DEF SendInv
  <1> QED BY <1>4, <1>5, <1>6, <1>7 DEF SendInv

\* One executor moves on with its claim, or drops it.
LEMMA SendMoves ==
  ASSUME TypeOK, SendInv, NEW e \in Executors, NEW m,
         ex' = [ex EXCEPT ![e] = m],
         m.pc \in {"idle", "claim"} \/ (Busy(e) /\ m.pub = ex[e].pub),
         m.pc \in {"claimed", "recorded", "ready"} => Unsent(e),
         sends' = sends, attempt' = attempt
  PROVE  SendInv'
  <1>1. \A f \in Executors : ex'[f] = IF f = e THEN m ELSE ex[f]
    BY DEF TypeOK, ExecutorsTypeOK
  <1>2. \A f \in Executors : Busy(f)' => Busy(f) /\ ex'[f].pub = ex[f].pub
    BY <1>1 DEF Busy
  <1>3. \A f \in Executors : Unsent(f)' => Unsent(f)
    BY <1>1 DEF Unsent
  <1> QED BY <1>2, <1>3, SendQuiet

LEMMA SendAbandoned ==
  ASSUME TypeOK, SendInv, NEW e \in Executors, Abandon(e), sends' = sends,
         \A p \in Publications : attempt'[p] = "none" => attempt[p] = "none"
  PROVE  SendInv'
  <1>1. \A f \in Executors : ex'[f] = IF f = e THEN IdleExecutor ELSE ex[f]
    BY DEF Abandon, TypeOK, ExecutorsTypeOK
  <1>2. \A f \in Executors : Busy(f)' => Busy(f) /\ ex'[f].pub = ex[f].pub
    BY <1>1 DEF Busy, IdleExecutor
  <1>3. \A f \in Executors : Unsent(f)' => Unsent(f)
    BY <1>1 DEF Unsent, IdleExecutor
  <1> QED BY <1>2, <1>3, SendQuiet

LEMMA SendGoes ==
  ASSUME TypeOK, SendInv, NEW e \in Executors, Busy(e), NEW place, Goto(e, place),
         place \in {"claimed", "recorded", "ready"} => Unsent(e),
         sends' = sends, attempt' = attempt
  PROVE  SendInv'
  <1> DEFINE m == [ex[e] EXCEPT !.pc = place, !.proof = "unread"]
  <1>1. ex' = [ex EXCEPT ![e] = m]
    BY DEF Goto, TypeOK, ExecutorsTypeOK
  <1>2. m.pc = place /\ m.pub = ex[e].pub
    BY DEF TypeOK, ExecutorsTypeOK, ExecutorMemory
  <1> HIDE DEF m
  <1> QED BY <1>1, <1>2, SendMoves

\* The claim: attempt #1 did not exist, so no other executor holds the publication.
LEMMA SendClaims ==
  ASSUME TypeOK, SendInv, NEW e \in Executors, ~Busy(e), NEW p \in Publications,
         attempt[p] = "none", NEW plan, TakeClaim(e, p, plan)
  PROVE  SendInv'
  <1> DEFINE m == [IdleExecutor EXCEPT !.pc = "claimed", !.pub = p,
                                       !.token = issued'[p], !.intent = plan]
  <1>1. \A f \in Executors : ex'[f] = IF f = e THEN m ELSE ex[f]
    BY DEF TakeClaim, TypeOK, ExecutorsTypeOK
  <1>2. m.pc = "claimed" /\ m.pub = p
    BY DEF IdleExecutor
  <1> HIDE DEF m
  <1>3. sends' = sends
    BY DEF TakeClaim, observed
  <1>4. \A q \in Publications : attempt'[q] = IF q = p THEN "sending" ELSE attempt[q]
    BY DEF TakeClaim, TypeOK, RowsTypeOK
  <1>5. \A f \in Executors : Busy(f) => ex[f].pub \in Publications /\ ex[f].pub # p
    BY DEF SendInv, TypeOK, ExecutorsTypeOK, Busy
  <1>6. (\A f \in Executors : Busy(f) => attempt[ex[f].pub] # "none")'
    BY <1>1, <1>2, <1>4, <1>5 DEF SendInv, Busy
  <1>7. (\A f, g \in Executors : Busy(f) /\ Busy(g) /\ ex[f].pub = ex[g].pub => f = g)'
    BY <1>1, <1>2, <1>5 DEF SendInv, Busy
  <1>8. (\A f \in Executors : Unsent(f) => sends[ex[f].pub] = 0)'
    BY <1>1, <1>2, <1>3 DEF SendInv, Unsent
  <1>9. /\ (\A q \in Publications : attempt[q] = "none" => sends[q] = 0)'
        /\ (\A q \in Publications : sends[q] <= 1)'
    BY <1>3, <1>4 DEF SendInv
  <1> QED BY <1>6, <1>7, <1>8, <1>9 DEF SendInv

\* The provider call: nothing was sent before, and the executor never stands there again.
LEMMA SendSends ==
  ASSUME TypeOK, SendInv, NEW e \in Executors, SendDocument(e)
  PROVE  SendInv'
  <1> DEFINE p == ex[e].pub
  <1>1. /\ Busy(e) /\ Unsent(e) /\ p \in Publications
        /\ attempt' = attempt /\ sends' = [sends EXCEPT ![p] = @ + 1]
    BY DEF SendDocument, At, Post, Busy, Unsent, TypeOK, ExecutorsTypeOK, rows
  <1>2. PICK result \in {"sent", "rejected"} : Goto(e, result)
    BY DEF SendDocument
  <1> DEFINE m == [ex[e] EXCEPT !.pc = result, !.proof = "unread"]
  <1>3. \A f \in Executors : ex'[f] = IF f = e THEN m ELSE ex[f]
    BY <1>2 DEF Goto, TypeOK, ExecutorsTypeOK
  <1>4. m.pc = result /\ m.pub = p
    BY DEF TypeOK, ExecutorsTypeOK, ExecutorMemory
  <1> HIDE DEF m
  <1>5. sends[p] = 0 /\ attempt[p] # "none"
    BY <1>1 DEF SendInv
  <1>6. \A q \in Publications : sends'[q] = IF q = p THEN 1 ELSE sends[q]
    BY <1>1, <1>5 DEF TypeOK, OthersTypeOK
  <1>7. \A f \in Executors : Unsent(f)' => f # e /\ Unsent(f) /\ ex'[f] = ex[f]
    BY <1>3, <1>4 DEF Unsent
  <1>8. \A f \in Executors : Unsent(f) => Busy(f) /\ ex[f].pub \in Publications
    BY DEF Unsent, Busy, TypeOK, ExecutorsTypeOK
  <1>9. \A f \in Executors : Busy(f)' => Busy(f) /\ ex'[f].pub = ex[f].pub
    BY <1>1, <1>3, <1>4 DEF Busy
  <1>10. (\A f \in Executors : Unsent(f) => sends[ex[f].pub] = 0)'
    BY <1>1, <1>6, <1>7, <1>8 DEF SendInv
  <1>11. /\ (\A f \in Executors : Busy(f) => attempt[ex[f].pub] # "none")'
         /\ (\A f, g \in Executors : Busy(f) /\ Busy(g) /\ ex[f].pub = ex[g].pub => f = g)'
    BY <1>1, <1>9 DEF SendInv
  <1>12. /\ (\A q \in Publications : attempt[q] = "none" => sends[q] = 0)'
         /\ (\A q \in Publications : sends[q] <= 1)'
    BY <1>1, <1>5, <1>6 DEF SendInv
  <1> QED BY <1>10, <1>11, <1>12 DEF SendInv

LEMMA SendExecute ==
  ASSUME TypeOK, SendInv, NEW e \in Executors, Execute(e)
  PROVE  SendInv'
  <1>1. ASSUME NEW p \in Publications, Claim(e, p) PROVE SendInv'
    BY <1>1, SendClaims DEF Claim, Claimable, At, Busy
  <1>2. ASSUME NEW p \in Publications, ReadClaim(e, p) PROVE SendInv'
    <2>1. \A f \in Executors : ex'[f].pc = "claim" \/ ex'[f] = ex[f]
      BY <1>2 DEF ReadClaim, TypeOK, ExecutorsTypeOK, IdleExecutor
    <2>2. sends' = sends /\ attempt' = attempt
      BY <1>2 DEF ReadClaim, rows, observed
    <2>3. \A f \in Executors : Busy(f)' => Busy(f) /\ ex'[f].pub = ex[f].pub
      BY <2>1 DEF Busy
    <2>4. \A f \in Executors : Unsent(f)' => Unsent(f)
      BY <2>1 DEF Unsent
    <2> QED BY <2>2, <2>3, <2>4, SendQuiet
  <1>3. CASE WriteClaim(e)
    <2>1. ~Busy(e) /\ ex[e].pub \in Publications
      BY <1>3 DEF WriteClaim, At, Busy, TypeOK, ExecutorsTypeOK
    <2>2. CASE status[ex[e].pub] = "queued" /\ attempt[ex[e].pub] = "none"
      BY <1>3, <2>1, <2>2, SendClaims DEF WriteClaim
    <2>3. CASE ~(status[ex[e].pub] = "queued" /\ attempt[ex[e].pub] = "none")
      BY <1>3, <2>3, SendAbandoned DEF WriteClaim, rows, observed
    <2> QED BY <2>2, <2>3
  <1>4. CASE RecordTargets(e)
    <2>1. /\ Unsent(e) /\ Busy(e) /\ sends' = sends /\ attempt' = attempt
          /\ Goto(e, "recorded") \/ Abandon(e)
      BY <1>4 DEF RecordTargets, At, Unsent, Busy, rows, observed
    <2> QED BY <2>1, SendGoes, SendAbandoned
  <1>5. CASE RenewClaim(e)
    <2>1. Unsent(e) /\ Busy(e) /\ sends' = sends /\ attempt' = attempt
      BY <1>5 DEF RenewClaim, At, Unsent, Busy, observed
    <2>2. CASE Abandon(e)
      BY <2>1, <2>2, SendAbandoned
    <2>3. CASE ~Abandon(e)
      <3> DEFINE m == [ex[e] EXCEPT !.pc = "ready", !.hb = "on"]
      <3>1. ex' = [ex EXCEPT ![e] = m]
        BY <1>5, <2>3 DEF RenewClaim, TypeOK, ExecutorsTypeOK
      <3>2. m.pc = "ready" /\ m.pub = ex[e].pub
        BY DEF TypeOK, ExecutorsTypeOK, ExecutorMemory
      <3> HIDE DEF m
      <3> QED BY <2>1, <3>1, <3>2, SendMoves
    <2> QED BY <2>2, <2>3
  <1>6. CASE HeartbeatRenews(e)
    <2>1. ex' = ex /\ sends' = sends /\ attempt' = attempt
      BY <1>6 DEF HeartbeatRenews, memory, observed
    <2> QED BY <2>1, SendQuiet DEF Busy, Unsent
  <1>7. CASE HeartbeatLoses(e)
    <2> DEFINE m == [ex[e] EXCEPT !.hb = "lost"]
    <2>1. ex' = [ex EXCEPT ![e] = m] /\ sends' = sends /\ attempt' = attempt
      BY <1>7 DEF HeartbeatLoses, TypeOK, ExecutorsTypeOK, rows, observed
    <2>2. m.pc = ex[e].pc /\ m.pub = ex[e].pub
      BY DEF TypeOK, ExecutorsTypeOK, ExecutorMemory
    <2> HIDE DEF m
    <2> QED BY <2>1, <2>2, SendMoves DEF Busy, Unsent
  <1>8. CASE SendDocument(e)
    BY <1>8, SendSends
  <1>9. CASE SendRejected(e) \/ AuthorizeHook(e) \/ HookFails(e) \/ SkipTimer(e)
             \/ PostActionsFail(e)
    <2>1. /\ Busy(e) /\ sends' = sends /\ attempt' = attempt
          /\ \E place \in {"rejected", "timer", "settle", "actions"} : Goto(e, place)
      BY <1>9 DEF SendRejected, AuthorizeHook, HookFails, SkipTimer, PostActionsFail, At,
         Busy, rows, observed
    <2> QED BY <2>1, SendGoes
  <1>10. CASE MaterializeAutodelete(e)
    <2>1. /\ Busy(e) /\ sends' = sends /\ attempt' = attempt
          /\ Goto(e, "actions") \/ Abandon(e)
      BY <1>10 DEF MaterializeAutodelete, At, Busy, observed
    <2> QED BY <2>1, SendGoes, SendAbandoned
  <1>11. CASE PlanActions(e)
    <2>1. Busy(e) /\ sends' = sends /\ attempt' = attempt
      BY <1>11 DEF PlanActions, At, Busy, rows, observed
    <2>2. CASE Goto(e, "settle")
      BY <2>1, <2>2, SendGoes
    <2>3. CASE ~Goto(e, "settle")
      <3> DEFINE m == [ex[e] EXCEPT !.pc = "reserve", !.action = 1]
      <3>1. ex' = [ex EXCEPT ![e] = m]
        BY <1>11, <2>3 DEF PlanActions, TypeOK, ExecutorsTypeOK
      <3>2. m.pc = "reserve" /\ m.pub = ex[e].pub
        BY DEF TypeOK, ExecutorsTypeOK, ExecutorMemory
      <3> HIDE DEF m
      <3> QED BY <2>1, <3>1, <3>2, SendMoves
    <2> QED BY <2>2, <2>3
  <1>12. ASSUME Busy(e), NextAction(e), sends' = sends, attempt' = attempt PROVE SendInv'
    <2>1. CASE Goto(e, "settle")
      BY <1>12, <2>1, SendGoes
    <2>2. CASE ~Goto(e, "settle")
      <3> DEFINE m == [ex[e] EXCEPT !.pc = "reserve", !.proof = "unread",
                                    !.action = ex[e].action + 1]
      <3>1. ex' = [ex EXCEPT ![e] = m]
        BY <1>12, <2>2 DEF NextAction, TypeOK, ExecutorsTypeOK
      <3>2. m.pc = "reserve" /\ m.pub = ex[e].pub
        BY DEF TypeOK, ExecutorsTypeOK, ExecutorMemory
      <3> HIDE DEF m
      <3> QED BY <1>12, <3>1, <3>2, SendMoves
    <2> QED BY <2>1, <2>2
  <1>13. CASE ReserveAction(e)
    <2>1. /\ Busy(e) /\ sends' = sends /\ attempt' = attempt
          /\ Goto(e, "fresh") \/ Goto(e, "settle") \/ NextAction(e)
      BY <1>13 DEF ReserveAction, At, Busy, observed
    <2> QED BY <1>12, <2>1, SendGoes
  <1>14. CASE ReproveAction(e) \/ CallProvider(e)
    <2>1. /\ Busy(e) /\ sends' = sends /\ attempt' = attempt
          /\ \E place \in {"call", "settle", "succeeded", "unknown"} : Goto(e, place)
      BY <1>14 DEF ReproveAction, CallProvider, At, Busy, rows, observed
    <2> QED BY <2>1, SendGoes
  <1>15. CASE MarkAction(e)
    BY <1>12, <1>15 DEF MarkAction, Busy, observed
  <1>16. CASE CancelAction(e)
    BY <1>16, SendAbandoned DEF CancelAction
  <1>17. CASE StopHeartbeat(e)
    <2>1. Busy(e) /\ sends' = sends /\ attempt' = attempt
      BY <1>17 DEF StopHeartbeat, Busy, rows, observed
    <2>2. CASE Abandon(e)
      BY <2>1, <2>2, SendAbandoned
    <2>3. CASE ~Abandon(e)
      <3> DEFINE m == [ex[e] EXCEPT !.hb = "off",
                          !.pc = IF ex[e].pc = "settle" THEN "publish" ELSE "fail"]
      <3>1. ex' = [ex EXCEPT ![e] = m]
        BY <1>17, <2>3 DEF StopHeartbeat, TypeOK, ExecutorsTypeOK
      <3>2. m.pc \in {"publish", "fail"} /\ m.pub = ex[e].pub
        BY DEF TypeOK, ExecutorsTypeOK, ExecutorMemory
      <3> HIDE DEF m
      <3> QED BY <2>1, <3>1, <3>2, SendMoves
    <2> QED BY <2>2, <2>3
  <1>18. CASE CompleteSuccess(e) \/ CompleteFailure(e)
    <2>1. ex[e].pub \in Publications
      BY <1>18 DEF CompleteSuccess, CompleteFailure, At, TypeOK, ExecutorsTypeOK
    <2>2. \/ \E outcome \in {"published", "failed"} : Close(ex[e].pub, outcome)
          \/ attempt' = attempt /\ sends' = sends
      BY <1>18 DEF CompleteSuccess, CompleteFailure, rows, observed
    <2>3. /\ sends' = sends
          /\ \A p \in Publications : attempt'[p] = "none" => attempt[p] = "none"
      BY <2>1, <2>2 DEF Close, observed, TypeOK, RowsTypeOK
    <2>4. Abandon(e)
      BY <1>18 DEF CompleteSuccess, CompleteFailure
    <2> QED BY <2>3, <2>4, SendAbandoned
  <1>19. CASE Read(e)
    <2>1. PICK proof : ex' = [ex EXCEPT ![e].proof = proof]
      BY <1>19 DEF Read
    <2> DEFINE m == [ex[e] EXCEPT !.proof = proof]
    <2>2. ex' = [ex EXCEPT ![e] = m]
      BY <2>1 DEF TypeOK, ExecutorsTypeOK
    <2>3. m.pc = ex[e].pc /\ m.pub = ex[e].pub
      BY DEF TypeOK, ExecutorsTypeOK, ExecutorMemory
    <2>4. Busy(e) /\ sends' = sends /\ attempt' = attempt
      BY <1>19 DEF Read, Busy, rows, observed
    <2> HIDE DEF m
    <2> QED BY <2>2, <2>3, <2>4, SendMoves DEF Unsent
  <1>20. CASE Stop(e)
    BY <1>20, SendAbandoned DEF Stop, rows, observed
  <1> QED BY <1>1, <1>2, <1>3, <1>4, <1>5, <1>6, <1>7, <1>8, <1>9, <1>10, <1>11, <1>13,
             <1>14, <1>15, <1>16, <1>17, <1>18, <1>19, <1>20 DEF Execute, Advance

\* Recovery, the owner's controls, the clock and the channel never send.
LEMMA SendOthers ==
  ASSUME TypeOK, SendInv,
         \/ \E r \in Recoverers : Recover(r) \/ RecoveryFault(r)
         \/ \E p \in Publications :
                Control(p) \/ BecomeDue(p) \/ SwitchChannel(p) \/ Age(p)
         \/ UNCHANGED vars
  PROVE  SendInv'
  <1>1. SUFFICES /\ ex' = ex /\ sends' = sends
                 /\ \A p \in Publications : attempt'[p] = "none" => attempt[p] = "none"
    BY SendQuiet DEF Busy, Unsent
  <1>2. ASSUME NEW r \in Recoverers, RecoverUnknown(r)
        PROVE  /\ ex' = ex /\ sends' = sends
               /\ \A p \in Publications : attempt'[p] = "none" => attempt[p] = "none"
    <2>1. rc[r].pub \in Publications
      BY <1>2 DEF RecoverUnknown, TypeOK, RecoverersTypeOK
    <2>2. /\ ex' = ex
          /\ \/ Close(rc[r].pub, "failed")
             \/ attempt' = attempt /\ sends' = sends
      BY <1>2 DEF RecoverUnknown, rows, observed
    <2> QED BY <2>1, <2>2 DEF Close, observed, TypeOK, RowsTypeOK
  <1>3. ASSUME NEW r \in Recoverers, Recover(r) \/ RecoveryFault(r), ~RecoverUnknown(r)
        PROVE  ex' = ex /\ sends' = sends /\ attempt' = attempt
    BY <1>3 DEF Recover, ListExpired, TakeExpired, RecoveryRead, RecoveryFault, rows,
       observed
  <1>4. ASSUME NEW p \in Publications, Control(p)
        PROVE  ex' = ex /\ sends' = sends /\ attempt' = attempt
    BY <1>4 DEF Control, Cancel, Reschedule, SetRepeat, Edit, ReadEdit, WriteEdit,
       ReadRemoval, WriteRemoval, Plan, ReadPlan, WritePlan, PlannerCancels,
       PlannerReschedules, Decide, memory, rows, observed
  <1>5. ASSUME NEW p \in Publications, BecomeDue(p) \/ SwitchChannel(p) \/ Age(p)
        PROVE  ex' = ex /\ sends' = sends /\ attempt' = attempt
    BY <1>5 DEF BecomeDue, SwitchChannel, Age, memory, observed
  <1>6. UNCHANGED vars => ex' = ex /\ sends' = sends /\ attempt' = attempt
    BY DEF vars
  <1> QED BY <1>2, <1>3, <1>4, <1>5, <1>6

LEMMA SendNext == ASSUME TypeOK, SendInv, [Next]_vars PROVE SendInv'
  BY SendExecute, SendOthers DEF Next

\* No publication is handed to the provider twice, for any number of workers and
\* recoveries, with or without row locks, whatever an administrator removes in bulk.
THEOREM SentAtMostOnce == Spec => []AtMostOneSend
  <1>1. SendInv => AtMostOneSend
    BY DEF SendInv, AtMostOneSend
  <1> QED BY <1>1, SendInit, SendNext, TypeCorrect, PTL DEF Spec
-----------------------------------------------------------------------------
(* How an executor moves.                                                  *)

\* One step of an executor that holds a claim, from place to place.
Follows(from, to) ==
    \/ from = "claimed" /\ to = "recorded"
    \/ from = "recorded" /\ to = "ready"
    \/ from = "ready" /\ to \in {"sent", "rejected"}
    \/ from = "sent" /\ to \in {"timer", "settle"}
    \/ from = "timer" /\ to = "actions"
    \/ from = "actions" /\ to \in {"reserve", "settle"}
    \/ from = "reserve" /\ to \in {"fresh", "reserve", "settle"}
    \/ from = "fresh" /\ to \in {"call", "settle"}
    \/ from = "call" /\ to \in {"succeeded", "unknown"}
    \/ from \in {"succeeded", "unknown"} /\ to \in {"reserve", "settle"}
    \/ from = "settle" /\ to = "publish"
    \/ from = "rejected" /\ to = "fail"

\* It keeps its claim, and its action unless it turns to the next one.
Proceeds(e) ==
    /\ Busy(e)
    /\ ex'[e].pub = ex[e].pub /\ ex'[e].token = ex[e].token /\ ex'[e].intent = ex[e].intent
    /\ ex'[e].pc = ex[e].pc \/ Follows(ex[e].pc, ex'[e].pc)
    /\ ex'[e].pc # "reserve" => ex'[e].action = ex[e].action

Dropped(e) == ex'[e].pc \in {"idle", "claim"}

Claims(e) ==
    \E p \in Publications, plan \in Nat :
        /\ ~Busy(e) /\ status[p] = "queued" /\ attempt[p] = "none"
        /\ TakeClaim(e, p, plan)

\* What Goto does to the memory of the executor.
LEMMA GotoMemory ==
  ASSUME TypeOK, NEW e \in Executors, NEW place, Goto(e, place)
  PROVE  /\ \A f \in Executors : f # e => ex'[f] = ex[f]
         /\ ex'[e].pc = place /\ ex'[e].pub = ex[e].pub /\ ex'[e].token = ex[e].token
         /\ ex'[e].intent = ex[e].intent /\ ex'[e].action = ex[e].action
  BY DEF Goto, TypeOK, ExecutorsTypeOK, ExecutorMemory

LEMMA AbandonMemory ==
  ASSUME TypeOK, NEW e \in Executors, Abandon(e)
  PROVE  ex'[e].pc = "idle" /\ \A f \in Executors : f # e => ex'[f] = ex[f]
  BY DEF Abandon, IdleExecutor, TypeOK, ExecutorsTypeOK

LEMMA NextActionMemory ==
  ASSUME TypeOK, NEW e \in Executors, NextAction(e)
  PROVE  /\ \A f \in Executors : f # e => ex'[f] = ex[f]
         /\ ex'[e].pc \in {"reserve", "settle"}
         /\ ex'[e].pub = ex[e].pub /\ ex'[e].token = ex[e].token /\ ex'[e].intent = ex[e].intent
         /\ ex'[e].pc # "reserve" => ex'[e].action = ex[e].action
  <1>1. CASE Goto(e, "settle")
    BY <1>1, GotoMemory
  <1>2. CASE ~Goto(e, "settle")
    BY <1>2 DEF NextAction, TypeOK, ExecutorsTypeOK, ExecutorMemory
  <1> QED BY <1>1, <1>2

\* The other executors keep their memory; this one drops its claim, claims, or proceeds.
LEMMA ExecuteMemory ==
  ASSUME TypeOK, NEW e \in Executors, Execute(e)
  PROVE  /\ \A f \in Executors : f # e => ex'[f] = ex[f]
         /\ Dropped(e) \/ Claims(e) \/ Proceeds(e)
  <1> USE DEF At
  <1>1. ASSUME NEW p \in Publications, Claim(e, p) PROVE Claims(e)
    BY <1>1 DEF Claim, Claims, Claimable, Busy, TypeOK, RowsTypeOK
  <1>2. CASE WriteClaim(e)
    <2>1. CASE Abandon(e)
      BY <2>1, AbandonMemory DEF Dropped
    <2>2. CASE ~Abandon(e)
      <3>1. Claims(e)
        BY <1>2, <2>2 DEF WriteClaim, Claims, Busy, TypeOK, ExecutorsTypeOK, ExecutorMemory
      <3> QED BY <3>1 DEF Claims, TakeClaim, TypeOK, ExecutorsTypeOK
    <2> QED BY <2>1, <2>2
  <1>3. ASSUME NEW p \in Publications, ReadClaim(e, p)
        PROVE  Dropped(e) /\ \A f \in Executors : f # e => ex'[f] = ex[f]
    BY <1>3 DEF ReadClaim, Dropped, TypeOK, ExecutorsTypeOK, IdleExecutor
  <1>4. CASE Abandon(e)
    BY <1>4, AbandonMemory DEF Dropped
  <1>5. ASSUME Busy(e), NEW place, Follows(ex[e].pc, place), place # "reserve", Goto(e, place)
        PROVE  Proceeds(e) /\ \A f \in Executors : f # e => ex'[f] = ex[f]
    BY <1>5, GotoMemory DEF Proceeds
  <1>6. ASSUME NextAction(e), ex[e].pc \in {"reserve", "succeeded", "unknown"}
        PROVE  Proceeds(e) /\ \A f \in Executors : f # e => ex'[f] = ex[f]
    BY <1>6, NextActionMemory DEF Proceeds, Busy, Follows
  <1>7. CASE RecordTargets(e) \/ SendDocument(e) \/ SendRejected(e) \/ AuthorizeHook(e)
             \/ HookFails(e) \/ SkipTimer(e) \/ MaterializeAutodelete(e) \/ ReproveAction(e)
             \/ CallProvider(e) \/ PostActionsFail(e)
    <2>1. Abandon(e) \/ \E place : /\ Busy(e) /\ Follows(ex[e].pc, place) /\ place # "reserve"
                                   /\ Goto(e, place)
      BY <1>7 DEF RecordTargets, SendDocument, SendRejected, AuthorizeHook, HookFails, SkipTimer,
         MaterializeAutodelete, ReproveAction, CallProvider, PostActionsFail, Busy, Follows
    <2> QED BY <1>4, <1>5, <2>1
  <1>8. CASE RenewClaim(e) /\ ~Abandon(e)
    BY <1>8 DEF RenewClaim, Proceeds, Busy, Follows, TypeOK, ExecutorsTypeOK, ExecutorMemory
  <1>9. CASE HeartbeatRenews(e)
    <2>1. ex' = ex
      BY <1>9 DEF HeartbeatRenews, memory
    <2> QED BY <2>1 DEF Proceeds, Dropped, Busy
  <1>10. CASE HeartbeatLoses(e)
    <2>1. /\ \A f \in Executors : f # e => ex'[f] = ex[f]
          /\ ex'[e].pc = ex[e].pc /\ ex'[e].pub = ex[e].pub /\ ex'[e].token = ex[e].token
          /\ ex'[e].intent = ex[e].intent /\ ex'[e].action = ex[e].action
      BY <1>10 DEF HeartbeatLoses, TypeOK, ExecutorsTypeOK, ExecutorMemory
    <2> QED BY <2>1 DEF Proceeds, Dropped, Busy
  <1>11. CASE PlanActions(e)
    <2>1. CASE Goto(e, "settle")
      BY <1>5, <1>11, <2>1 DEF PlanActions, Busy, Follows
    <2>2. CASE ~Goto(e, "settle")
      BY <1>11, <2>2 DEF PlanActions, Proceeds, Busy, Follows, TypeOK, ExecutorsTypeOK,
         ExecutorMemory
    <2> QED BY <2>1, <2>2
  <1>12. CASE ReserveAction(e)
    <2>1. NextAction(e) \/ Goto(e, "fresh") \/ Goto(e, "settle")
      BY <1>12 DEF ReserveAction
    <2>2. ex[e].pc = "reserve" /\ Busy(e)
      BY <1>12 DEF ReserveAction, Busy
    <2> QED BY <1>5, <1>6, <2>1, <2>2 DEF Follows
  <1>13. CASE MarkAction(e)
    BY <1>6, <1>13 DEF MarkAction
  <1>14. CASE StopHeartbeat(e) /\ ~Abandon(e)
    <2> DEFINE place == IF ex[e].pc = "settle" THEN "publish" ELSE "fail"
               m == [ex[e] EXCEPT !.hb = "off", !.pc = place]
    <2>1. ex' = [ex EXCEPT ![e] = m]
      BY <1>14 DEF StopHeartbeat, TypeOK, ExecutorsTypeOK
    <2>2. m.pc = place /\ m.pub = ex[e].pub /\ m.token = ex[e].token /\ m.intent = ex[e].intent
          /\ m.action = ex[e].action
      BY DEF TypeOK, ExecutorsTypeOK, ExecutorMemory
    <2>3. ex[e].pc \in {"settle", "rejected"}
      BY <1>14 DEF StopHeartbeat
    <2> HIDE DEF m
    <2> QED BY <2>1, <2>2, <2>3 DEF Proceeds, Busy, Follows, TypeOK, ExecutorsTypeOK
  <1>15. CASE Read(e)
    <2>1. PICK proof : ex' = [ex EXCEPT ![e].proof = proof]
      BY <1>15 DEF Read
    <2>2. /\ \A f \in Executors : f # e => ex'[f] = ex[f]
          /\ ex'[e].pc = ex[e].pc /\ ex'[e].pub = ex[e].pub /\ ex'[e].token = ex[e].token
          /\ ex'[e].intent = ex[e].intent /\ ex'[e].action = ex[e].action
      BY <2>1 DEF TypeOK, ExecutorsTypeOK, ExecutorMemory
    <2> QED BY <1>15, <2>2 DEF Read, Proceeds, Busy
  <1>16. CancelAction(e) \/ CompleteSuccess(e) \/ CompleteFailure(e) \/ Stop(e) => Abandon(e)
    BY DEF CancelAction, CompleteSuccess, CompleteFailure, Stop
  <1>17. ASSUME NEW p \in Publications, Claim(e, p)
         PROVE  \A f \in Executors : f # e => ex'[f] = ex[f]
    BY <1>17 DEF Claim, TakeClaim, TypeOK, ExecutorsTypeOK
  <1> QED BY <1>1, <1>2, <1>3, <1>4, <1>7, <1>8, <1>9, <1>10, <1>11, <1>12, <1>13, <1>14,
             <1>15, <1>16, <1>17 DEF Execute, Advance

-----------------------------------------------------------------------------
(* The ledger of post actions.                                             *)

\* The action at which the executor stands is reserved and not called yet ...
Reserved(e) == ex[e].pc \in {"fresh", "call"}
\* ... or called and not marked yet.
Called(e) == ex[e].pc \in {"succeeded", "unknown"}

EntryTruthful(p, a) ==
    \/ calls[p][a] = 0 /\ ledger[p][a] \in {"none", "reserved", "suppressed"}
    \/ calls[p][a] = 1 /\ ledger[p][a] \in {"reserved", "succeeded", "unknown"}

Holding(e, n) ==
    ledger[ex[e].pub][ex[e].action] = "reserved" /\ calls[ex[e].pub][ex[e].action] = n

\* The ledger row of a call that is under way stays reserved: one executor at most holds the
\* claim, and a row is never reserved again.
LedgerInv ==
    /\ \A p \in Publications, a \in ActionKeys : EntryTruthful(p, a)
    /\ \A e \in Executors : /\ Reserved(e) => Holding(e, 0)
                            /\ Called(e) => Holding(e, 1)

LEMMA LedgerInit == Init => LedgerInv
  BY DEF Init, LedgerInv, EntryTruthful, Reserved, Called, IdleExecutor

\* Neither the ledger nor a call: whoever stands at a reserved or called action stood there.
LEMMA LedgerQuiet ==
  ASSUME LedgerInv, ledger' = ledger, calls' = calls,
         \A e \in Executors :
            \/ ~Reserved(e)' /\ ~Called(e)'
            \/ /\ ex'[e].pub = ex[e].pub /\ ex'[e].action = ex[e].action
               /\ Reserved(e)' => Reserved(e)
               /\ Called(e)' => Called(e)
  PROVE  LedgerInv'
  <1>1. (\A p \in Publications, a \in ActionKeys : EntryTruthful(p, a))'
    BY DEF LedgerInv, EntryTruthful
  <1>2. (\A e \in Executors : Reserved(e) => Holding(e, 0))'
    BY DEF LedgerInv, Holding
  <1>3. (\A e \in Executors : Called(e) => Holding(e, 1))'
    BY DEF LedgerInv, Holding
  <1> QED BY <1>1, <1>2, <1>3 DEF LedgerInv

\* The ledger row of the executor's action becomes state, after n calls.
LEMMA LedgerWrites ==
  ASSUME TypeOK, SendInv, LedgerInv, NEW e \in Executors, ex[e].pc \in ActionPlaces,
         NEW state \in ActionStates, NEW n \in {0, 1},
         \A f \in Executors : f # e => ex'[f] = ex[f],
         \A p \in Publications, a \in ActionKeys :
            IF p = ex[e].pub /\ a = ex[e].action
              THEN ledger'[p][a] = state /\ calls'[p][a] = n
              ELSE ledger'[p][a] = ledger[p][a] /\ calls'[p][a] = calls[p][a],
         \/ n = 0 /\ state \in {"none", "reserved", "suppressed"}
         \/ n = 1 /\ state \in {"reserved", "succeeded", "unknown"},
         \/ ~Reserved(e)' /\ ~Called(e)'
         \/ /\ ex'[e].pub = ex[e].pub /\ ex'[e].action = ex[e].action /\ state = "reserved"
            /\ Reserved(e)' => n = 0
            /\ Called(e)' => n = 1
  PROVE  LedgerInv'
  <1>1. ex[e].pub \in Publications /\ ex[e].action \in ActionKeys /\ Busy(e)
    BY DEF TypeOK, ExecutorsTypeOK, ActionPlaces, Busy
  <1>2. (\A p \in Publications, a \in ActionKeys : EntryTruthful(p, a))'
    BY DEF LedgerInv, EntryTruthful
  <1>3. ASSUME NEW f \in Executors, f # e, Reserved(f)' \/ Called(f)'
        PROVE  /\ ex[f].pub \in Publications /\ ex[f].action \in ActionKeys
               /\ ex[f].pub # ex[e].pub
               /\ ex'[f] = ex[f]
               /\ Reserved(f)' => Reserved(f)
               /\ Called(f)' => Called(f)
    <2>1. ex'[f] = ex[f] /\ ex[f].pc \in ActionPlaces /\ Busy(f)
      BY <1>3 DEF Reserved, Called, ActionPlaces, Busy
    <2> QED BY <1>1, <1>3, <2>1 DEF TypeOK, ExecutorsTypeOK, SendInv, ActionPlaces, Reserved, Called
  <1>4. ASSUME NEW f \in Executors, f # e
        PROVE  /\ Reserved(f)' => Holding(f, 0)'
               /\ Called(f)' => Holding(f, 1)'
    BY <1>3, <1>4 DEF LedgerInv, Holding
  <1>5. /\ Reserved(e)' => Holding(e, 0)'
        /\ Called(e)' => Holding(e, 1)'
    BY <1>1 DEF Holding
  <1> QED BY <1>2, <1>4, <1>5 DEF LedgerInv

\* What Mark writes.
LEMMA MarkWrites ==
  ASSUME TypeOK, NEW e \in Executors, ex[e].pc \in ActionPlaces, NEW state, Mark(e, state)
  PROVE  \A p \in Publications, a \in ActionKeys :
            ledger'[p][a] = IF p = ex[e].pub /\ a = ex[e].action THEN state ELSE ledger[p][a]
  BY DEF Mark, TypeOK, RowsTypeOK

LEMMA CallCounts ==
  ASSUME TypeOK, NEW e \in Executors, ex[e].pc \in ActionPlaces,
         calls[ex[e].pub][ex[e].action] = 0,
         calls' = [calls EXCEPT ![ex[e].pub][ex[e].action] = @ + 1]
  PROVE  \A p \in Publications, a \in ActionKeys :
            calls'[p][a] = IF p = ex[e].pub /\ a = ex[e].action THEN 1 ELSE calls[p][a]
  <1> DEFINE row == [calls[ex[e].pub] EXCEPT ![ex[e].action] = 1]
  <1>1. calls' = [calls EXCEPT ![ex[e].pub] = row]
    OBVIOUS
  <1>2. \A a \in ActionKeys : row[a] = IF a = ex[e].action THEN 1 ELSE calls[ex[e].pub][a]
    BY DEF TypeOK, OthersTypeOK, ExecutorsTypeOK, ActionPlaces
  <1> HIDE DEF row
  <1> QED BY <1>1, <1>2 DEF TypeOK, OthersTypeOK

LEMMA LedgerExecute ==
  ASSUME TypeOK, SendInv, LedgerInv, NEW e \in Executors, Execute(e)
  PROVE  LedgerInv'
  <1> USE DEF At
  <1> DEFINE p0 == ex[e].pub
             a0 == ex[e].action
  <1>0. /\ \A f \in Executors : f # e => ex'[f] = ex[f]
        /\ Dropped(e) \/ Claims(e) \/ Proceeds(e)
    BY ExecuteMemory
  <1>a. Claims(e) => ex'[e].pc = "claimed"
    BY DEF Claims, TakeClaim, TypeOK, ExecutorsTypeOK, IdleExecutor
  <1>b. ex[e].pc \in ActionPlaces => p0 \in Publications /\ a0 \in ActionKeys
    BY DEF TypeOK, ExecutorsTypeOK, ActionPlaces
  \* Steps that neither write the ledger nor call, and do not enter an action.
  <1>1. ASSUME ledger' = ledger, calls' = calls,
               Reserved(e)' => Reserved(e),
               Called(e)' => Called(e)
        PROVE  LedgerInv'
    <2>1. \/ ~Reserved(e)' /\ ~Called(e)'
          \/ ex'[e].pub = p0 /\ ex'[e].action = a0
      BY <1>0, <1>a DEF Reserved, Called, Dropped, Proceeds
    <2>2. ASSUME NEW f \in Executors
          PROVE  \/ ~Reserved(f)' /\ ~Called(f)'
                 \/ /\ ex'[f].pub = ex[f].pub /\ ex'[f].action = ex[f].action
                    /\ Reserved(f)' => Reserved(f)
                    /\ Called(f)' => Called(f)
      <3>1. CASE f = e
        BY <1>1, <2>1, <3>1
      <3>2. CASE f # e
        BY <1>0, <3>2 DEF Reserved, Called
      <3> QED BY <3>1, <3>2
    <2> QED BY <1>1, <2>2, LedgerQuiet
  <1>2. ASSUME ledger' = ledger, calls' = calls,
               ex[e].pc \notin {"reserve", "call"}
        PROVE  LedgerInv'
    BY <1>0, <1>1, <1>2, <1>a DEF Reserved, Called, Dropped, Proceeds, Follows
  <1>3. ASSUME NEW p \in Publications, Claim(e, p) \/ ReadClaim(e, p)
        PROVE  LedgerInv'
    BY <1>2, <1>3 DEF Claim, TakeClaim, ReadClaim, rows, observed
  <1>4. CASE WriteClaim(e) \/ RecordTargets(e) \/ RenewClaim(e) \/ SendDocument(e)
             \/ SendRejected(e) \/ AuthorizeHook(e) \/ HookFails(e) \/ SkipTimer(e)
             \/ MaterializeAutodelete(e) \/ PlanActions(e) \/ StopHeartbeat(e)
    <2>1. ledger' = ledger /\ calls' = calls /\ ex[e].pc \notin {"reserve", "call"}
      BY <1>4 DEF WriteClaim, TakeClaim, RecordTargets, RenewClaim, SendDocument, SendRejected,
         AuthorizeHook, HookFails, SkipTimer, MaterializeAutodelete, PlanActions,
         StopHeartbeat, rows, observed
    <2> QED BY <1>2, <2>1
  <1>5. CASE CompleteSuccess(e) \/ CompleteFailure(e)
    <2>1. ledger' = ledger /\ calls' = calls /\ ex[e].pc \notin {"reserve", "call"}
      BY <1>5 DEF CompleteSuccess, CompleteFailure, Close, rows, observed
    <2> QED BY <1>2, <2>1
  <1>6. ASSUME ledger' = ledger, calls' = calls, ex'[e].pc = ex[e].pc
        PROVE  LedgerInv'
    BY <1>1, <1>6 DEF Reserved, Called
  <1>7. CASE HeartbeatRenews(e) \/ HeartbeatLoses(e)
    <2>1. ledger' = ledger /\ calls' = calls /\ ex'[e].pc = ex[e].pc
      BY <1>7 DEF HeartbeatRenews, HeartbeatLoses, rows, memory, observed, TypeOK,
         ExecutorsTypeOK, ExecutorMemory
    <2> QED BY <1>6, <2>1
  <1>8. CASE Read(e)
    <2>1. PICK proof : ex' = [ex EXCEPT ![e].proof = proof]
      BY <1>8 DEF Read
    <2>2. ledger' = ledger /\ calls' = calls /\ ex'[e].pc = ex[e].pc
      BY <1>8, <2>1 DEF Read, rows, observed, TypeOK, ExecutorsTypeOK, ExecutorMemory
    <2> QED BY <1>6, <2>2
  <1>9. CASE PostActionsFail(e) \/ Stop(e)
    <2>1. ledger' = ledger /\ calls' = calls /\ ex'[e].pc \in {"settle", "idle"}
      BY <1>9, GotoMemory, AbandonMemory DEF PostActionsFail, Stop, rows, observed
    <2> QED BY <1>1, <2>1 DEF Reserved, Called
  <1>10. CASE ReserveAction(e)
    <2>0. ex[e].pc \in ActionPlaces /\ calls' = calls
      BY <1>10 DEF ReserveAction, ActionPlaces, observed
    <2>1. CASE Mark(e, "reserved") /\ Goto(e, "fresh") /\ ledger[p0][a0] = "none"
      <3>1. calls[p0][a0] = 0
        BY <1>b, <2>0, <2>1 DEF LedgerInv, EntryTruthful
      <3>2. ex'[e].pc = "fresh" /\ ex'[e].pub = p0 /\ ex'[e].action = a0
        BY <2>1, GotoMemory
      <3> QED BY <1>0, <2>0, <2>1, <3>1, <3>2, MarkWrites, LedgerWrites
              DEF Reserved, Called, ActionStates
    <2>2. CASE ledger' = ledger /\ (NextAction(e) \/ Goto(e, "settle"))
      <3>1. ex'[e].pc \in {"reserve", "settle"}
        BY <2>2, NextActionMemory, GotoMemory
      <3> QED BY <1>1, <2>0, <2>2, <3>1 DEF Reserved, Called
    <2> QED BY <1>10, <2>1, <2>2 DEF ReserveAction
  <1>11. CASE ReproveAction(e)
    <2>0. ex[e].pc = "fresh" /\ calls' = calls /\ ex[e].pc \in ActionPlaces
      BY <1>11 DEF ReproveAction, ActionPlaces, observed
    <2>1. CASE ledger' = ledger
      BY <1>0, <1>2, <2>0, <2>1
    <2>2. CASE Goto(e, "settle") /\ Mark(e, "suppressed")
      <3>1. calls[p0][a0] = 0
        BY <2>0 DEF LedgerInv, Reserved, Holding
      <3>2. ex'[e].pc = "settle"
        BY <2>2, GotoMemory
      <3> QED BY <1>0, <2>0, <2>2, <3>1, <3>2, MarkWrites, LedgerWrites
              DEF Reserved, Called, ActionStates
    <2> QED BY <1>11, <2>1, <2>2 DEF ReproveAction
  <1>12. CASE CallProvider(e)
    <2>0. /\ ex[e].pc = "call" /\ ledger' = ledger /\ ex[e].pc \in ActionPlaces
          /\ calls' = [calls EXCEPT ![p0][a0] = @ + 1]
      BY <1>12 DEF CallProvider, ActionPlaces, rows
    <2>1. ledger[p0][a0] = "reserved" /\ calls[p0][a0] = 0
      BY <2>0 DEF LedgerInv, Reserved, Holding
    <2>2. /\ ex'[e].pc \in {"succeeded", "unknown"} /\ ex'[e].pub = p0 /\ ex'[e].action = a0
      BY <1>12, GotoMemory DEF CallProvider
    <2>3. \A p \in Publications, a \in ActionKeys :
             calls'[p][a] = IF p = p0 /\ a = a0 THEN 1 ELSE calls[p][a]
      BY <2>0, <2>1, CallCounts
    <2>4. \A p \in Publications, a \in ActionKeys :
             IF p = p0 /\ a = a0 THEN ledger'[p][a] = "reserved" /\ calls'[p][a] = 1
             ELSE ledger'[p][a] = ledger[p][a] /\ calls'[p][a] = calls[p][a]
      BY <2>0, <2>1, <2>3
    <2> QED BY <1>0, <2>0, <2>2, <2>4, LedgerWrites DEF Reserved, Called, ActionStates
  <1>13. CASE MarkAction(e)
    <2>0. ex[e].pc \in {"succeeded", "unknown"} /\ calls' = calls /\ ex[e].pc \in ActionPlaces
      BY <1>13 DEF MarkAction, ActionPlaces, observed
    <2>1. calls[p0][a0] = 1
      BY <2>0 DEF LedgerInv, Called, Holding
    <2>2. ex'[e].pc \in {"reserve", "settle"}
      BY <1>13, NextActionMemory DEF MarkAction
    <2>3. CASE ledger' = ledger
      BY <1>1, <2>0, <2>2, <2>3 DEF Reserved, Called
    <2>4. CASE Mark(e, ex[e].pc)
      BY <1>0, <2>0, <2>1, <2>2, <2>4, MarkWrites, LedgerWrites
         DEF Reserved, Called, ActionStates
    <2> QED BY <1>13, <2>3, <2>4 DEF MarkAction
  <1>14. CASE CancelAction(e)
    <2>0. ex[e].pc \in {"fresh", "call"} /\ ex[e].pc \in ActionPlaces
      BY <1>14 DEF CancelAction, ActionPlaces
    <2>1. calls[p0][a0] = 0
      BY <2>0 DEF LedgerInv, Reserved, Holding
    <2>2. ex'[e].pc = "idle"
      BY <1>14, AbandonMemory DEF CancelAction
    <2>3. CASE Mark(e, "suppressed") /\ calls' = calls
      BY <1>0, <2>0, <2>1, <2>2, <2>3, MarkWrites, LedgerWrites
         DEF Reserved, Called, ActionStates
    <2>4. CASE Mark(e, "unknown") /\ calls' = [calls EXCEPT ![p0][a0] = @ + 1]
      <3>1. \A p \in Publications, a \in ActionKeys :
               calls'[p][a] = IF p = p0 /\ a = a0 THEN 1 ELSE calls[p][a]
        BY <2>0, <2>1, <2>4, CallCounts
      <3>2. \A p \in Publications, a \in ActionKeys :
               IF p = p0 /\ a = a0 THEN ledger'[p][a] = "unknown" /\ calls'[p][a] = 1
               ELSE ledger'[p][a] = ledger[p][a] /\ calls'[p][a] = calls[p][a]
        BY <2>0, <2>4, <3>1, MarkWrites
      <3> QED BY <1>0, <2>0, <2>2, <3>2, LedgerWrites DEF Reserved, Called, ActionStates
    <2> QED BY <1>14, <2>3, <2>4 DEF CancelAction
  <1> QED BY <1>3, <1>4, <1>5, <1>7, <1>8, <1>9, <1>10, <1>11, <1>12, <1>13, <1>14
          DEF Execute, Advance

\* Whatever is not an executor leaves its memory, the ledger and the calls alone.
LEMMA OthersLeave ==
  ASSUME \/ \E r \in Recoverers : Recover(r) \/ RecoveryFault(r)
         \/ \E p \in Publications :
                Control(p) \/ BecomeDue(p) \/ SwitchChannel(p) \/ Age(p)
         \/ UNCHANGED vars
  PROVE  ex' = ex /\ ledger' = ledger /\ calls' = calls /\ sends' = sends
  <1>1. ASSUME NEW r \in Recoverers, Recover(r) \/ RecoveryFault(r)
        PROVE  ex' = ex /\ ledger' = ledger /\ calls' = calls /\ sends' = sends
    BY <1>1 DEF Recover, ListExpired, TakeExpired, RecoveryRead, RecoverUnknown, RecoveryFault,
       Close, rows, observed
  <1>2. ASSUME NEW p \in Publications, Control(p)
        PROVE  ex' = ex /\ ledger' = ledger /\ calls' = calls /\ sends' = sends
    BY <1>2 DEF Control, Cancel, Reschedule, SetRepeat, Edit, ReadEdit, WriteEdit,
       ReadRemoval, WriteRemoval, Plan, ReadPlan, WritePlan, PlannerCancels,
       PlannerReschedules, Decide, memory, rows, observed
  <1>3. ASSUME NEW p \in Publications, BecomeDue(p) \/ SwitchChannel(p) \/ Age(p)
        PROVE  ex' = ex /\ ledger' = ledger /\ calls' = calls /\ sends' = sends
    BY <1>3 DEF BecomeDue, SwitchChannel, Age, memory, observed
  <1>4. UNCHANGED vars => ex' = ex /\ ledger' = ledger /\ calls' = calls /\ sends' = sends
    BY DEF vars
  <1> QED BY <1>1, <1>2, <1>3, <1>4

LEMMA LedgerNext == ASSUME TypeOK, SendInv, LedgerInv, [Next]_vars PROVE LedgerInv'
  <1>1. CASE \E e \in Executors : Execute(e)
    BY <1>1, LedgerExecute
  <1>2. CASE ex' = ex /\ ledger' = ledger /\ calls' = calls
    BY <1>2, LedgerQuiet DEF Reserved, Called
  <1> QED BY <1>1, <1>2, OthersLeave DEF Next

LEMMA SendInvCorrect == Spec => []SendInv
  BY SendInit, SendNext, TypeCorrect, PTL DEF Spec

\* No pin or forward is called twice, and what the ledger says of it is true, for any number
\* of workers and post actions, with or without row locks.
THEOREM LedgerCorrect == Spec => []LedgerIsTruthful
  <1>1. LedgerInv => LedgerIsTruthful
    BY DEF LedgerInv, EntryTruthful, LedgerIsTruthful
  <1> QED BY <1>1, LedgerInit, LedgerNext, SendInvCorrect, TypeCorrect, PTL DEF Spec

-----------------------------------------------------------------------------
(* The lifecycle of a publication where rows are locked and nobody runs    *)
(* "remove all repeats", which reads without a lock on either database.    *)

\* No control stands between its reading and its writing.
NoControls == \A p \in Publications : controls[p] = {}

\* What a step does to the rows of a publication, at most one of them.
Keeps ==
    /\ UNCHANGED <<status, attempt, ids>>
    /\ \A p \in Publications : intent'[p] = intent[p] \/ status[p] = "queued"
Moves(p, from, to) ==
    /\ status[p] = from /\ status' = [status EXCEPT ![p] = to]
    /\ UNCHANGED <<intent, sends>>
Withdraws(p) == Moves(p, "queued", "cancelled") /\ UNCHANGED <<attempt, ids>>
Begins(p) ==
    /\ Moves(p, "queued", "sending") /\ UNCHANGED ids
    /\ attempt[p] = "none" /\ attempt' = [attempt EXCEPT ![p] = "sending"]
GivesUp(p) ==
    /\ Moves(p, "sending", "failed") /\ UNCHANGED ids
    /\ attempt' = [attempt EXCEPT ![p] = "failed"]
Publishes(e) ==
    LET p == ex[e].pub IN
    /\ At(e, "publish") /\ Authorized(e)
    /\ Moves(p, "sending", "published")
    /\ attempt' = [attempt EXCEPT ![p] = "published"]
    /\ ids' = [ids EXCEPT ![p] = intent[p]]

LifecycleStep ==
    \/ Keeps /\ sends' = sends
    \/ Keeps /\ \E e \in Executors : SendDocument(e)
    \/ \E p \in Publications : Withdraws(p) \/ Begins(p) \/ GivesUp(p)
    \/ \E e \in Executors : Publishes(e)

LEMMA LifecycleExecute ==
  ASSUME RowLocks, TypeOK, NEW e \in Executors, Execute(e)
  PROVE  LifecycleStep /\ controls' = controls
  <1> USE DEF At
  <1>1. ASSUME NEW p \in Publications, Claim(e, p)
        PROVE  Begins(p) /\ controls' = controls
    BY <1>1 DEF Claim, TakeClaim, Claimable, Begins, Moves, observed
  <1>2. ASSUME UNCHANGED <<status, attempt, ids, intent, controls>>, sends' = sends \/ SendDocument(e)
        PROVE  LifecycleStep /\ controls' = controls
    BY <1>2 DEF Keeps, LifecycleStep
  <1>3. CASE WriteClaim(e)
    <2>1. CASE Abandon(e) /\ UNCHANGED <<rows, rc, controls, bounds, observed>>
      BY <1>2, <2>1 DEF rows, observed
    <2>2. CASE ~(Abandon(e) /\ UNCHANGED <<rows, rc, controls, bounds, observed>>)
      <3>1. ex[e].pub \in Publications
        BY <1>3 DEF WriteClaim, TypeOK, ExecutorsTypeOK
      <3>2. Begins(ex[e].pub) /\ controls' = controls
        BY <1>3, <2>2 DEF WriteClaim, TakeClaim, Begins, Moves, observed
      <3> QED BY <3>1, <3>2 DEF LifecycleStep
    <2> QED BY <2>1, <2>2
  <1>4. CASE RecordTargets(e) \/ RenewClaim(e) \/ SendRejected(e) \/ AuthorizeHook(e)
             \/ HookFails(e) \/ SkipTimer(e) \/ MaterializeAutodelete(e) \/ PlanActions(e)
             \/ ReserveAction(e) \/ ReproveAction(e) \/ CallProvider(e) \/ MarkAction(e)
             \/ PostActionsFail(e) \/ StopHeartbeat(e) \/ Read(e) \/ Stop(e) \/ CancelAction(e)
             \/ HeartbeatRenews(e) \/ HeartbeatLoses(e)
    <2>1. UNCHANGED <<status, attempt, ids, intent, controls, sends>>
      BY <1>4 DEF RecordTargets, RenewClaim, SendRejected, AuthorizeHook, HookFails, SkipTimer,
         MaterializeAutodelete, PlanActions, ReserveAction, ReproveAction, CallProvider,
         MarkAction, PostActionsFail, StopHeartbeat, Read, Stop, CancelAction, HeartbeatRenews,
         HeartbeatLoses, rows, observed, memory
    <2> QED BY <1>2, <2>1
  <1>5. CASE SendDocument(e)
    BY <1>2, <1>5 DEF SendDocument, rows
  <1>6. CASE CompleteSuccess(e)
    <2>1. CASE Holds(e)
      <3>1. Authorized(e)
        BY <1>6, <2>1 DEF CompleteSuccess, Holds, Proven
      <3>2. Publishes(e) /\ controls' = controls
        BY <1>6, <2>1, <3>1 DEF CompleteSuccess, Close, Publishes, Moves, Authorized, LiveLifecycle,
           InFlight, IntentMatches, observed
      <3> QED BY <3>2 DEF LifecycleStep
    <2>2. CASE ~Holds(e)
      BY <1>2, <1>6, <2>2 DEF CompleteSuccess, rows, observed
    <2> QED BY <2>1, <2>2
  <1>7. CASE CompleteFailure(e)
    <2>1. CASE Holds(e)
      <3>1. LiveLifecycle(e) /\ ex[e].pub \in Publications
        BY <1>7, <2>1 DEF CompleteFailure, Holds, Proven, TypeOK, ExecutorsTypeOK
      <3>2. GivesUp(ex[e].pub) /\ controls' = controls
        BY <1>7, <2>1, <3>1 DEF CompleteFailure, Close, GivesUp, Moves, LiveLifecycle,
           InFlight, observed
      <3> QED BY <3>1, <3>2 DEF LifecycleStep
    <2>2. CASE ~Holds(e)
      BY <1>2, <1>7, <2>2 DEF CompleteFailure, rows, observed
    <2> QED BY <2>1, <2>2
  <1>8. ASSUME NEW p \in Publications, ReadClaim(e, p) PROVE FALSE
    BY <1>8 DEF ReadClaim
  <1> QED BY <1>1, <1>3, <1>4, <1>5, <1>6, <1>7, <1>8 DEF Execute, Advance, LifecycleStep

LEMMA LifecycleRecover ==
  ASSUME RowLocks, TypeOK, NEW r \in Recoverers, Recover(r) \/ RecoveryFault(r)
  PROVE  LifecycleStep /\ controls' = controls
  <1>1. ASSUME UNCHANGED <<status, attempt, ids, intent, controls, sends>>
        PROVE  LifecycleStep /\ controls' = controls
    BY <1>1 DEF Keeps, LifecycleStep
  <1>2. CASE RecoverUnknown(r)
    <2>1. CASE RecoveryHolds(r)
      <3>1. /\ rc[r].pub \in Publications /\ status[rc[r].pub] = "sending"
        BY <1>2, <2>1 DEF RecoverUnknown, RecoveryHolds, RecoveryProven, InFlight, TypeOK,
           RecoverersTypeOK
      <3>2. GivesUp(rc[r].pub) /\ controls' = controls
        BY <1>2, <2>1, <3>1 DEF RecoverUnknown, Close, GivesUp, Moves, observed
      <3> QED BY <3>1, <3>2 DEF LifecycleStep
    <2>2. CASE ~RecoveryHolds(r)
      BY <1>1, <1>2, <2>2 DEF RecoverUnknown, rows, observed
    <2> QED BY <2>1, <2>2
  <1>3. CASE ~RecoverUnknown(r)
    BY <1>1, <1>3 DEF Recover, ListExpired, TakeExpired, RecoveryRead, RecoveryFault, rows, observed
  <1> QED BY <1>2, <1>3

LEMMA LifecycleOthers ==
  ASSUME RowLocks, ~BulkRemoval, TypeOK, NoControls, NEW p \in Publications,
         Control(p) \/ BecomeDue(p) \/ SwitchChannel(p) \/ Age(p)
  PROVE  LifecycleStep /\ controls' = controls
  <1>1. ASSUME UNCHANGED <<status, attempt, ids, controls, sends>>,
               intent' = intent \/ (status[p] = "queued" /\ ChangeIntent(p))
        PROVE  LifecycleStep /\ controls' = controls
    BY <1>1 DEF Keeps, LifecycleStep, ChangeIntent, TypeOK, RowsTypeOK
  <1>2. ASSUME status[p] = "queued", Withdraw(p),
               UNCHANGED <<attempt, ids, intent, controls, sends>>
        PROVE  LifecycleStep /\ controls' = controls
    BY <1>2 DEF Withdraw, Withdraws, Moves, LifecycleStep
  <1>3. CASE Cancel(p)
    BY <1>2, <1>3 DEF Cancel, NotStarted, memory, observed
  <1>4. CASE Reschedule(p) \/ SetRepeat(p) \/ Edit(p)
    BY <1>1, <1>4 DEF Reschedule, SetRepeat, Edit, Editable, NotStarted, memory, observed
  <1>5. CASE Plan(p)
    BY <1>1, <1>2, <1>5 DEF Plan, Mutable, PlannerCancels, PlannerReschedules, observed
  <1>6. ~(ReadEdit(p) \/ WriteEdit(p) \/ ReadRemoval(p) \/ WriteRemoval(p) \/ ReadPlan(p)
          \/ WritePlan(p))
    BY DEF ReadEdit, WriteEdit, ReadRemoval, WriteRemoval, ReadPlan, WritePlan, Apply, NoControls
  <1>7. CASE BecomeDue(p) \/ SwitchChannel(p) \/ Age(p)
    BY <1>1, <1>7 DEF BecomeDue, SwitchChannel, Age, memory, observed
  <1> QED BY <1>3, <1>4, <1>5, <1>6, <1>7 DEF Control

LEMMA LifecycleNext ==
  ASSUME RowLocks, ~BulkRemoval, TypeOK, NoControls, [Next]_vars
  PROVE  LifecycleStep /\ controls' = controls
  <1>1. CASE UNCHANGED vars
    BY <1>1 DEF vars, LifecycleStep, Keeps
  <1> QED BY <1>1, LifecycleExecute, LifecycleRecover, LifecycleOthers DEF Next

-----------------------------------------------------------------------------
(* Nothing is sent unless it is claimed.                                   *)

\* Attempt #1 exists once the publication has left the queue by a claim, and only then.
ClaimInv ==
    /\ NoControls
    /\ \A p \in Publications : attempt[p] = "none" <=> status[p] \in {"queued", "cancelled"}

LEMMA ClaimInvInit == Init => ClaimInv
  BY DEF Init, ClaimInv, NoControls

LEMMA ClaimInvNext ==
  ASSUME RowLocks, ~BulkRemoval, TypeOK, ClaimInv, [Next]_vars
  PROVE  ClaimInv'
  <1>1. LifecycleStep /\ NoControls'
    BY LifecycleNext DEF ClaimInv, NoControls
  <1>2. CASE Keeps
    BY <1>1, <1>2 DEF Keeps, ClaimInv
  <1>3. ASSUME NEW p \in Publications, Withdraws(p) \/ Begins(p) \/ GivesUp(p) PROVE ClaimInv'
    BY <1>1, <1>3 DEF Withdraws, Begins, GivesUp, Moves, ClaimInv, TypeOK, RowsTypeOK
  <1>4. ASSUME NEW e \in Executors, Publishes(e) PROVE ClaimInv'
    <2>1. ex[e].pub \in Publications
      BY <1>4 DEF Publishes, At, TypeOK, ExecutorsTypeOK
    <2> QED BY <1>1, <1>4, <2>1 DEF Publishes, Moves, ClaimInv, TypeOK, RowsTypeOK
  <1> QED BY <1>1, <1>2, <1>3, <1>4 DEF LifecycleStep

LEMMA ClaimInvCorrect ==
  ASSUME RowLocks, ~BulkRemoval
  PROVE  Spec => []ClaimInv
  <1>1. ClaimInv /\ TypeOK /\ [Next]_vars => ClaimInv'
    BY ClaimInvNext
  <1> QED BY <1>1, ClaimInvInit, TypeCorrect, PTL DEF Spec

\* Where rows are locked, a publication that is queued or was cancelled has not been sent and
\* no worker is about to send it.
THEOREM NothingSentBeforeClaim ==
  ASSUME RowLocks, ~BulkRemoval
  PROVE  Spec => []NothingSentUnlessClaimed
  <1>1. ClaimInv /\ SendInv => NothingSentUnlessClaimed
    BY DEF ClaimInv, SendInv, NothingSentUnlessClaimed, Busy
  <1> QED BY <1>1, ClaimInvCorrect, SendInvCorrect, PTL

-----------------------------------------------------------------------------
(* Published as planned.                                                   *)

\* The executor has sent the document, and may come to publish.
Posted(e) == ex[e].pc \in {"sent", "timer", "actions", "reserve", "fresh", "call", "succeeded",
                           "unknown", "settle", "publish"}

\* The executor has passed the deletion timer.
PastTimer(e) == ex[e].pc \in {"actions"} \cup ActionPlaces

PlanInv ==
    /\ \A e \in Executors : Posted(e) => sends[ex[e].pub] = 1
    /\ \A p \in Publications : status[p] = "published" => sends[p] = 1 /\ ids[p] = intent[p]

TimerInv ==
    /\ \A e \in Executors : PastTimer(e) /\ ex[e].pub \in TimedDelete => timer[ex[e].pub]
    /\ \A p \in TimedDelete, a \in ActionKeys : ledger[p][a] # "none" => timer[p]

LEMMA PlanInvInit == Init => PlanInv /\ TimerInv
  BY DeliveryAssumption DEF Init, PlanInv, TimerInv, Posted, PastTimer, IdleExecutor, ActionPlaces

\* Only the provider call counts, and only it leads to "sent".
LEMMA SendsChange ==
  ASSUME TypeOK, NEW e \in Executors, Execute(e)
  PROVE  /\ sends' = sends \/ SendDocument(e)
         /\ Posted(e)' => Posted(e) \/ SendDocument(e)
  <1>1. sends' = sends \/ SendDocument(e)
    BY DEF Execute, Advance, Claim, ReadClaim, TakeClaim, WriteClaim, RecordTargets, RenewClaim,
       SendRejected, AuthorizeHook, HookFails, SkipTimer, MaterializeAutodelete, PlanActions,
       ReserveAction, ReproveAction, CallProvider, MarkAction, PostActionsFail, StopHeartbeat,
       CompleteSuccess, CompleteFailure, Close, Read, Stop, CancelAction, HeartbeatRenews,
       HeartbeatLoses, observed
  <1>2. CASE ex[e].pc = "ready" /\ ~SendDocument(e)
    <2>1. ReadClaim(e, ex'[e].pub) \/ HeartbeatRenews(e) \/ HeartbeatLoses(e) \/ SendRejected(e)
          \/ Stop(e)
      BY <1>2 DEF Execute, Advance, At, Claim, ReadClaim, WriteClaim, RecordTargets, RenewClaim,
         AuthorizeHook, HookFails, SkipTimer, MaterializeAutodelete, PlanActions,
         ReserveAction, ReproveAction, CallProvider, MarkAction, PostActionsFail, StopHeartbeat,
         CompleteSuccess, CompleteFailure, Read, CancelAction
    <2>2. ex'[e].pc \in {"ready", "rejected", "idle"}
      BY <1>2, <2>1, GotoMemory, AbandonMemory DEF ReadClaim, At, HeartbeatRenews, HeartbeatLoses,
         SendRejected, Stop, memory, TypeOK, ExecutorsTypeOK, ExecutorMemory
    <2> QED BY <1>1, <2>2 DEF Posted
  <1>3. CASE ex[e].pc # "ready"
    <2>1. Dropped(e) \/ Claims(e) \/ Proceeds(e)
      BY ExecuteMemory
    <2>2. Claims(e) => ex'[e].pc = "claimed"
      BY DEF Claims, TakeClaim, IdleExecutor, TypeOK, ExecutorsTypeOK
    <2> QED BY <1>1, <1>3, <2>1, <2>2 DEF Posted, Dropped, Proceeds, Follows
  <1> QED BY <1>1, <1>2, <1>3

\* The counter of the executor that sends, and of no other.
LEMMA SendCounts ==
  ASSUME TypeOK, SendInv, NEW e \in Executors, SendDocument(e)
  PROVE  /\ ex[e].pub \in Publications /\ Busy(e) /\ ~Posted(e)
         /\ ex'[e].pub = ex[e].pub /\ \A f \in Executors : f # e => ex'[f] = ex[f]
         /\ \A p \in Publications : sends'[p] = IF p = ex[e].pub THEN 1 ELSE sends[p]
  <1>1. ex[e].pub \in Publications /\ Busy(e) /\ ~Posted(e) /\ sends[ex[e].pub] = 0
    BY DEF SendDocument, At, Busy, Posted, SendInv, Unsent, TypeOK, ExecutorsTypeOK
  <1>2. \A p \in Publications : sends'[p] = IF p = ex[e].pub THEN 1 ELSE sends[p]
    BY <1>1 DEF SendDocument, Post, TypeOK, OthersTypeOK
  <1> QED BY <1>1, <1>2, GotoMemory DEF SendDocument

LEMMA PostedNext ==
  ASSUME TypeOK, SendInv, PlanInv, [Next]_vars
  PROVE  (\A e \in Executors : Posted(e) => sends[ex[e].pub] = 1)'
  <1>1. CASE ex' = ex /\ sends' = sends
    BY <1>1 DEF PlanInv, Posted
  <1>2. ASSUME NEW e \in Executors, Execute(e), sends' = sends
        PROVE  (\A f \in Executors : Posted(f) => sends[ex[f].pub] = 1)'
    <2>1. ~SendDocument(e)
      BY <1>2, SendCounts DEF SendDocument, Post, TypeOK, OthersTypeOK
    <2>2. Posted(e)' => Posted(e)
      BY <1>2, <2>1, SendsChange
    <2>3. Posted(e)' => ex'[e].pub = ex[e].pub
      BY <1>2, <2>2, ExecuteMemory DEF Posted, Dropped, Claims, Proceeds, Busy
    <2>4. \A f \in Executors : f # e => ex'[f] = ex[f]
      BY <1>2, ExecuteMemory
    <2> QED BY <1>2, <2>2, <2>3, <2>4 DEF PlanInv, Posted
  <1>3. ASSUME NEW e \in Executors, SendDocument(e)
        PROVE  (\A f \in Executors : Posted(f) => sends[ex[f].pub] = 1)'
    <2>1. ASSUME NEW f \in Executors, Posted(f)', f # e
          PROVE  /\ Posted(f) /\ ex'[f].pub = ex[f].pub
                 /\ ex[f].pub \in Publications /\ ex[f].pub # ex[e].pub
      <3>1. Posted(f) /\ ex'[f] = ex[f] /\ Busy(f)
        BY <1>3, <2>1, SendCounts DEF Posted, Busy
      <3> QED BY <1>3, <2>1, <3>1, SendCounts DEF SendInv, Busy, TypeOK, ExecutorsTypeOK
    <2>2. \A f \in Executors : f # e /\ Posted(f)' => sends'[ex'[f].pub] = 1
      BY <1>3, <2>1, SendCounts DEF PlanInv
    <2>3. sends'[ex'[e].pub] = 1
      BY <1>3, SendCounts
    <2> QED BY <2>2, <2>3
  <1>4. ASSUME NEW e \in Executors, Execute(e) PROVE sends' = sends \/ SendDocument(e)
    BY <1>4, SendsChange
  <1> QED BY <1>1, <1>2, <1>3, <1>4, OthersLeave DEF Next

LEMMA PublishedNext ==
  ASSUME RowLocks, ~BulkRemoval, TypeOK, SendInv, ClaimInv, PlanInv, [Next]_vars
  PROVE  (\A p \in Publications : status[p] = "published" => sends[p] = 1 /\ ids[p] = intent[p])'
  <1>1. LifecycleStep
    BY LifecycleNext DEF ClaimInv
  <1>2. CASE Keeps /\ sends' = sends
    BY <1>2 DEF Keeps, PlanInv
  <1>3. ASSUME Keeps, NEW e \in Executors, SendDocument(e)
        PROVE  (\A p \in Publications :
                    status[p] = "published" => sends[p] = 1 /\ ids[p] = intent[p])'
    BY <1>3, SendCounts DEF Keeps, PlanInv
  <1>4. ASSUME NEW p \in Publications, Withdraws(p) \/ Begins(p) \/ GivesUp(p)
        PROVE  (\A q \in Publications :
                    status[q] = "published" => sends[q] = 1 /\ ids[q] = intent[q])'
    BY <1>4 DEF Withdraws, Begins, GivesUp, Moves, PlanInv, TypeOK, RowsTypeOK
  <1>5. ASSUME NEW e \in Executors, Publishes(e)
        PROVE  (\A q \in Publications :
                    status[q] = "published" => sends[q] = 1 /\ ids[q] = intent[q])'
    <2>1. ex[e].pub \in Publications /\ sends[ex[e].pub] = 1
      BY <1>5 DEF Publishes, At, TypeOK, ExecutorsTypeOK, PlanInv, Posted
    <2> QED BY <1>5, <2>1 DEF Publishes, Moves, PlanInv, TypeOK, RowsTypeOK
  <1> QED BY <1>1, <1>2, <1>3, <1>4, <1>5 DEF LifecycleStep

\* A deletion timer that is stored stays, and a worker passes it only once it is.
LEMMA TimerNext ==
  ASSUME RowLocks, ~BulkRemoval, TypeOK, ClaimInv, TimerInv, [Next]_vars
  PROVE  TimerInv'
  <1> USE DEF At
  <1>1. ASSUME ex' = ex, ledger' = ledger, timer' = timer PROVE TimerInv'
    BY <1>1 DEF TimerInv, PastTimer
  <1>2. CASE UNCHANGED vars
    BY <1>1, <1>2 DEF vars
  <1>3. ASSUME NEW r \in Recoverers, Recover(r) \/ RecoveryFault(r) PROVE TimerInv'
    <2>1. timer' = timer
      BY <1>3 DEF Recover, ListExpired, TakeExpired, RecoveryRead, RecoverUnknown, RecoveryFault,
         Close, rows
    <2> QED BY <1>1, <1>3, <2>1, OthersLeave
  <1>4. ASSUME NEW p \in Publications, Control(p) \/ BecomeDue(p) \/ SwitchChannel(p) \/ Age(p)
        PROVE  TimerInv'
    <2>1. ~WriteRemoval(p)
      BY DEF WriteRemoval, Apply, ClaimInv, NoControls
    <2>2. timer' = timer
      BY <1>4, <2>1 DEF Control, Cancel, Reschedule, SetRepeat, Edit, ReadEdit, WriteEdit,
         ReadRemoval, Plan, ReadPlan, WritePlan, PlannerCancels, PlannerReschedules, Decide,
         BecomeDue, SwitchChannel, Age, rows
    <2> QED BY <1>1, <1>4, <2>2, OthersLeave
  <1>5. ASSUME NEW e \in Executors, Execute(e) PROVE TimerInv'
    <2>0. /\ \A f \in Executors : f # e => ex'[f] = ex[f]
          /\ Dropped(e) \/ Claims(e) \/ Proceeds(e)
      BY <1>5, ExecuteMemory
    <2>1. Claims(e) => ex'[e].pc = "claimed"
      BY DEF Claims, TakeClaim, IdleExecutor, TypeOK, ExecutorsTypeOK
    <2>2. CASE ledger' = ledger /\ timer' = timer /\ ~(ex[e].pc = "timer" /\ ex'[e].pc = "actions")
      <3>1. PastTimer(e)' => PastTimer(e) /\ ex'[e].pub = ex[e].pub
        BY <2>0, <2>1, <2>2 DEF PastTimer, ActionPlaces, Dropped, Proceeds, Follows
      <3> QED BY <2>0, <2>2, <3>1 DEF TimerInv, PastTimer
    <2>3. CASE SkipTimer(e)
      <3>1. ledger' = ledger /\ timer' = timer /\ ex'[e].pub = ex[e].pub
            /\ ex[e].pub \notin TimedDelete
        BY <2>3, GotoMemory DEF SkipTimer, rows
      <3> QED BY <2>0, <3>1 DEF TimerInv, PastTimer
    <2>4. CASE MaterializeAutodelete(e) /\ Abandon(e)
      <3>1. ledger' = ledger /\ ex'[e].pc = "idle"
            /\ \A p \in Publications : timer[p] => timer'[p]
        BY <2>4, AbandonMemory DEF MaterializeAutodelete, TypeOK, RowsTypeOK
      <3> QED BY <2>0, <3>1, DeliveryAssumption DEF TimerInv, PastTimer, ActionPlaces
    <2>5. CASE MaterializeAutodelete(e) /\ ~Abandon(e)
      <3>1. /\ Goto(e, "actions") /\ timer' = [timer EXCEPT ![ex[e].pub] = TRUE]
            /\ ex[e].pc = "timer" /\ ledger' = ledger
        BY <2>5 DEF MaterializeAutodelete
      <3>2. ex[e].pub \in Publications /\ ex'[e].pub = ex[e].pub
        BY <3>1, GotoMemory DEF TypeOK, ExecutorsTypeOK
      <3>3. /\ \A p \in Publications : timer[p] => timer'[p]
            /\ timer'[ex[e].pub]
        BY <3>1, <3>2 DEF TypeOK, RowsTypeOK
      <3>4. \A f \in Executors : PastTimer(f) => ex[f].pub \in Publications
        BY DEF PastTimer, ActionPlaces, TypeOK, ExecutorsTypeOK
      <3>5. \A f \in Executors : f # e /\ PastTimer(f)' => PastTimer(f) /\ ex'[f].pub = ex[f].pub
        BY <2>0 DEF PastTimer
      <3>6. (\A f \in Executors : PastTimer(f) /\ ex[f].pub \in TimedDelete => timer[ex[f].pub])'
        BY <3>2, <3>3, <3>4, <3>5 DEF TimerInv
      <3>7. (\A p \in TimedDelete, a \in ActionKeys : ledger[p][a] # "none" => timer[p])'
        BY <3>1, <3>3, DeliveryAssumption DEF TimerInv
      <3> QED BY <3>6, <3>7 DEF TimerInv
    <2>6. ASSUME timer' = timer, ex[e].pc \in ActionPlaces, NEW state,
                 Mark(e, state)
          PROVE  TimerInv'
      <3>1. PastTimer(e) /\ ex[e].pub \in Publications
        BY <2>6 DEF PastTimer, ActionPlaces, TypeOK, ExecutorsTypeOK
      <3>2. PastTimer(e)' => ex'[e].pub = ex[e].pub
        BY <2>0, <2>1, <2>6 DEF PastTimer, ActionPlaces, Dropped, Proceeds
      <3>3. \A p \in TimedDelete, a \in ActionKeys : ledger'[p][a] # "none" => timer[p]
        BY <2>6, <3>1, MarkWrites, DeliveryAssumption DEF TimerInv
      <3> QED BY <2>0, <2>6, <3>1, <3>2, <3>3 DEF TimerInv, PastTimer
    <2>7. CASE ReserveAction(e) \/ ReproveAction(e) \/ MarkAction(e) \/ CancelAction(e)
      <3>1. timer' = timer /\ ex[e].pc \in ActionPlaces
            /\ (ledger' = ledger \/ \E state : Mark(e, state))
        BY <2>7 DEF ReserveAction, ReproveAction, MarkAction, CancelAction, ActionPlaces
      <3> QED BY <2>2, <2>6, <3>1 DEF ActionPlaces
    <2>8. CASE ~(SkipTimer(e) \/ MaterializeAutodelete(e) \/ ReserveAction(e) \/ ReproveAction(e)
                 \/ MarkAction(e) \/ CancelAction(e))
      <3>1. ledger' = ledger /\ timer' = timer
        BY <1>5, <2>8 DEF Execute, Advance, Claim, ReadClaim, TakeClaim, WriteClaim, RecordTargets,
           RenewClaim, SendDocument, SendRejected, AuthorizeHook, HookFails, PlanActions,
           CallProvider, PostActionsFail, StopHeartbeat, CompleteSuccess, CompleteFailure, Close,
           Read, Stop, HeartbeatRenews, HeartbeatLoses, rows
      <3>2. CASE ex[e].pc = "timer" /\ ex'[e].pc = "actions"
        <4>1. Read(e) \/ Stop(e) \/ HeartbeatRenews(e) \/ HeartbeatLoses(e)
          BY <1>5, <2>8, <3>2 DEF Execute, Advance, Claim, ReadClaim, WriteClaim, RecordTargets,
             RenewClaim, SendDocument, SendRejected, AuthorizeHook, HookFails, PlanActions,
             CallProvider, PostActionsFail, StopHeartbeat, CompleteSuccess, CompleteFailure
        <4> QED BY <3>2, <4>1, AbandonMemory DEF Read, Stop, HeartbeatRenews, HeartbeatLoses,
               memory, TypeOK, ExecutorsTypeOK, ExecutorMemory
      <3> QED BY <2>2, <3>1, <3>2
    <2> QED BY <2>3, <2>4, <2>5, <2>7, <2>8
  <1> QED BY <1>2, <1>3, <1>4, <1>5 DEF Next

LEMMA PlanInvCorrect ==
  ASSUME RowLocks, ~BulkRemoval
  PROVE  Spec => [](PlanInv /\ TimerInv)
  <1>1. /\ TypeOK /\ SendInv /\ ClaimInv /\ PlanInv /\ TimerInv /\ [Next]_vars
        => PlanInv' /\ TimerInv'
    BY PostedNext, PublishedNext, TimerNext DEF PlanInv
  <1> QED BY <1>1, PlanInvInit, ClaimInvCorrect, SendInvCorrect, TypeCorrect, PTL DEF Spec

\* Where rows are locked, a publication is recorded as published only if it was sent once and
\* as its rows say, and no pin or forward precedes a deletion timer that was asked for.
THEOREM PublishedCorrect ==
  ASSUME RowLocks, ~BulkRemoval
  PROVE  Spec => []PublishedAsPlanned
  <1>1. PlanInv /\ TimerInv => PublishedAsPlanned
    BY DeliveryAssumption DEF PlanInv, TimerInv, PublishedAsPlanned
  <1> QED BY <1>1, PlanInvCorrect, PTL

-----------------------------------------------------------------------------
(* The promise of PublicationLifecycle.                                    *)

LEMMA LifecycleInit == Init => Lifecycle!Init
  BY DEF Init, Lifecycle!Init

\* The step of the lifecycle that corresponds to each step of the delivery.
LEMMA LifecycleRefines ==
  ASSUME RowLocks, ~BulkRemoval, TypeOK, SendInv, ClaimInv, PlanInv, [Next]_vars
  PROVE  [Lifecycle!Next]_<<status, sends>>
  <1>1. LifecycleStep
    BY LifecycleNext DEF ClaimInv
  <1>2. CASE Keeps /\ sends' = sends
    BY <1>2 DEF Keeps
  <1>3. ASSUME Keeps, NEW e \in Executors, SendDocument(e)
        PROVE  \E p \in Publications : Lifecycle!Post(p)
    <2> DEFINE p == ex[e].pub
    <2>1. Unsent(e) /\ p \in Publications /\ Busy(e) /\ sends' = [sends EXCEPT ![p] = @ + 1]
      BY <1>3 DEF SendDocument, At, Post, Unsent, Busy, TypeOK, ExecutorsTypeOK
    <2>2. sends[p] = 0 /\ attempt[p] # "none"
      BY <2>1 DEF SendInv
    <2>3. status[p] \in {"sending", "failed"}
      BY <2>1, <2>2 DEF ClaimInv, PlanInv, TypeOK, RowsTypeOK, Terminal
    <2>4. sends' = [sends EXCEPT ![p] = 1]
      BY <2>1, <2>2
    <2> QED BY <1>3, <2>1, <2>2, <2>3, <2>4 DEF Keeps, Lifecycle!Post
  <1>4. ASSUME NEW p \in Publications, Withdraws(p) \/ Begins(p) \/ GivesUp(p)
        PROVE  Lifecycle!Withdraw(p) \/ Lifecycle!Begin(p) \/ Lifecycle!GiveUp(p)
    BY <1>4 DEF Withdraws, Begins, GivesUp, Moves, Lifecycle!Withdraw, Lifecycle!Begin,
       Lifecycle!GiveUp
  <1>5. ASSUME NEW e \in Executors, Publishes(e)
        PROVE  \E p \in Publications : Lifecycle!Publish(p)
    <2>1. ex[e].pub \in Publications /\ sends[ex[e].pub] = 1
      BY <1>5 DEF Publishes, At, TypeOK, ExecutorsTypeOK, PlanInv, Posted
    <2> QED BY <1>5, <2>1 DEF Publishes, Moves, Lifecycle!Publish
  <1> QED BY <1>1, <1>2, <1>3, <1>4, <1>5 DEF LifecycleStep, Lifecycle!Next

\* Where rows are locked, the delivery implements the lifecycle: a publication is withdrawn or
\* begun once, posted at most once, published only after posting, and every outcome is final.
THEOREM LifecycleKept ==
  ASSUME RowLocks, ~BulkRemoval
  PROVE  Spec => KeepsLifecycle
  <1>1. TypeOK /\ SendInv /\ ClaimInv /\ PlanInv /\ TimerInv /\ [Next]_vars
        => [Lifecycle!Next]_<<status, sends>>
    BY LifecycleRefines
  <1> QED BY <1>1, LifecycleInit, PlanInvCorrect, ClaimInvCorrect, SendInvCorrect, TypeCorrect, PTL
          DEF Spec, KeepsLifecycle, Lifecycle!Spec

-----------------------------------------------------------------------------
(* What has expired is never published.                                    *)

\* Tokens are numbered as they are issued.
TokenInv ==
    /\ \A p \in Publications : token[p] <= issued[p]
    /\ \A e \in Executors : Busy(e) => ex[e].token <= issued[ex[e].pub]

\* Nobody can publish p any more: its lease has expired, or is no worker's.
Lost(p) ==
    \/ status[p] \in {"failed", "cancelled"}
    \/ /\ status[p] = "sending"
       /\ \/ ttl[p] = 0
          \/ \A e \in Executors : Busy(e) /\ ex[e].pub = p => ex[e].token # token[p]

LEMMA TokenInit == Init => TokenInv
  BY DEF Init, TokenInv, Busy, IdleExecutor

\* What a step does to the lease of a publication.
LeaseKept(p) == token'[p] = token[p] /\ issued'[p] = issued[p]
LeaseIssued(p) == issued'[p] = issued[p] + 1 /\ token'[p] = issued[p] + 1
LeaseGone(p) == issued'[p] = issued[p] /\ token'[p] = 0 /\ status'[p] \in {"published", "failed"}

LEMMA LeaseSteps ==
  ASSUME TypeOK, [Next]_vars, NEW p \in Publications
  PROVE  LeaseKept(p) \/ LeaseIssued(p) \/ LeaseGone(p)
  <1>1. CASE token' = token /\ issued' = issued
    BY <1>1 DEF LeaseKept
  <1>2. ASSUME NEW q \in Publications, NEW outcome \in {"published", "failed"}, Close(q, outcome)
        PROVE  LeaseKept(p) \/ LeaseGone(p)
    BY <1>2 DEF Close, LeaseKept, LeaseGone, TypeOK, RowsTypeOK
  <1>3. ASSUME NEW q \in Publications, issued' = [issued EXCEPT ![q] = @ + 1],
               token' = [token EXCEPT ![q] = issued'[q]]
        PROVE  LeaseKept(p) \/ LeaseIssued(p)
    BY <1>3 DEF LeaseKept, LeaseIssued, TypeOK, RowsTypeOK
  <1>4. ASSUME NEW e \in Executors, Execute(e)
        PROVE  LeaseKept(p) \/ LeaseIssued(p) \/ LeaseGone(p)
    <2>1. ASSUME NEW q \in Publications, Claim(e, q) PROVE LeaseKept(p) \/ LeaseIssued(p)
      BY <1>3, <2>1 DEF Claim, TakeClaim
    <2>2. CASE WriteClaim(e)
      <3>1. ex[e].pub \in Publications
        BY <2>2 DEF WriteClaim, At, TypeOK, ExecutorsTypeOK
      <3> QED BY <1>1, <1>3, <2>2, <3>1 DEF WriteClaim, TakeClaim, rows
    <2>3. CASE CompleteSuccess(e) \/ CompleteFailure(e)
      <3>1. ex[e].pub \in Publications
        BY <2>3 DEF CompleteSuccess, CompleteFailure, At, TypeOK, ExecutorsTypeOK
      <3> QED BY <1>1, <1>2, <2>3, <3>1 DEF CompleteSuccess, CompleteFailure, rows
    <2>4. CASE ~(WriteClaim(e) \/ CompleteSuccess(e) \/ CompleteFailure(e)
                 \/ \E q \in Publications : Claim(e, q))
      <3>1. token' = token /\ issued' = issued
        BY <1>4, <2>4 DEF Execute, Advance, ReadClaim, RecordTargets, RenewClaim, SendDocument,
           SendRejected, AuthorizeHook, HookFails, SkipTimer, MaterializeAutodelete, PlanActions,
           ReserveAction, ReproveAction, CallProvider, MarkAction, PostActionsFail,
           StopHeartbeat, Read, Stop, CancelAction, HeartbeatRenews, HeartbeatLoses, rows
      <3> QED BY <1>1, <3>1
    <2> QED BY <2>1, <2>2, <2>3, <2>4
  <1>5. ASSUME NEW r \in Recoverers, Recover(r) \/ RecoveryFault(r)
        PROVE  LeaseKept(p) \/ LeaseIssued(p) \/ LeaseGone(p)
    <2>1. CASE TakeExpired(r) \/ RecoverUnknown(r)
      <3>1. rc[r].pub \in Publications
        BY <2>1 DEF TakeExpired, RecoverUnknown, TypeOK, RecoverersTypeOK
      <3> QED BY <1>1, <1>2, <1>3, <2>1, <3>1 DEF TakeExpired, RecoverUnknown, rows
    <2>2. CASE ~(TakeExpired(r) \/ RecoverUnknown(r))
      BY <1>1, <1>5, <2>2 DEF Recover, ListExpired, RecoveryRead, RecoveryFault, rows
    <2> QED BY <2>1, <2>2
  <1>6. ASSUME NEW q \in Publications, Control(q) \/ BecomeDue(q) \/ SwitchChannel(q) \/ Age(q)
        PROVE  LeaseKept(p)
    <2>1. token' = token /\ issued' = issued
      BY <1>6 DEF Control, Cancel, Reschedule, SetRepeat, Edit, ReadEdit, WriteEdit, ReadRemoval,
         WriteRemoval, Plan, ReadPlan, WritePlan, PlannerCancels, PlannerReschedules, Decide,
         BecomeDue, SwitchChannel, Age, rows
    <2> QED BY <1>1, <2>1 DEF LeaseKept
  <1>7. CASE UNCHANGED vars
    BY <1>1, <1>7 DEF vars
  <1> QED BY <1>4, <1>5, <1>6, <1>7 DEF Next

\* Who is busy after a step was busy with the same token, or has just claimed.
LEMMA BusySteps ==
  ASSUME TypeOK, [Next]_vars, NEW f \in Executors, Busy(f)'
  PROVE  \/ Busy(f) /\ ex'[f].pub = ex[f].pub /\ ex'[f].token = ex[f].token
         \/ \E p \in Publications : /\ status[p] = "queued" /\ status'[p] = "sending"
                                    /\ issued'[p] = issued[p] + 1
                                    /\ ex'[f].pub = p /\ ex'[f].token = issued'[p]
  <1>1. CASE ex' = ex
    BY <1>1 DEF Busy
  <1>2. ASSUME NEW e \in Executors, Execute(e), f = e
        PROVE  \/ Proceeds(f)
               \/ \E p \in Publications : /\ status[p] = "queued" /\ status'[p] = "sending"
                                          /\ issued'[p] = issued[p] + 1
                                          /\ ex'[f].pub = p /\ ex'[f].token = issued'[p]
    <2>1. Claims(e) \/ Proceeds(e)
      BY <1>2, ExecuteMemory DEF Dropped, Busy
    <2>2. ASSUME NEW p \in Publications, NEW plan, status[p] = "queued", TakeClaim(e, p, plan)
          PROVE  /\ status'[p] = "sending" /\ issued'[p] = issued[p] + 1
                 /\ ex'[e].pub = p /\ ex'[e].token = issued'[p]
      BY <2>2 DEF TakeClaim, IdleExecutor, TypeOK, RowsTypeOK, ExecutorsTypeOK
    <2> QED BY <1>2, <2>1, <2>2 DEF Claims
  <1>3. ASSUME NEW e \in Executors, Execute(e), f # e
        PROVE  Busy(f) /\ ex'[f] = ex[f]
    BY <1>3, ExecuteMemory DEF Busy
  <1> QED BY <1>1, <1>2, <1>3, OthersLeave DEF Next, Proceeds

LEMMA TokenNext == ASSUME TypeOK, TokenInv, [Next]_vars PROVE TokenInv'
  <1>1. ASSUME NEW p \in Publications
        PROVE  token'[p] <= issued'[p] /\ issued[p] <= issued'[p] /\ issued[p] \in Nat
               /\ issued'[p] \in Nat
    BY LeaseSteps DEF LeaseKept, LeaseIssued, LeaseGone, TokenInv, TypeOK, RowsTypeOK
  <1>2. ASSUME NEW f \in Executors, Busy(f)'
        PROVE  ex'[f].token <= issued'[ex'[f].pub]
    <2>1. CASE Busy(f) /\ ex'[f].pub = ex[f].pub /\ ex'[f].token = ex[f].token
      <3>1. /\ ex[f].pub \in Publications /\ ex[f].token \in Nat
            /\ ex[f].token <= issued[ex[f].pub]
        BY <2>1 DEF Busy, TypeOK, ExecutorsTypeOK, ExecutorMemory, TokenInv
      <3> QED BY <1>1, <2>1, <3>1
    <2>2. ASSUME NEW p \in Publications, ex'[f].pub = p, ex'[f].token = issued'[p]
          PROVE  ex'[f].token <= issued'[ex'[f].pub]
      BY <1>1, <2>2
    <2> QED BY <1>2, <2>1, <2>2, BusySteps
  <1> QED BY <1>1, <1>2 DEF TokenInv

\* The status of a lost publication.
LEMMA LostStatus ==
  ASSUME RowLocks, TypeOK, NEW p \in Publications, Lost(p), [Next]_vars
  PROVE  status'[p] \in {"failed", "cancelled"} \/ (status'[p] = "sending" /\ status[p] = "sending")
  <1>1. CASE status' = status
    BY <1>1 DEF Lost
  <1>2. ASSUME LifecycleStep
        PROVE  \/ status'[p] \in {"failed", "cancelled"}
               \/ status'[p] = "sending" /\ status[p] = "sending"
    <2>1. ASSUME NEW q \in Publications, Withdraws(q) \/ Begins(q) \/ GivesUp(q)
          PROVE  \/ status'[p] \in {"failed", "cancelled"}
                 \/ status'[p] = "sending" /\ status[p] = "sending"
      BY <2>1 DEF Withdraws, Begins, GivesUp, Moves, Lost, TypeOK, RowsTypeOK
    <2>2. ASSUME NEW e \in Executors, Publishes(e)
          PROVE  \/ status'[p] \in {"failed", "cancelled"}
                 \/ status'[p] = "sending" /\ status[p] = "sending"
      <3>1. Busy(e) /\ LeaseLive(ex[e].pub, ex[e].token) /\ status[ex[e].pub] = "sending"
        BY <2>2 DEF Publishes, Authorized, LiveLifecycle, Moves, At, Busy
      <3>2. ex[e].pub # p
        BY <3>1 DEF LeaseLive, Lost
      <3> QED BY <1>1, <2>2, <3>2 DEF Publishes, Moves, Lost, TypeOK, RowsTypeOK
    <2> QED BY <1>1, <1>2, <2>1, <2>2 DEF LifecycleStep, Keeps
  <1>3. ASSUME NEW q \in Publications, Control(q) \/ BecomeDue(q) \/ SwitchChannel(q) \/ Age(q)
        PROVE  status' = status \/ Withdraw(q)
    BY <1>3 DEF Control, Cancel, Reschedule, SetRepeat, Edit, ReadEdit, WriteEdit, ReadRemoval,
       WriteRemoval, Plan, ReadPlan, WritePlan, PlannerCancels, PlannerReschedules, Decide,
       BecomeDue, SwitchChannel, Age, rows
  <1>4. ASSUME NEW q \in Publications, Withdraw(q)
        PROVE  \/ status'[p] \in {"failed", "cancelled"}
               \/ status'[p] = "sending" /\ status[p] = "sending"
    BY <1>4 DEF Withdraw, Lost, TypeOK, RowsTypeOK
  <1>5. CASE UNCHANGED vars
    BY <1>1, <1>5 DEF vars
  <1> QED BY <1>1, <1>2, <1>3, <1>4, <1>5, LifecycleExecute, LifecycleRecover DEF Next

\* An expired lease stays expired until a recovery takes it over under a new token.
LEMMA ExpiredSteps ==
  ASSUME TypeOK, NEW p \in Publications, status[p] = "sending", ttl[p] = 0, [Next]_vars,
         LeaseKept(p), status'[p] = "sending", RowLocks
  PROVE  ttl'[p] = 0
  <1>1. CASE ttl' = ttl
    BY <1>1
  <1>2. ASSUME NEW q, q # p \/ ttl[q] > 0, NEW left, ttl' = [ttl EXCEPT ![q] = left]
        PROVE  ttl'[p] = 0
    BY <1>2 DEF TypeOK, RowsTypeOK
  <1>3. ASSUME NEW q \in Publications, NEW outcome \in {"published", "failed"}, Close(q, outcome)
        PROVE  ttl'[p] = 0
    BY <1>3 DEF Close, TypeOK, RowsTypeOK
  <1>4. ASSUME NEW e \in Executors, Execute(e) PROVE ttl'[p] = 0
    <2>1. ASSUME NEW q \in Publications, Claim(e, q) PROVE ttl'[p] = 0
      BY <1>2, <2>1 DEF Claim, Claimable, TakeClaim
    <2>2. CASE WriteClaim(e)
      BY SMTT(30), <1>1, <1>2, <2>2 DEF WriteClaim, TakeClaim, rows
    <2>3. CASE RenewClaim(e) \/ HeartbeatRenews(e)
      BY <1>1, <1>2, <2>3 DEF RenewClaim, HeartbeatRenews, LeaseLive
    <2>4. CASE CompleteSuccess(e) \/ CompleteFailure(e)
      <3>1. ex[e].pub \in Publications
        BY <2>4 DEF CompleteSuccess, CompleteFailure, At, TypeOK, ExecutorsTypeOK
      <3> QED BY <1>1, <1>3, <2>4, <3>1 DEF CompleteSuccess, CompleteFailure, rows
    <2>5. CASE ~(WriteClaim(e) \/ RenewClaim(e) \/ HeartbeatRenews(e) \/ CompleteSuccess(e)
                 \/ CompleteFailure(e) \/ \E q \in Publications : Claim(e, q))
      <3>1. ttl' = ttl
        BY <1>4, <2>5 DEF Execute, Advance, ReadClaim, RecordTargets, SendDocument,
           SendRejected, AuthorizeHook, HookFails, SkipTimer, MaterializeAutodelete, PlanActions,
           ReserveAction, ReproveAction, CallProvider, MarkAction, PostActionsFail,
           StopHeartbeat, Read, Stop, CancelAction, HeartbeatLoses, rows
      <3> QED BY <1>1, <3>1
    <2> QED BY <2>1, <2>2, <2>3, <2>4, <2>5
  <1>5. ASSUME NEW r \in Recoverers, Recover(r) \/ RecoveryFault(r) PROVE ttl'[p] = 0
    <2>1. CASE TakeExpired(r)
      <3>1. CASE UNCHANGED <<token, ttl, issued>>
        BY <1>1, <3>1
      <3>2. CASE issued' = [issued EXCEPT ![rc[r].pub] = @ + 1]
                 /\ \E left \in 0..RecoveryTTL : ttl' = [ttl EXCEPT ![rc[r].pub] = left]
        <4>1. rc[r].pub # p
          BY <3>2 DEF LeaseKept, TypeOK, RowsTypeOK
        <4> QED BY <1>2, <3>2, <4>1
      <3> QED BY <2>1, <3>1, <3>2 DEF TakeExpired
    <2>2. CASE RecoverUnknown(r)
      <3>1. rc[r].pub \in Publications
        BY <2>2 DEF RecoverUnknown, TypeOK, RecoverersTypeOK
      <3> QED BY <1>1, <1>3, <2>2, <3>1 DEF RecoverUnknown, rows
    <2>3. CASE ~(TakeExpired(r) \/ RecoverUnknown(r))
      BY <1>1, <1>5, <2>3 DEF Recover, ListExpired, RecoveryRead, RecoveryFault, rows
    <2> QED BY <2>1, <2>2, <2>3
  <1>6. ASSUME NEW q \in Publications, Control(q) \/ BecomeDue(q) \/ SwitchChannel(q)
        PROVE  ttl' = ttl
    BY <1>6 DEF Control, Cancel, Reschedule, SetRepeat, Edit, ReadEdit, WriteEdit, ReadRemoval,
       WriteRemoval, Plan, ReadPlan, WritePlan, PlannerCancels, PlannerReschedules, Decide,
       BecomeDue, SwitchChannel, rows
  <1>7. ASSUME NEW q \in Publications, Age(q) PROVE ttl'[p] = 0
    BY <1>2, <1>7 DEF Age
  <1>8. CASE UNCHANGED vars
    BY <1>1, <1>8 DEF vars
  <1> QED BY <1>1, <1>4, <1>5, <1>6, <1>7, <1>8 DEF Next

LEMMA LostNext ==
  ASSUME RowLocks, TypeOK, TokenInv, NEW p \in Publications, Lost(p), [Next]_vars
  PROVE  Lost(p)'
  <1>1. CASE status'[p] \in {"failed", "cancelled"}
    BY <1>1 DEF Lost
  <1>2. CASE status'[p] = "sending" /\ status[p] = "sending"
    \* Who is busy with p was busy with it before, under a token that was issued.
    <2>1. ASSUME NEW f \in Executors, Busy(f)', ex'[f].pub = p
          PROVE  /\ Busy(f) /\ ex[f].pub = p /\ ex'[f].token = ex[f].token
                 /\ ex[f].token <= issued[p] /\ ex[f].token \in Nat
      BY <1>2, <2>1, BusySteps DEF TokenInv, TypeOK, ExecutorsTypeOK, ExecutorMemory
    <2>2. CASE LeaseKept(p)
      <3>1. CASE ttl[p] = 0
        BY <1>2, <2>2, <3>1, ExpiredSteps DEF Lost
      <3>2. CASE \A e \in Executors : Busy(e) /\ ex[e].pub = p => ex[e].token # token[p]
        BY <1>2, <2>1, <2>2, <3>2 DEF LeaseKept, Lost
      <3> QED BY <1>2, <3>1, <3>2 DEF Lost
    <2>3. CASE LeaseIssued(p)
      <3>1. issued[p] \in Nat
        BY DEF TypeOK, RowsTypeOK
      <3>2. (\A f \in Executors : Busy(f) /\ ex[f].pub = p => ex[f].token # token[p])'
        BY <2>1, <2>3, <3>1 DEF LeaseIssued
      <3> QED BY <1>2, <3>2 DEF Lost
    \* A lease goes with the outcome of its delivery.
    <2>4. ~LeaseGone(p)
      BY <1>2 DEF LeaseGone
    <2> QED BY <2>2, <2>3, <2>4, LeaseSteps
  <1> QED BY <1>1, <1>2, LostStatus

\* Where rows are locked, a delivery whose lease has expired while it was sending is never
\* recorded as published: not by the worker that held the lease, and by no other.
THEOREM ExpiredStaysUnpublished ==
  ASSUME RowLocks
  PROVE  Spec => ExpiredIsNeverPublished
  <1> SUFFICES ASSUME NEW p \in Publications
               PROVE  Spec => []((status[p] = "sending" /\ ttl[p] = 0)
                                   => [](status[p] # "published"))
    BY DEF ExpiredIsNeverPublished
  <1>1. status[p] = "sending" /\ ttl[p] = 0 => Lost(p)
    BY DEF Lost
  <1>2. Lost(p) => status[p] # "published"
    BY DEF Lost
  <1>3. TypeOK /\ TokenInv /\ [Next]_vars => TokenInv'
    BY TokenNext
  <1>4. TypeOK /\ TokenInv /\ Lost(p) /\ [Next]_vars => Lost(p)'
    BY LostNext
  <1> QED BY <1>1, <1>2, <1>3, <1>4, TokenInit, TypeCorrect, PTL DEF Spec
=================================================================================
