----------------------- MODULE ConcurrentRequestsProofs -----------------------
(***************************************************************************)
(* Proofs about ConcurrentRequests, for any number of requests,            *)
(* submissions and rows and any limit of the session.                      *)
(***************************************************************************)
EXTENDS ConcurrentRequests, FiniteSetTheorems, TLAPS

\* What is left to load after one query.
LEMMA Suffixes ==
    /\ Tail(<<"rows", "status">>) = <<"status">>
    /\ Tail(<<"status", "rows">>) = <<"rows">>
    /\ Tail(<<"status">>) = <<>>
    /\ Tail(<<"rows">>) = <<>>
    /\ Head(<<"rows", "status">>) = "rows"
    /\ Head(<<"status", "rows">>) = "status"
    /\ Head(<<"status">>) = "status"
    /\ Head(<<"rows">>) = "rows"
  OBVIOUS

LEMMA InitTypeOK == Init => TypeOK
  <1> SUFFICES ASSUME Init PROVE TypeOK
    OBVIOUS
  <1>1. /\ status \in [Submission -> Status]
        /\ rows \in [Submission -> SUBSET Row]
    BY DEF Init, NoRows, Status
  <1>2. open \in BOOLEAN /\ dirty \in BOOLEAN
    BY DEF Init
  <1>3. /\ op \in [Request -> Op \cup {"idle"}]
        /\ left \in [Request -> StillQueried]
        /\ target \in [Request -> SUBSET Submission]
    BY DEF Init, StillQueried
  <1>4. seenStatus \in [Request -> [Submission -> Status \cup {None}]]
    BY DEF Init, NothingLoaded
  <1>5. seenRows \in [Request -> [Submission -> SUBSET Row]]
    BY DEF Init, NoRows
  <1>6. audit \subseteq [submission : Submission, from : Status, to : Status]
    BY DEF Init
  <1>7. QED
    BY <1>1, <1>2, <1>3, <1>4, <1>5, <1>6 DEF TypeOK

\* A request that is answered leaves well-typed values behind.
LEMMA EndTypes ==
    ASSUME TypeOK, NEW r \in Request, End(r)
    PROVE  /\ op' \in [Request -> Op \cup {"idle"}]
           /\ left' \in [Request -> StillQueried]
           /\ target' \in [Request -> SUBSET Submission]
           /\ seenStatus' \in [Request -> [Submission -> Status \cup {None}]]
           /\ seenRows' \in [Request -> [Submission -> SUBSET Row]]
  BY DEF TypeOK, End, NothingLoaded, NoRows, StillQueried

\* Reverting a submission writes one of the statuses.
LEMMA WrittenType ==
    ASSUME TypeOK, NEW r \in Request, NEW S, NEW to \in {"decided", "withdrawn"}
    PROVE  /\ Written(r, S, to) \in [Submission -> Status]
           /\ S \subseteq Submission =>
                  RevertEntries(r, S, to)
                      \subseteq [submission : Submission, from : Status, to : Status]
  BY DEF TypeOK, Written, Reverted, RevertEntries, Entry, Status, Scheduled,
         AdvancedStatuses

LEMMA NextTypeOK == TypeOK /\ [Next]_vars => TypeOK'
  <1> SUFFICES ASSUME TypeOK, [Next]_vars PROVE TypeOK'
    OBVIOUS
  <1> USE DEF tables
  <1>1. ASSUME NEW r \in Request, NEW o \in Op, NEW S \in SUBSET Submission,
               Arrive(r, o, S)
        PROVE  TypeOK'
    BY <1>1 DEF Arrive, TypeOK, Queries, StillQueried
  <1>2. ASSUME NEW r \in Request, LoadRows(r) PROVE TypeOK'
    <2>1. left' \in [Request -> StillQueried]
      BY <1>2, Suffixes DEF LoadRows, TypeOK, StillQueried
    <2>2. target' \in [Request -> SUBSET Submission]
      BY <1>2 DEF LoadRows, TypeOK
    <2>3. seenRows' \in [Request -> [Submission -> SUBSET Row]]
      BY <1>2 DEF LoadRows, TypeOK
    <2>4. UNCHANGED <<status, rows, open, op, seenStatus, audit, dirty>>
      BY <1>2 DEF LoadRows
    <2>5. QED
      BY <2>1, <2>2, <2>3, <2>4 DEF TypeOK
  <1>3. ASSUME NEW r \in Request, LoadStatus(r) PROVE TypeOK'
    <2>1. left' \in [Request -> StillQueried]
      BY <1>3, Suffixes DEF LoadStatus, TypeOK, StillQueried
    <2>2. target' \in [Request -> SUBSET Submission]
      BY <1>3 DEF LoadStatus, TypeOK
    <2>3. seenStatus' \in [Request -> [Submission -> Status \cup {None}]]
      BY <1>3 DEF LoadStatus, TypeOK
    <2>4. UNCHANGED <<status, rows, open, op, seenRows, audit, dirty>>
      BY <1>3 DEF LoadStatus
    <2>5. QED
      BY <2>1, <2>2, <2>3, <2>4 DEF TypeOK
  <1>4. ASSUME NEW r \in Request, Refuse(r) PROVE TypeOK'
    <2>1. End(r)
      BY <1>4 DEF Refuse
    <2>2. QED
      BY <1>4, <2>1, EndTypes DEF Refuse, TypeOK
  <1>5. ASSUME NEW r \in Request, NEW n \in Row, CommitAssign(r, n) PROVE TypeOK'
    <2>1. End(r) /\ audit' = {} /\ dirty' \in BOOLEAN
      BY <1>5 DEF CommitAssign, Commit, TypeOK
    <2>2. status' \in [Submission -> Status] /\ rows' \in [Submission -> SUBSET Row]
      BY <1>5 DEF CommitAssign, TypeOK, Status, Scheduled
    <2>3. open' \in BOOLEAN
      BY <1>5 DEF CommitAssign, TypeOK
    <2>4. QED
      BY <2>1, <2>2, <2>3, EndTypes DEF TypeOK
  <1>6. ASSUME NEW r \in Request, CommitRemoveSlot(r) PROVE TypeOK'
    <2>1. End(r) /\ dirty' \in BOOLEAN /\ open' \in BOOLEAN
      BY <1>6 DEF CommitRemoveSlot, Commit, TypeOK
    <2>2. target[r] \subseteq Submission
      BY DEF TypeOK
    <2>3. audit' \subseteq [submission : Submission, from : Status, to : Status]
      BY <1>6, <2>2, WrittenType DEF CommitRemoveSlot, Commit
    <2>4. status' \in [Submission -> Status]
      BY <1>6, WrittenType DEF CommitRemoveSlot
    <2>5. rows' \in [Submission -> SUBSET Row]
      BY <1>6 DEF CommitRemoveSlot, TypeOK
    <2>6. QED
      BY <2>1, <2>3, <2>4, <2>5, EndTypes DEF TypeOK
  <1>7. ASSUME NEW r \in Request, NEW advanced, CommitDeleteSession(r, advanced)
        PROVE  TypeOK'
    <2>1. End(r) /\ dirty' \in BOOLEAN /\ open' \in BOOLEAN
      BY <1>7 DEF CommitDeleteSession, Commit, TypeOK
    <2>2. target[r] \subseteq Submission /\ advanced \in {"decided", "withdrawn"}
      BY <1>7 DEF TypeOK, CommitDeleteSession, AdvancedDeleteTargets
    <2>3. audit' \subseteq [submission : Submission, from : Status, to : Status]
      BY <1>7, <2>2, WrittenType DEF CommitDeleteSession, Commit
    <2>4. status' \in [Submission -> Status]
      BY <1>7, <2>2, WrittenType DEF CommitDeleteSession
    <2>5. rows' \in [Submission -> SUBSET Row]
      BY <1>7 DEF CommitDeleteSession, NoRows
    <2>6. QED
      BY <2>1, <2>3, <2>4, <2>5, EndTypes DEF TypeOK
  <1>8. ASSUME NEW r \in Request,
               CommitConfirm(r) \/ CommitSubmitFiles(r) \/ CommitRequestReplacement(r)
        PROVE  TypeOK'
    <2>1. End(r) /\ dirty' \in BOOLEAN /\ open' \in BOOLEAN /\ rows' = rows
      BY <1>8 DEF CommitConfirm, CommitSubmitFiles, CommitRequestReplacement,
                  CommitTransition, Commit, TypeOK
    <2>2. status' \in [Submission -> Status]
      BY <1>8 DEF CommitConfirm, CommitSubmitFiles, CommitRequestReplacement,
                  CommitTransition, TypeOK, Status, Scheduled, AdvancedStatuses
    <2>3. audit' \subseteq [submission : Submission, from : Status, to : Status]
      BY <1>8 DEF CommitConfirm, CommitSubmitFiles, CommitRequestReplacement,
                  CommitTransition, Commit, Entry, TypeOK, Status, Scheduled,
                  AdvancedStatuses
    <2>4. QED
      BY <2>1, <2>2, <2>3, EndTypes DEF TypeOK
  <1>9. ASSUME NEW r \in Request, CommitWithdraw(r) PROVE TypeOK'
    <2>1. End(r) /\ dirty' \in BOOLEAN /\ open' \in BOOLEAN /\ audit' = {}
      BY <1>9 DEF CommitWithdraw, Commit, TypeOK
    <2>2. status' \in [Submission -> Status] /\ rows' \in [Submission -> SUBSET Row]
      BY <1>9 DEF CommitWithdraw, TypeOK, Status
    <2>3. QED
      BY <2>1, <2>2, EndTypes DEF TypeOK
  <1>10. ASSUME NEW r \in Request, NEW s \in Submission, CommitNotify(r, s)
         PROVE  TypeOK'
    BY <1>10 DEF CommitNotify, TypeOK, Status, Scheduled, AdvancedStatuses
  <1>11. CASE UNCHANGED vars
    BY <1>11 DEF vars, requests, TypeOK
  <1>12. QED
    BY <1>1, <1>2, <1>3, <1>4, <1>5, <1>6, <1>7, <1>8, <1>9, <1>10, <1>11
    DEF Next, Serve

\* Tables, loaded values and pending loads have their types.
THEOREM TypeCorrect == Spec => []TypeOK
  BY InitTypeOK, NextTypeOK, PTL DEF Spec

-----------------------------------------------------------------------------
(* What a request has loaded. *)

LEMMA InitLoading == Init => LoadingInv
  BY DEF Init, LoadingInv, StillToLoad, LoadedForTargets, LoadedFor, NotifiesAssigned, SingleOp

\* A step of one request leaves what the others loaded.
LEMMA OthersLoaded ==
    ASSUME LoadingInv, NEW r \in Request, LoadedFor(r)',
           \A q \in Request \ {r} : /\ op'[q] = op[q]
                                    /\ target'[q] = target[q]
                                    /\ seenRows'[q] = seenRows[q]
    PROVE  LoadedForTargets'
  BY DEF LoadingInv, LoadedForTargets, LoadedFor

\* Answering one request changes nothing another has loaded.
LEMMA EndLoading ==
    ASSUME TypeOK, LoadingInv, NEW r \in Request, End(r)
    PROVE  LoadingInv'
  <1>1. StillToLoad'
    BY DEF LoadingInv, StillToLoad, End, TypeOK
  <1>2. LoadedForTargets'
    <2>1. SUFFICES ASSUME NEW q \in Request
                   PROVE  LoadedFor(q)'
      BY DEF LoadedForTargets
    <2>2. CASE q = r
      BY <2>2 DEF LoadedFor, End, TypeOK, SingleOp
    <2>3. CASE q # r
      <3>1. /\ op'[q] = op[q]
            /\ target'[q] = target[q]
            /\ seenRows'[q] = seenRows[q]
        BY <2>3 DEF End, TypeOK
      <3>2. QED
        BY <3>1 DEF LoadingInv, LoadedForTargets, LoadedFor
    <2>4. QED
      BY <2>2, <2>3
  <1>3. NotifiesAssigned'
    BY DEF LoadingInv, NotifiesAssigned, End, TypeOK
  <1>4. QED
    BY <1>1, <1>2, <1>3 DEF LoadingInv

LEMMA NextLoading == TypeOK /\ LoadingInv /\ [Next]_vars => LoadingInv'
  <1> SUFFICES ASSUME TypeOK, LoadingInv, [Next]_vars PROVE LoadingInv'
    OBVIOUS
  <1>1. ASSUME NEW r \in Request, NEW o \in Op, NEW S \in SUBSET Submission,
               Arrive(r, o, S)
        PROVE  LoadingInv'
    <2>1. StillToLoad'
      BY <1>1 DEF Arrive, Queries, LoadingInv, StillToLoad, TypeOK, Op, SingleOp
    <2>2. seenRows'[r] = NoRows
      BY <1>1 DEF Arrive, LoadingInv, LoadedForTargets, LoadedFor
    <2>3. op'[r] = o /\ target'[r] = S
      BY <1>1 DEF Arrive, TypeOK
    <2>4. \A s \in Submission : seenRows'[r][s] = {}
      BY <2>2 DEF NoRows
    <2>5. LoadedFor(r)'
      BY <1>1, <2>2, <2>3, <2>4 DEF Arrive, LoadedFor, SingleOp
    <2>6. LoadedForTargets'
      BY <1>1, <2>5, OthersLoaded DEF Arrive, TypeOK
    <2>7. NotifiesAssigned'
      BY <1>1 DEF Arrive, LoadingInv, NotifiesAssigned, TypeOK, SingleOp
    <2>8. QED
      BY <2>1, <2>6, <2>7 DEF LoadingInv
  <1>2. ASSUME NEW r \in Request, LoadRows(r) PROVE LoadingInv'
    <2>1. StillToLoad'
      BY <1>2, Suffixes DEF LoadRows, LoadingInv, StillToLoad, TypeOK, StillQueried
    <2>2. op[r] \in {"assign", "remove_slot", "delete_session", "withdraw"}
      BY <1>2, Suffixes DEF LoadRows, LoadingInv, StillToLoad
    <2>3. LoadedFor(r)
      BY DEF LoadingInv, LoadedForTargets
    <2>4. /\ op' = op
          /\ seenRows'[r] = [s \in Submission |->
                 IF ReadsSession(r) \/ s \in target[r] THEN rows[s] ELSE {}]
          /\ target'[r] = IF op[r] = "delete_session"
                          THEN {s \in Submission : rows[s] # {}} ELSE target[r]
      BY <1>2 DEF LoadRows, TypeOK
    <2>5. LoadedFor(r)'
      BY <2>2, <2>3, <2>4 DEF LoadedFor, ReadsSession, SingleOp
    <2>6. LoadedForTargets'
      BY <1>2, <2>5, OthersLoaded DEF LoadRows, TypeOK
    <2>7. NotifiesAssigned'
      BY <1>2, <2>2 DEF LoadRows, LoadingInv, NotifiesAssigned, TypeOK
    <2>8. QED
      BY <2>1, <2>6, <2>7 DEF LoadingInv
  <1>3. ASSUME NEW r \in Request, LoadStatus(r) PROVE LoadingInv'
    <2>1. StillToLoad'
      BY <1>3, Suffixes DEF LoadStatus, LoadingInv, StillToLoad, TypeOK, StillQueried
    <2>2. LoadedFor(r)
      BY DEF LoadingInv, LoadedForTargets
    <2>3. /\ op' = op /\ seenRows' = seenRows
          /\ op[r] # "bulk_notify" => target'[r] = target[r]
      BY <1>3 DEF LoadStatus, TypeOK
    <2>4. LoadedFor(r)'
      BY <2>2, <2>3 DEF LoadedFor, SingleOp
    <2>5. LoadedForTargets'
      BY <1>3, <2>4, OthersLoaded DEF LoadStatus, TypeOK
    <2>6. NotifiesAssigned'
      BY <1>3 DEF LoadStatus, LoadingInv, NotifiesAssigned, TypeOK
    <2>7. QED
      BY <2>1, <2>5, <2>6 DEF LoadingInv
  <1>4. ASSUME NEW r \in Request, End(r) PROVE LoadingInv'
    BY <1>4, EndLoading
  <1>5. ASSUME NEW r \in Request, NEW s \in Submission, CommitNotify(r, s)
        PROVE  LoadingInv'
    <2>1. op[r] = "bulk_notify" /\ left[r] = <<>>
      BY <1>5 DEF CommitNotify, Ready
    <2>2. StillToLoad'
      BY <1>5 DEF CommitNotify, LoadingInv, StillToLoad
    <2>3. LoadedForTargets'
      BY <1>5, <2>1
      DEF CommitNotify, LoadingInv, LoadedForTargets, LoadedFor, TypeOK, SingleOp
    <2>4. NotifiesAssigned'
      BY <1>5 DEF CommitNotify, LoadingInv, NotifiesAssigned, TypeOK
    <2>5. QED
      BY <2>2, <2>3, <2>4 DEF LoadingInv
  <1>6. CASE UNCHANGED vars
    BY <1>6 DEF vars, requests, LoadingInv, StillToLoad, LoadedForTargets, LoadedFor,
                NotifiesAssigned
  <1>7. QED
    BY <1>1, <1>2, <1>3, <1>4, <1>5, <1>6
    DEF Next, Serve, Refuse, Commit, CommitAssign, CommitRemoveSlot, CommitDeleteSession,
        CommitConfirm, CommitSubmitFiles, CommitRequestReplacement, CommitTransition,
        CommitWithdraw

-----------------------------------------------------------------------------
(* One slot per submission. *)

\* A request that does not insert only deletes rows.
LEMMA RowsOnlyGo ==
    ASSUME TypeOK, NEW r \in Request, Serve(r),
           ~ \E n \in Row : CommitAssign(r, n)
    PROVE  \A s \in Submission : rows'[s] \subseteq rows[s]
  BY DEF Serve, TypeOK, tables, Arrive, LoadRows, LoadStatus, Refuse, CommitRemoveSlot,
         CommitDeleteSession, NoRows, CommitConfirm, CommitSubmitFiles,
         CommitRequestReplacement, CommitTransition, CommitWithdraw, CommitNotify

\* Rows stay few when each submission keeps a part of its own.
LEMMA PartsStaySmall ==
    ASSUME AtMostOneRow, TypeOK, TypeOK',
           \A s \in Submission : rows'[s] \subseteq rows[s]
    PROVE  /\ AtMostOneRow'
           /\ Count(rows') \in Nat /\ Count(rows) \in Nat
           /\ Count(rows') <= Count(rows)
  <1>1. RowsOf(rows') \subseteq RowsOf(rows)
    BY DEF RowsOf
  <1>2. IsFiniteSet(RowsOf(rows)) /\ IsFiniteSet(RowsOf(rows'))
    BY <1>1, FS_Subset DEF AtMostOneRow
  <1>3. \A s \in Submission : rows'[s] = {} \/ \E n \in Row : rows'[s] = {n}
    BY DEF AtMostOneRow
  <1>4. QED
    BY <1>1, <1>2, <1>3, FS_Subset, FS_CardinalityType DEF AtMostOneRow, Count

\* A row that is inserted is the only one of its submission.
LEMMA AssignAddsOne ==
    ASSUME AtMostOneRow, TypeOK, NEW r \in Request, NEW n \in Row, CommitAssign(r, n)
    PROVE  /\ AtMostOneRow'
           /\ Count(rows') \in Nat /\ Count(rows) \in Nat
           /\ Count(rows') <= Count(rows) + 1
  <1>1. PICK s \in target[r] : /\ UniqueIndex(s)
                               /\ rows' = [rows EXCEPT ![s] = @ \cup {n}]
    BY DEF CommitAssign
  <1>2. s \in Submission
    BY <1>1 DEF TypeOK
  <1>3. rows'[s] = {n} /\ \A x \in Submission \ {s} : rows'[x] = rows[x]
    BY <1>1, <1>2 DEF UniqueIndex, TypeOK
  <1>4. \A x \in Submission : rows'[x] = {} \/ \E m \in Row : rows'[x] = {m}
    BY <1>3 DEF AtMostOneRow
  <1>5. RowsOf(rows') \subseteq RowsOf(rows) \cup {n}
    BY <1>3 DEF RowsOf
  <1>6. IsFiniteSet(RowsOf(rows))
    BY DEF AtMostOneRow
  <1>7. /\ IsFiniteSet(RowsOf(rows) \cup {n})
        /\ Cardinality(RowsOf(rows) \cup {n}) <= Cardinality(RowsOf(rows)) + 1
    <2>1. Cardinality(RowsOf(rows)) \in Nat
      BY <1>6, FS_CardinalityType
    <2>2. /\ IsFiniteSet(RowsOf(rows) \cup {n})
          /\ Cardinality(RowsOf(rows) \cup {n}) =
                 IF n \in RowsOf(rows) THEN Cardinality(RowsOf(rows))
                 ELSE Cardinality(RowsOf(rows)) + 1
      BY <1>6, FS_AddElement, Zenon
    <2>3. QED
      BY <2>1, <2>2
  <1>8. /\ IsFiniteSet(RowsOf(rows'))
        /\ Cardinality(RowsOf(rows')) <= Cardinality(RowsOf(rows) \cup {n})
    BY <1>5, <1>7, FS_Subset
  <1>9. QED
    BY <1>4, <1>6, <1>7, <1>8, FS_CardinalityType DEF AtMostOneRow, Count

LEMMA InitAtMostOneRow == Init => AtMostOneRow
  <1> SUFFICES ASSUME Init PROVE AtMostOneRow
    OBVIOUS
  <1>1. \A s \in Submission : rows[s] = {}
    BY DEF Init, NoRows
  <1>2. RowsOf(rows) = {}
    BY <1>1 DEF RowsOf
  <1>3. QED
    BY <1>1, <1>2, FS_EmptySet DEF AtMostOneRow

LEMMA NextAtMostOneRow ==
    TypeOK /\ TypeOK' /\ AtMostOneRow /\ [Next]_vars => AtMostOneRow'
  <1> SUFFICES ASSUME TypeOK, TypeOK', AtMostOneRow, [Next]_vars PROVE AtMostOneRow'
    OBVIOUS
  <1>1. CASE UNCHANGED vars
    BY <1>1 DEF vars, tables, AtMostOneRow
  <1>2. ASSUME NEW r \in Request, NEW n \in Row, CommitAssign(r, n) PROVE AtMostOneRow'
    BY <1>2, AssignAddsOne
  <1>3. ASSUME NEW r \in Request, Serve(r), ~ \E n \in Row : CommitAssign(r, n)
        PROVE  AtMostOneRow'
    BY <1>3, RowsOnlyGo, PartsStaySmall
  <1>4. QED
    BY <1>1, <1>2, <1>3 DEF Next

\* However requests overlap, a submission is never in two slots.
THEOREM PlacementIsUnique == Spec => []UniquePlacement
  <1>1. AtMostOneRow => UniquePlacement
    <2>1. SUFFICES ASSUME AtMostOneRow, NEW s \in Submission
                   PROVE  Cardinality(rows[s]) <= 1
      BY DEF UniquePlacement
    <2>2. CASE rows[s] = {}
      <3>1. Cardinality(rows[s]) = 0
        BY <2>2, FS_EmptySet
      <3>2. QED
        BY <3>1
    <2>3. CASE \E n \in Row : rows[s] = {n}
      <3>1. Cardinality(rows[s]) = 1
        BY <2>3, FS_Singleton
      <3>2. QED
        BY <3>1
    <2>4. QED
      BY <2>1, <2>2, <2>3 DEF AtMostOneRow
  <1>2. Init => TypeOK /\ AtMostOneRow
    BY InitTypeOK, InitAtMostOneRow
  <1>3. TypeOK /\ AtMostOneRow /\ [Next]_vars => (TypeOK /\ AtMostOneRow)'
    BY NextTypeOK, NextAtMostOneRow
  <1>4. QED
    BY <1>1, <1>2, <1>3, PTL DEF Spec

-----------------------------------------------------------------------------
(* Status and slots. *)

Agreement == \A s \in Submission : rows[s] # {} <=> status[s] \in Scheduled

\* A commit that was computed from outdated values is never forgotten.
LEMMA DirtyStays ==
    ASSUME TypeOK, NEW r \in Request, Serve(r), ~dirty'
    PROVE  ~dirty
  BY DEF TypeOK, Serve, Arrive, LoadRows, LoadStatus, Refuse, Commit, CommitAssign,
         CommitRemoveSlot, CommitDeleteSession, CommitConfirm, CommitSubmitFiles,
         CommitRequestReplacement, CommitTransition, CommitWithdraw, CommitNotify

\* What removing a slot does when nothing it loaded is outdated.
LEMMA RemovalIsExact ==
    ASSUME TypeOK, LoadingInv, Agreement, NEW r \in Request, CommitRemoveSlot(r), ~dirty'
    PROVE  \E s \in Submission :
              /\ status[s] \in Scheduled
              /\ status' = [status EXCEPT ![s] = "decided"]
              /\ rows' = [rows EXCEPT ![s] = {}]
              /\ status[s] # "assigned_to_session" =>
                     Entry(s, status[s], "decided") \in audit'
  <1>1. op[r] = "remove_slot" /\ ~OldStatus(r) /\ ~OldRows(r)
    BY DEF CommitRemoveSlot, Ready, Commit
  <1>2. PICK s \in Submission : target[r] = {s}
    BY <1>1 DEF LoadingInv, LoadedForTargets, LoadedFor, SingleOp
  <1>3. seenStatus[r][s] = status[s] /\ seenRows[r][s] = rows[s]
    BY <1>1, <1>2 DEF OldStatus, OldRows
  <1>4. \A x \in Submission \ {s} : seenRows[r][x] = {}
    BY <1>1, <1>2 DEF LoadingInv, LoadedForTargets, LoadedFor
  <1>5. rows[s] # {}
    BY <1>2, <1>3 DEF CommitRemoveSlot
  <1>6. status[s] \in Scheduled
    BY <1>5 DEF Agreement
  <1>7. rows' = [rows EXCEPT ![s] = {}]
    BY <1>3, <1>4 DEF CommitRemoveSlot, TypeOK
  <1>8. status' = [status EXCEPT ![s] = "decided"]
    BY <1>2, <1>3, <1>6
    DEF CommitRemoveSlot, Written, Reverted, Scheduled, TypeOK
  <1>9. status[s] # "assigned_to_session" => Entry(s, status[s], "decided") \in audit'
    BY <1>2, <1>3, <1>6 DEF CommitRemoveSlot, Commit, RevertEntries, Scheduled
  <1>10. QED
    BY <1>6, <1>7, <1>8, <1>9

\* What deleting the session does when nothing it loaded is outdated.
LEMMA DeletionIsExact ==
    ASSUME TypeOK, LoadingInv, Agreement, NEW r \in Request, NEW advanced,
           CommitDeleteSession(r, advanced), ~dirty'
    PROVE  /\ rows' = NoRows
           /\ \A s \in Submission :
                 IF status[s] \in Scheduled
                 THEN /\ status'[s] \in {"decided", "withdrawn"}
                      /\ IF status[s] = "assigned_to_session"
                         THEN status'[s] = "decided"
                         ELSE Entry(s, status[s], status'[s]) \in audit'
                 ELSE status'[s] = status[s]
  <1>1. /\ op[r] = "delete_session" /\ ~OldStatus(r) /\ ~OldRows(r)
        /\ advanced \in {"decided", "withdrawn"}
        /\ status' = Written(r, target[r], advanced)
        /\ audit' = RevertEntries(r, target[r], advanced)
    BY DEF CommitDeleteSession, Ready, Commit, AdvancedDeleteTargets
  <1>2. target[r] = {s \in Submission : rows[s] # {}}
    BY <1>1 DEF LoadingInv, LoadedForTargets, LoadedFor, OldRows, ReadsSession
  <1>3. \A s \in Submission : s \in target[r] <=> status[s] \in Scheduled
    BY <1>2 DEF Agreement
  <1>4. \A s \in target[r] : seenStatus[r][s] = status[s]
    BY <1>1 DEF OldStatus
  <1>5. SUFFICES ASSUME NEW s \in Submission
                 PROVE  IF status[s] \in Scheduled
                        THEN /\ status'[s] \in {"decided", "withdrawn"}
                             /\ IF status[s] = "assigned_to_session"
                                THEN status'[s] = "decided"
                                ELSE Entry(s, status[s], status'[s]) \in audit'
                        ELSE status'[s] = status[s]
    BY DEF CommitDeleteSession
  <1>6. CASE status[s] \notin Scheduled
    BY <1>1, <1>3, <1>6 DEF Written
  <1>7. CASE status[s] = "assigned_to_session"
    <2>1. s \in target[r] /\ seenStatus[r][s] = "assigned_to_session"
      BY <1>3, <1>4, <1>7 DEF Scheduled
    <2>2. status'[s] = "decided"
      BY <1>1, <2>1 DEF Written, Reverted, Scheduled
    <2>3. QED
      BY <1>7, <2>2 DEF Scheduled
  <1>8. CASE status[s] \in AdvancedStatuses
    <2>1. /\ s \in target[r] /\ seenStatus[r][s] = status[s]
          /\ seenStatus[r][s] # "assigned_to_session"
      BY <1>3, <1>4, <1>8 DEF Scheduled, AdvancedStatuses
    <2>2. status'[s] = advanced
      BY <1>1, <1>8, <2>1 DEF Written, Reverted, Scheduled
    <2>3. Entry(s, status[s], advanced) \in audit'
      BY <1>1, <1>8, <2>1 DEF RevertEntries
    <2>4. status[s] # "assigned_to_session" /\ status[s] \in Scheduled
      BY <1>8, <2>1 DEF Scheduled
    <2>5. QED
      BY <1>1, <2>2, <2>3, <2>4
  <1>9. QED
    BY <1>6, <1>7, <1>8 DEF Scheduled

\* A transition starts from the status that was loaded, so from the current one.
LEMMA TransitionIsExact ==
    ASSUME TypeOK, NEW r \in Request, NEW o, NEW from, NEW to, NEW entries,
           Loaded(r, from), CommitTransition(r, o, to, entries), ~dirty',
           LoadingInv, o \in SingleOp
    PROVE  \E s \in Submission : /\ target[r] = {s}
                                 /\ status[s] = from
                                 /\ status' = [status EXCEPT ![s] = to]
                                 /\ rows' = rows
                                 /\ audit' = entries
  <1>1. op[r] = o /\ ~OldStatus(r) /\ audit' = entries /\ rows' = rows
    BY DEF CommitTransition, Ready, Commit
  <1>2. PICK s \in Submission : target[r] = {s}
    BY <1>1 DEF LoadingInv, LoadedForTargets, LoadedFor
  <1>3. status[s] = from
    BY <1>1, <1>2 DEF Loaded, OldStatus
  <1>4. status' = [status EXCEPT ![s] = to]
    BY <1>2 DEF CommitTransition
  <1>5. QED
    BY <1>1, <1>2, <1>3, <1>4

\* Withdrawing deletes the slot the submission has.
LEMMA WithdrawalIsExact ==
    ASSUME TypeOK, LoadingInv, NEW r \in Request, CommitWithdraw(r), ~dirty'
    PROVE  \E s \in Submission : /\ status[s] = "notified"
                                 /\ status' = [status EXCEPT ![s] = "withdrawn"]
                                 /\ rows' = [rows EXCEPT ![s] = {}]
  <1>1. op[r] = "withdraw" /\ ~OldStatus(r) /\ ~OldRows(r)
    BY DEF CommitWithdraw, Ready, Commit
  <1>2. PICK s \in Submission : target[r] = {s}
    BY <1>1 DEF LoadingInv, LoadedForTargets, LoadedFor, SingleOp
  <1>3. /\ seenStatus[r][s] = status[s] /\ seenRows[r][s] = rows[s]
        /\ \A x \in Submission \ {s} : seenRows[r][x] = {}
    BY <1>1, <1>2 DEF OldStatus, OldRows, LoadingInv, LoadedForTargets, LoadedFor
  <1>4. status[s] = "notified"
    BY <1>2, <1>3 DEF CommitWithdraw, Loaded
  <1>5. status' = [status EXCEPT ![s] = "withdrawn"]
    BY <1>2 DEF CommitWithdraw, TypeOK
  <1>6. rows' = [rows EXCEPT ![s] = {}]
    BY <1>3 DEF CommitWithdraw, TypeOK
  <1>7. QED
    BY <1>4, <1>5, <1>6

\* Assigning fills a slot there is room for.
LEMMA AssignmentIsExact ==
    ASSUME TypeOK, NEW r \in Request, NEW n \in Row, CommitAssign(r, n), ~dirty'
    PROVE  /\ Count(rows) < MaxSlots
           /\ \E s \in Submission :
                 /\ status[s] = "decided"
                 /\ status' = [status EXCEPT ![s] = "assigned_to_session"]
                 /\ rows' = [rows EXCEPT ![s] = rows[s] \cup {n}]
  <1>1. ~OldStatus(r) /\ Count(seenRows[r]) = Count(rows)
    BY DEF CommitAssign, Commit
  <1>2. PICK s \in target[r] :
           /\ Count(seenRows[r]) < MaxSlots
           /\ seenStatus[r][s] = "decided"
           /\ rows' = [rows EXCEPT ![s] = @ \cup {n}]
           /\ status' = [status EXCEPT ![s] = "assigned_to_session"]
    BY DEF CommitAssign
  <1>3. s \in Submission /\ status[s] = "decided"
    BY <1>1, <1>2 DEF OldStatus, TypeOK
  <1>4. QED
    BY <1>1, <1>2, <1>3

\* A bulk notification writes over the status it found.
LEMMA NotificationIsExact ==
    ASSUME TypeOK, LoadingInv, NEW r \in Request, NEW s \in Submission,
           CommitNotify(r, s), ~dirty'
    PROVE  /\ status[s] = "assigned_to_session"
           /\ status' = [status EXCEPT ![s] = "notified"]
           /\ rows' = rows
  BY DEF CommitNotify, Ready, LoadingInv, NotifiesAssigned

LEMMA AgreementKept ==
    ASSUME TypeOK, LoadingInv, Agreement, NEW r \in Request, Serve(r), ~dirty'
    PROVE  Agreement'
  <1> USE DEF Agreement
  <1>1. CASE UNCHANGED <<status, rows>>
    BY <1>1
  <1>2. ASSUME NEW n \in Row, CommitAssign(r, n) PROVE Agreement'
    <2>1. PICK s \in Submission :
             /\ status' = [status EXCEPT ![s] = "assigned_to_session"]
             /\ rows' = [rows EXCEPT ![s] = rows[s] \cup {n}]
      BY <1>2, AssignmentIsExact
    <2>2. rows'[s] # {} /\ status'[s] \in Scheduled
      BY <2>1 DEF TypeOK, Scheduled
    <2>3. \A x \in Submission \ {s} : rows'[x] = rows[x] /\ status'[x] = status[x]
      BY <2>1 DEF TypeOK
    <2>4. QED
      BY <2>2, <2>3
  <1>3. CASE CommitRemoveSlot(r)
    BY <1>3, RemovalIsExact DEF TypeOK, Scheduled, AdvancedStatuses
  <1>4. ASSUME NEW advanced, CommitDeleteSession(r, advanced) PROVE Agreement'
    BY <1>4, DeletionIsExact DEF NoRows, Scheduled, AdvancedStatuses
  <1>5. CASE CommitConfirm(r)
    BY <1>5, TransitionIsExact DEF CommitConfirm, SingleOp, TypeOK, Scheduled, AdvancedStatuses
  <1>6. CASE CommitSubmitFiles(r)
    BY <1>6, TransitionIsExact
    DEF CommitSubmitFiles, SingleOp, TypeOK, Scheduled, AdvancedStatuses
  <1>7. CASE CommitRequestReplacement(r)
    BY <1>7, TransitionIsExact
    DEF CommitRequestReplacement, SingleOp, TypeOK, Scheduled, AdvancedStatuses
  <1>8. CASE CommitWithdraw(r)
    BY <1>8, WithdrawalIsExact DEF TypeOK, Scheduled, AdvancedStatuses
  <1>9. ASSUME NEW s \in Submission, CommitNotify(r, s) PROVE Agreement'
    BY <1>9, NotificationIsExact DEF TypeOK, Scheduled, AdvancedStatuses
  <1>10. QED
    BY <1>1, <1>2, <1>3, <1>4, <1>5, <1>6, <1>7, <1>8, <1>9
    DEF Serve, Arrive, LoadRows, LoadStatus, Refuse, tables

LEMMA InitConsistent == Init => ConsistentUnlessStale
  <1> SUFFICES ASSUME Init PROVE ConsistentUnlessStale
    OBVIOUS
  <1>1. \A s \in Submission : rows[s] = {} /\ status[s] \notin Scheduled
    BY DEF Init, NoRows, Scheduled, AdvancedStatuses
  <1>2. RowsOf(rows) = {}
    BY <1>1 DEF RowsOf
  <1>3. Count(rows) = 0
    BY <1>2, FS_EmptySet DEF Count
  <1>4. QED
    BY <1>1, <1>3, RequestsAssumption DEF ConsistentUnlessStale, RequestsAssumption

LEMMA NextConsistent ==
    RequestsInv /\ TypeOK' /\ [Next]_vars => ConsistentUnlessStale'
  <1> SUFFICES ASSUME RequestsInv, TypeOK', [Next]_vars, ~dirty'
               PROVE  Agreement' /\ Count(rows') <= MaxSlots
    BY DEF ConsistentUnlessStale, Agreement
  <1>1. CASE UNCHANGED vars
    BY <1>1 DEF vars, tables, RequestsInv, ConsistentUnlessStale, Agreement
  <1>2. ASSUME NEW r \in Request, Serve(r)
        PROVE  Agreement' /\ Count(rows') <= MaxSlots
    <2>1. TypeOK /\ LoadingInv /\ AtMostOneRow
      BY DEF RequestsInv
    <2>2. ~dirty
      BY <1>2, <2>1, DirtyStays
    <2>3. Agreement /\ Count(rows) <= MaxSlots
      BY <2>2 DEF RequestsInv, ConsistentUnlessStale, Agreement
    <2>4. Agreement'
      BY <1>2, <2>1, <2>3, AgreementKept
    <2>5. ASSUME NEW n \in Row, CommitAssign(r, n) PROVE Count(rows') <= MaxSlots
      <3>1. Count(rows) < MaxSlots
        BY <2>1, <2>5, AssignmentIsExact
      <3>2. /\ Count(rows') \in Nat /\ Count(rows) \in Nat
            /\ Count(rows') <= Count(rows) + 1
        BY <2>1, <2>5, AssignAddsOne
      <3>3. MaxSlots \in Nat
        BY RequestsAssumption DEF RequestsAssumption
      <3>4. QED
        BY <3>1, <3>2, <3>3
    <2>6. CASE ~ \E n \in Row : CommitAssign(r, n)
      <3>1. \A s \in Submission : rows'[s] \subseteq rows[s]
        BY <1>2, <2>1, <2>6, RowsOnlyGo
      <3>2. /\ Count(rows') \in Nat /\ Count(rows) \in Nat
            /\ Count(rows') <= Count(rows)
        BY <2>1, <3>1, PartsStaySmall
      <3>3. MaxSlots \in Nat
        BY RequestsAssumption DEF RequestsAssumption
      <3>4. QED
        BY <2>3, <2>4, <3>2, <3>3
    <2>7. QED
      BY <2>4, <2>5, <2>6
  <1>3. QED
    BY <1>1, <1>2 DEF Next

\* The inductive invariant: types, what each request has loaded, single rows,
\* and the agreement of status and slots.
THEOREM RequestsConsistent == Spec => []RequestsInv
  <1>1. Init => RequestsInv
    BY InitTypeOK, InitLoading, InitAtMostOneRow, InitConsistent DEF RequestsInv
  <1>2. RequestsInv /\ [Next]_vars => RequestsInv'
    BY NextTypeOK, NextLoading, NextAtMostOneRow, NextConsistent DEF RequestsInv
  <1>3. QED
    BY <1>1, <1>2, PTL DEF Spec

\* Status and slots disagree, or the session is over its limit, only after a
\* commit computed from values that had changed since they were loaded.
THEOREM DisagreementIsStale == Spec => []ConsistentUnlessStale
  <1>1. RequestsInv => ConsistentUnlessStale
    BY DEF RequestsInv
  <1>2. QED
    BY <1>1, RequestsConsistent, PTL

\* What LegalUnlessStale allows the status of one submission to do in a step.
LegalStep(s) ==
    \/ status'[s] = status[s]
    \/ <<status[s], status'[s]>> \in TRANSITIONS
    \/ status[s] = "assigned_to_session" /\ status'[s] = "decided"
    \/ Entry(s, status[s], status'[s]) \in audit'

LEMMA ServeIsLegal ==
    ASSUME TypeOK, LoadingInv, Agreement, NEW r \in Request, Serve(r), ~dirty',
           NEW s \in Submission
    PROVE  LegalStep(s)
  <1>1. CASE UNCHANGED status
    BY <1>1 DEF LegalStep
  <1>2. ASSUME NEW n \in Row, CommitAssign(r, n) PROVE LegalStep(s)
    BY <1>2, AssignmentIsExact DEF TypeOK, LegalStep, TRANSITIONS
  <1>3. CASE CommitRemoveSlot(r)
    BY <1>3, RemovalIsExact DEF TypeOK, LegalStep
  <1>4. ASSUME NEW advanced, CommitDeleteSession(r, advanced) PROVE LegalStep(s)
    BY <1>4, DeletionIsExact DEF LegalStep
  <1>5. CASE CommitConfirm(r)
    BY <1>5, TransitionIsExact DEF CommitConfirm, SingleOp, TypeOK, LegalStep, TRANSITIONS
  <1>6. CASE CommitSubmitFiles(r)
    BY <1>6, TransitionIsExact
    DEF CommitSubmitFiles, SingleOp, TypeOK, LegalStep, TRANSITIONS
  <1>7. CASE CommitRequestReplacement(r)
    BY <1>7, TransitionIsExact DEF CommitRequestReplacement, SingleOp, TypeOK, LegalStep
  <1>8. CASE CommitWithdraw(r)
    BY <1>8, WithdrawalIsExact DEF TypeOK, LegalStep, TRANSITIONS
  <1>9. ASSUME NEW x \in Submission, CommitNotify(r, x) PROVE LegalStep(s)
    BY <1>9, NotificationIsExact DEF TypeOK, LegalStep, TRANSITIONS
  <1>10. QED
    BY <1>1, <1>2, <1>3, <1>4, <1>5, <1>6, <1>7, <1>8, <1>9
    DEF Serve, Arrive, LoadRows, LoadStatus, Refuse, tables

\* A status that moves in any other way than TRANSITIONS, or back to "decided"
\* before anybody was told, is in the audit log with both its ends, unless some
\* commit was computed from outdated values.
THEOREM LegalOrStale == Spec => LegalUnlessStale
  <1>1. RequestsInv /\ [Next]_vars =>
            [~dirty' => \A s \in Submission : LegalStep(s)]_vars
    <2>1. SUFFICES ASSUME RequestsInv, NEW r \in Request, Serve(r), ~dirty',
                          NEW s \in Submission
                   PROVE  LegalStep(s)
      BY DEF Next
    <2>2. ~dirty
      BY <2>1, DirtyStays DEF RequestsInv
    <2>3. TypeOK /\ LoadingInv /\ Agreement
      BY <2>1, <2>2 DEF RequestsInv, ConsistentUnlessStale, Agreement
    <2>4. QED
      BY <2>1, <2>3, ServeIsLegal
  <1>2. RequestsInv /\ [Next]_vars =>
            [~dirty' => \A s \in Submission :
                \/ status'[s] = status[s]
                \/ <<status[s], status'[s]>> \in TRANSITIONS
                \/ status[s] = "assigned_to_session" /\ status'[s] = "decided"
                \/ Entry(s, status[s], status'[s]) \in audit']_vars
    BY <1>1 DEF LegalStep
  <1>3. QED
    BY <1>2, RequestsConsistent, PTL DEF Spec, LegalUnlessStale
===============================================================================
