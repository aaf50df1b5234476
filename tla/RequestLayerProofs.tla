-------------------------- MODULE RequestLayerProofs --------------------------
(***************************************************************************)
(* For any number of attempts and any set of wrappers: a write is carried  *)
(* out at most once, and once more for each replay of the Transport; a     *)
(* refusal means that nothing but a replayed request was written; success  *)
(* is real; and the requests of a call are bounded.                        *)
(***************************************************************************)
EXTENDS RequestLayer, TLAPS

Pending == IF wire = "request" THEN 1 ELSE 0
Resends == IF refreshed THEN 1 ELSE 0
Before  == IF verifying THEN 2 ELSE 0

\* The first request of a call that may write is still in question.
Writing == call # "Get" /\ ~verifying

\* Only a request under way has a wire, and a wait leaves an attempt to make.
ShapeInv ==
  /\ pc # "flight" => wire = "none"
  /\ pc # "returned" => report = "none"
  /\ pc = "sleep" => attempt < Attempts
  /\ pc = "refresh" => ~refreshed
  /\ verifying => call = "DeleteAndVerify"
  /\ call # "GetOnce" => replayed = 0

\* A request is carried out, on its way, or given up on: one of them at most,
\* and one for each replay.  After an answer that has Taiga refuse it, and
\* before it is sent, only what was replayed.
OnceInv ==
  /\ call = "Get" => executed = 0
  /\ verifying => executed = 1
  /\ Writing => executed + late + Pending <= 1 + replayed
  /\ Writing /\ pc \in {"top", "refresh", "sleep"} => executed + late + Pending <= replayed
  /\ Writing /\ wire \in {"401", "404", "400", "429", "500"} => executed + late <= replayed
  /\ Writing /\ wire \in {"200", "garbled"} => executed > 0

\* What a DELETE is judged by.
GoneInv == verifying /\ wire = "404" => ~record

\* What has been sent, when a request is about to be and when it is on its way.
CountInv ==
  IF pc = "top" THEN sent <= Before + attempt - 1 + Resends
                ELSE sent <= Before + attempt + Resends

RequestInv ==
  /\ TypeOK /\ ShapeInv /\ OnceInv /\ GoneInv /\ CountInv
  /\ RefusedMeansUntouched /\ SuccessIsReal

LEMMA AttemptsPositive == Attempts \in Nat \ {0}
  BY RequestAssumption DEF Attempts

LEMMA RequestInvInit == Init => RequestInv
<1> SUFFICES ASSUME Init PROVE RequestInv
  OBVIOUS
<1>1. TypeOK
  <2>1. call \in Calls /\ canRefresh \in BOOLEAN /\ token \in {"good", "expired"}
    BY DEF Init
  <2>2. verifying \in BOOLEAN
    BY DEF Init
  <2>3. refreshed \in BOOLEAN /\ record \in BOOLEAN /\ reused \in BOOLEAN
    BY DEF Init
  <2>4. attempt \in 1 .. Attempts
    BY AttemptsPositive DEF Init
  <2> QED
    BY <2>1, <2>2, <2>3, <2>4 DEF Init, TypeOK, Reports
<1>2. ShapeInv /\ OnceInv /\ GoneInv
  BY DEF Init, ShapeInv, OnceInv, GoneInv, Writing, Pending
<1>3. CountInv
  BY DEF Init, CountInv, Before, Resends
<1>4. RefusedMeansUntouched /\ SuccessIsReal
  BY DEF Init, RefusedMeansUntouched, SuccessIsReal
<1> QED
  BY <1>1, <1>2, <1>3, <1>4 DEF RequestInv

\* doJSON returns: what its callers are told, or the read that judges a DELETE.
LEMMA ReturnKeeps ==
  ASSUME RequestInv, pc # "returned", NEW r \in Reports \ {"none"}, Return(r),
         UNCHANGED <<call, canRefresh, executed, record>>,
         ctx' \in {"live", "done"}, token' \in {"good", "expired"},
         wire' = "none", late' \in Nat, sent' \in Nat, reused' \in BOOLEAN, replayed' = replayed,
         sent' <= Before + attempt + Resends,
         Writing => executed + late' <= 1 + replayed,
         Writing /\ IsWrite /\ r \notin {"ok", "ambiguous", "transport"} => executed + late' <= replayed,
         Writing /\ r = "ok" => executed > 0,
         verifying /\ r = "not_found" => ~record
  PROVE  RequestInv'
<1> USE DEF RequestInv
<1>0. /\ TypeOK /\ executed \in Nat /\ replayed \in Nat /\ record \in BOOLEAN
      /\ canRefresh \in BOOLEAN /\ call \in Calls
  BY DEF TypeOK
<1> PICK l \in Nat : late' = l
  OBVIOUS
<1>1. CASE call = "DeleteAndVerify" /\ ~verifying /\ r = "ok"
  <2>1. verifying' = TRUE /\ attempt' = 1 /\ refreshed' = FALSE /\ pc' = "top" /\ report' = "none"
    BY <1>1 DEF Return, ShapeInv
  <2>2. Writing
    BY <1>1 DEF Writing
  <2>3. executed = 1 /\ replayed = 0
    BY <1>0, <1>1, <2>2 DEF ShapeInv
  <2>4. attempt' \in 1 .. Attempts'
    BY <2>1, RequestAssumption DEF Attempts
  <2>5. verifying' \in BOOLEAN /\ refreshed' \in BOOLEAN /\ record' \in BOOLEAN /\ canRefresh' \in BOOLEAN
    BY <1>0, <2>1
  <2>6. TypeOK'
    BY <1>0, <2>1, <2>4, <2>5 DEF TypeOK, Reports
  <2>7. attempt = 1
    BY <1>1 DEF TypeOK, Attempts, RetryGET
  <2>8. CountInv'
    BY <1>1, <2>1, <2>7 DEF CountInv, Before, Resends, TypeOK
  <2>9. ShapeInv' /\ OnceInv' /\ GoneInv'
    BY <1>0, <1>1, <2>1, <2>3 DEF ShapeInv, OnceInv, GoneInv, Writing
  <2>10. RefusedMeansUntouched' /\ SuccessIsReal'
    BY <2>1 DEF RefusedMeansUntouched, SuccessIsReal
  <2> QED
    BY <2>6, <2>8, <2>9, <2>10
<1>2. CASE ~(call = "DeleteAndVerify" /\ ~verifying /\ r = "ok")
  <2>1. UNCHANGED <<verifying, attempt, refreshed>> /\ pc' = "returned" /\ report' = Verdict(r)
    BY <1>2 DEF Return
  <2>2. Attempts' = Attempts
    BY <2>1 DEF Attempts, RetryGET
  <2>3. Verdict(r) \in Reports \ {"none"}
    BY DEF Verdict, Reports
  <2>4. verifying' \in BOOLEAN /\ refreshed' \in BOOLEAN /\ record' \in BOOLEAN /\ canRefresh' \in BOOLEAN
    BY <1>0, <2>1 DEF TypeOK
  <2>5. TypeOK'
    BY <1>0, <2>1, <2>2, <2>3, <2>4 DEF TypeOK
  <2>6. CountInv'
    BY <2>1 DEF CountInv, Before, Resends
  <2>7. ShapeInv' /\ GoneInv'
    BY <2>1 DEF ShapeInv, GoneInv
  <2>8. OnceInv'
    <3>1. (Writing' <=> Writing) /\ (verifying' <=> verifying) /\ Pending' = 0
      BY <2>1 DEF Writing, Pending
    <3> QED
      BY <1>0, <2>1, <3>1 DEF OnceInv
  <2>9. CASE verifying
    <3>1. call = "DeleteAndVerify" /\ executed = 1
      BY <2>9 DEF ShapeInv, OnceInv
    <3>2. report' = IF r = "not_found" THEN "ok" ELSE "ambiguous"
      BY <2>1, <2>9 DEF Verdict
    <3>3. RefusedMeansUntouched'
      BY <3>2 DEF RefusedMeansUntouched
    <3>4. SuccessIsReal'
      BY <2>9, <3>1, <3>2 DEF SuccessIsReal
    <3> QED
      BY <2>5, <2>6, <2>7, <2>8, <3>3, <3>4
  <2>10. CASE ~verifying
    <3>1. report' = r
      BY <2>1, <2>10 DEF Verdict
    <3>2. RefusedMeansUntouched'
      BY <2>10, <3>1 DEF RefusedMeansUntouched, IsWrite, Writing
    <3>3. SuccessIsReal'
      BY <1>2, <2>10, <3>1 DEF SuccessIsReal, Writing
    <3> QED
      BY <2>5, <2>6, <2>7, <2>8, <3>2, <3>3
  <2> QED
    BY <1>0, <2>9, <2>10
<1> QED
  BY <1>1, <1>2

\* doJSON goes on.
LEMMA ContinueKeeps ==
  ASSUME RequestInv, pc # "returned", NEW l \in {"flight", "refresh", "sleep"}, Continue(l),
         UNCHANGED <<call, canRefresh, executed, record, token, ctx>>,
         wire' \in {"none", "request"}, late' \in Nat, sent' \in Nat, reused' \in BOOLEAN, replayed' = replayed,
         wire' = "request" => l = "flight",
         l = "sleep" => attempt < Attempts,
         l = "refresh" => ~refreshed,
         sent' <= Before + attempt + Resends,
         Writing => executed + late' + Pending' <= 1 + replayed,
         Writing /\ l # "flight" => executed + late' <= replayed
  PROVE  RequestInv'
<1> USE DEF RequestInv
<1>0. /\ TypeOK /\ executed \in Nat /\ replayed \in Nat /\ record \in BOOLEAN
      /\ canRefresh \in BOOLEAN /\ call \in Calls
  BY DEF TypeOK
<1> PICK n \in Nat : late' = n
  OBVIOUS
<1>1. UNCHANGED <<verifying, attempt, refreshed, report>> /\ pc' = l
  BY DEF Continue
<1>2. Attempts' = Attempts
  BY <1>1 DEF Attempts, RetryGET
<1>3. verifying' \in BOOLEAN /\ refreshed' \in BOOLEAN /\ record' \in BOOLEAN /\ canRefresh' \in BOOLEAN
  BY <1>0, <1>1 DEF TypeOK
<1>4. TypeOK'
  BY <1>0, <1>1, <1>2, <1>3 DEF TypeOK
<1>5. CountInv'
  BY <1>1 DEF CountInv, Before, Resends
<1>6. ShapeInv' /\ GoneInv'
  BY <1>1, <1>2 DEF ShapeInv, GoneInv
<1>7. OnceInv'
  <2>1. (Writing' <=> Writing) /\ (verifying' <=> verifying) /\ (l # "flight" => Pending' = 0)
    BY <1>1 DEF Writing, Pending
  <2> QED
    BY <1>0, <1>1, <2>1 DEF OnceInv
<1>8. RefusedMeansUntouched' /\ SuccessIsReal'
  BY <1>1 DEF RefusedMeansUntouched, SuccessIsReal, ShapeInv
<1> QED
  BY <1>4, <1>5, <1>6, <1>7, <1>8

\* The request is sent again, after a refresh or a wait.
LEMMA AgainKeeps ==
  ASSUME RequestInv, pc \in {"refresh", "sleep"}, pc' = "top",
         UNCHANGED <<call, verifying, canRefresh, ctx, wire, late, executed, record, sent, connVars, report>>,
         token' \in {"good", "expired"}, refreshed' \in BOOLEAN, attempt' \in 1 .. Attempts,
         attempt' + Resends' = attempt + Resends + 1
  PROVE  RequestInv'
<1> USE DEF RequestInv
<1>0. /\ sent \in Nat /\ attempt \in Nat /\ Before \in Nat /\ Resends \in Nat /\ verifying \in BOOLEAN
      /\ refreshed' \in BOOLEAN /\ record \in BOOLEAN /\ canRefresh \in BOOLEAN
      /\ reused' = reused /\ replayed' = replayed /\ reused \in BOOLEAN
  BY AttemptsPositive DEF TypeOK, Before, Resends, connVars
<1> PICK a \in Nat : attempt' = a
  BY AttemptsPositive
<1> PICK b \in Nat : Resends' = b
  BY DEF Resends
<1>1. Attempts' = Attempts /\ Before' = Before
  BY DEF Attempts, RetryGET, Before
<1>2. TypeOK'
  BY <1>0, <1>1 DEF TypeOK
<1>3. CountInv'
  <2>1. sent <= Before + attempt + Resends
    BY DEF CountInv
  <2>2. sent <= Before + a - 1 + b
    BY <1>0, <2>1
  <2> QED
    BY <1>1, <2>2 DEF CountInv
<1>4. ShapeInv' /\ GoneInv'
  BY <1>0 DEF ShapeInv, GoneInv
<1>5. OnceInv'
  <2>1. (Writing' <=> Writing) /\ Pending' = Pending
    BY DEF Writing, Pending
  <2> QED
    BY <1>0, <2>1 DEF OnceInv
<1>6. RefusedMeansUntouched' /\ SuccessIsReal'
  BY DEF RefusedMeansUntouched, SuccessIsReal, ShapeInv
<1> QED
  BY <1>2, <1>3, <1>4, <1>5, <1>6

LEMMA RequestInvStep == RequestInv /\ [Next]_vars => RequestInv'
<1> SUFFICES ASSUME RequestInv, [Next]_vars PROVE RequestInv'
  OBVIOUS
<1> USE DEF RequestInv
<1>0. /\ executed \in Nat /\ late \in Nat /\ sent \in Nat /\ attempt \in Nat /\ Before \in Nat /\ Resends \in Nat
      /\ ctx \in {"live", "done"} /\ token \in {"good", "expired"}
      /\ replayed \in Nat /\ reused \in BOOLEAN
  BY AttemptsPositive DEF TypeOK, Before, Resends
<1>1. CASE Send
  <2>1. pc = "top" /\ wire = "none" /\ UNCHANGED <<call, canRefresh, executed, record, token, ctx, late, reused, replayed>>
    BY <1>1 DEF Send, serverVars, connVars, ShapeInv
  <2>2. sent <= Before + attempt - 1 + Resends
    BY <2>1 DEF CountInv
  <2>3. Writing => executed + late <= replayed
    BY <1>0, <2>1 DEF OnceInv, Pending
  <2>4. CASE ctx = "done"
    <3>1. Return("cancelled") /\ UNCHANGED <<wire, sent>>
      BY <1>1, <2>4 DEF Send
    <3>2. sent' <= Before + attempt + Resends
      BY <1>0, <2>2, <3>1
    <3> QED
      BY <1>0, <2>1, <2>3, <3>1, <3>2, ReturnKeeps DEF Reports
  <2>5. CASE ctx # "done"
    <3>1. Continue("flight") /\ wire' = "request" /\ sent' = sent + 1
      BY <1>1, <2>5 DEF Send
    <3>2. sent' \in Nat /\ sent' <= Before + attempt + Resends /\ Pending' = 1
      BY <1>0, <2>2, <3>1 DEF Pending
    <3>3. late' \in Nat /\ (Writing => executed + late' + Pending' <= 1 + replayed)
      BY <1>0, <2>1, <2>3, <3>2
    <3> QED
      BY <1>0, <2>1, <3>1, <3>2, <3>3, ContinueKeeps
  <2> QED
    BY <2>4, <2>5
<1>2. CASE DoFails
  <2>1. pc = "flight" /\ wire' = "none" /\ late' = Dropped /\ Pending' = 0
        /\ reused' \in BOOLEAN /\ replayed' = replayed
        /\ UNCHANGED <<call, canRefresh, executed, record, token, ctx, sent>>
    BY <1>2 DEF DoFails, Pending, Close
  <2>2. late' \in Nat /\ (Writing => executed + late' <= 1 + replayed)
    BY <1>0, <2>1 DEF Dropped, OnceInv, Pending
  <2>3. sent <= Before + attempt + Resends
    BY <2>1 DEF CountInv
  <2>4. Writing /\ ~MayCommit => ~IsWrite /\ ~(attempt < Attempts)
    BY DEF Writing, MayCommit, IsWrite, Attempts, RetryGET, TypeOK, AllCalls
  <2>5. ASSUME NEW r \in {"ambiguous", "transport"}, Return(r) PROVE RequestInv'
    BY <1>0, <2>1, <2>2, <2>3, <2>5, ReturnKeeps DEF Reports
  <2>6. CASE ~MayCommit /\ Return("cancelled")
    BY <1>0, <2>1, <2>2, <2>3, <2>4, <2>6, ReturnKeeps DEF Reports
  <2>7. CASE ~MayCommit /\ attempt < Attempts /\ Continue("sleep")
    BY <1>0, <2>1, <2>2, <2>3, <2>4, <2>7, ContinueKeeps
  <2> QED
    BY <1>2, <2>5, <2>6, <2>7 DEF DoFails, Unconfirmed
<1>3. CASE BodyFails
  <2>1. pc = "flight" /\ wire \in Answers /\ wire' = "none"
        /\ reused' \in BOOLEAN /\ replayed' = replayed
        /\ UNCHANGED <<call, canRefresh, executed, record, token, ctx, late, sent>>
    BY <1>3 DEF BodyFails, serverVars, Close
  <2>2. Writing => executed + late <= 1 + replayed
    BY <1>0, <2>1 DEF OnceInv, Pending, Answers, Statuses
  <2>3. sent <= Before + attempt + Resends
    BY <2>1 DEF CountInv
  <2>4. ASSUME NEW r \in {"ambiguous", "transport"}, Return(r) PROVE RequestInv'
    BY <1>0, <2>1, <2>2, <2>3, <2>4, ReturnKeeps DEF Reports
  <2> QED
    BY <1>3, <2>4 DEF BodyFails, Unconfirmed
<1>4. CASE Accept
  <2>1. pc = "flight" /\ wire \in {"200", "garbled"} /\ wire' = "none"
        /\ reused' \in BOOLEAN /\ replayed' = replayed
        /\ UNCHANGED <<call, canRefresh, executed, record, token, ctx, late, sent>>
    BY <1>4 DEF Accept, serverVars, Keep
  <2>2. (Writing => executed + late <= 1 + replayed) /\ (Writing => executed > 0)
    BY <1>0, <2>1 DEF OnceInv, Pending
  <2>3. sent <= Before + attempt + Resends
    BY <2>1 DEF CountInv
  <2>4. ASSUME NEW r \in {"ok", "ambiguous", "transport"}, Return(r) PROVE RequestInv'
    BY <1>0, <2>1, <2>2, <2>3, <2>4, ReturnKeeps DEF Reports
  <2> QED
    BY <1>4, <2>4 DEF Accept, Unconfirmed
<1>5. CASE NeedRefresh
  <2>1. pc = "flight" /\ wire = "401" /\ ~refreshed /\ wire' = "none" /\ Pending' = 0 /\ Continue("refresh")
        /\ reused' \in BOOLEAN /\ replayed' = replayed
        /\ UNCHANGED <<call, canRefresh, executed, record, token, ctx, late, sent>>
    BY <1>5 DEF NeedRefresh, serverVars, Pending, Keep
  <2>2. Writing => executed + late <= replayed
    BY <1>0, <2>1 DEF OnceInv
  <2>3. sent <= Before + attempt + Resends
    BY <2>1 DEF CountInv
  <2>4. late' \in Nat /\ sent' \in Nat /\ (Writing => executed + late' + Pending' <= 1 + replayed)
    BY <1>0, <2>1, <2>2
  <2> QED
    BY <2>1, <2>2, <2>3, <2>4, ContinueKeeps
<1>6. CASE Refresh
  <2>1. pc = "refresh" /\ ~refreshed /\ wire = "none" /\ wire' = "none"
        /\ UNCHANGED <<call, canRefresh, ctx, wire, late, executed, record, sent, connVars, reused, replayed>>
    BY <1>6 DEF Refresh, ShapeInv, connVars
  <2>2. Writing => executed + late <= replayed
    BY <1>0, <2>1 DEF OnceInv, Pending
  <2>3. sent <= Before + attempt + Resends
    BY <2>1 DEF CountInv
  <2>4. CASE token' = "good" /\ refreshed' = TRUE /\ pc' = "top" /\ UNCHANGED <<verifying, attempt, report>>
    <3>1. attempt' \in 1 .. Attempts /\ refreshed' \in BOOLEAN /\ Resends = 0 /\ Resends' = 1
      BY <2>1, <2>4 DEF TypeOK, Resends
    <3>2. attempt' + Resends' = attempt + Resends + 1
      BY <1>0, <2>4, <3>1
    <3> QED
      BY <2>1, <2>4, <3>1, <3>2, AgainKeeps
  <2>5. ASSUME NEW r \in {"auth", "refresh_failed", "cancelled"}, Return(r), UNCHANGED token PROVE RequestInv'
    BY <1>0, <2>1, <2>2, <2>3, <2>5, ReturnKeeps DEF Reports
  <2> QED
    BY <1>6, <2>4, <2>5 DEF Refresh
<1>7. CASE Refuse
  <2>1. pc = "flight" /\ wire \in Statuses \ {"200"} /\ wire' = "none" /\ Pending' = 0
        /\ reused' \in BOOLEAN /\ replayed' = replayed
        /\ UNCHANGED <<call, canRefresh, executed, record, token, ctx, late, sent>>
    BY <1>7 DEF Refuse, serverVars, Pending, Keep
  <2>2. /\ Writing => executed + late <= 1 + replayed
        /\ Writing /\ wire # "502" => executed + late <= replayed
    BY <1>0, <2>1 DEF OnceInv, Pending, Statuses
  <2>3. sent <= Before + attempt + Resends
    BY <2>1 DEF CountInv
  <2>4. CASE IsGET /\ attempt < Attempts /\ Continue("sleep")
    <3>1. ~Writing
      BY <2>4 DEF Writing, IsGET, Attempts, RetryGET, TypeOK
    <3> QED
      BY <1>0, <2>1, <2>3, <2>4, <3>1, ContinueKeeps
  <2>5. CASE Return(Kind(wire))
    <3>1. /\ Kind(wire) \in Reports \ {"none", "ok"}
          /\ wire = "502" => Kind(wire) = "transport"
          /\ Kind(wire) = "not_found" => wire = "404"
      BY <2>1 DEF Kind, Reports, Statuses
    <3>2. verifying /\ Kind(wire) = "not_found" => ~record
      BY <3>1 DEF GoneInv
    <3> QED
      BY <1>0, <2>1, <2>2, <2>3, <2>5, <3>1, <3>2, ReturnKeeps
  <2> QED
    BY <1>7, <2>4, <2>5 DEF Refuse
<1>8. CASE Sleep
  <2>1. pc = "sleep" /\ wire = "none" /\ attempt < Attempts
        /\ UNCHANGED <<call, canRefresh, ctx, token, late, executed, record, wire, sent, connVars, reused, replayed>>
    BY <1>8 DEF Sleep, ShapeInv, serverVars, connVars
  <2>2. Writing => executed + late <= replayed
    BY <1>0, <2>1 DEF OnceInv, Pending
  <2>3. sent <= Before + attempt + Resends
    BY <2>1 DEF CountInv
  <2>4. CASE attempt' = attempt + 1 /\ pc' = "top" /\ UNCHANGED <<verifying, refreshed, report>>
    <3>1. attempt' \in 1 .. Attempts /\ refreshed' \in BOOLEAN /\ Resends' = Resends
      BY <1>0, <2>1, <2>4, AttemptsPositive DEF TypeOK, Resends
    <3>2. attempt' + Resends' = attempt + Resends + 1
      BY <1>0, <2>4, <3>1
    <3> QED
      BY <1>0, <2>1, <2>4, <3>1, <3>2, AgainKeeps
  <2>5. CASE Return("cancelled")
    BY <1>0, <2>1, <2>2, <2>3, <2>5, ReturnKeeps DEF Reports
  <2> QED
    BY <1>8, <2>4, <2>5 DEF Sleep
<1>9. CASE Answer
  <2>1. wire = "request" /\ pc = "flight" /\ report = "none" /\ UNCHANGED <<callVars, pc, ctx, token, sent, reused, replayed, report>>
    BY <1>9 DEF Answer, ShapeInv, connVars
  <2>2. wire' \in Answers /\ late' \in Nat
    BY <1>9 DEF Answer, TaigaAnswers, Answers, Statuses, TypeOK
  <2>3. Writing => executed + late <= replayed
    BY <1>0, <2>1 DEF OnceInv, Pending
  <2>4. Attempts' = Attempts /\ Before' = Before /\ Resends' = Resends /\ (Writing' <=> Writing) /\ Pending' = 0
    BY <2>1, <2>2 DEF callVars, Attempts, RetryGET, Before, Resends, Writing, Pending, Answers, Statuses
  <2> DEFINE others == /\ ShapeInv' /\ CountInv' /\ RefusedMeansUntouched' /\ SuccessIsReal'
                       /\ (executed' \in Nat /\ record' \in BOOLEAN => TypeOK')
  <2>7. others
    <3>1. ShapeInv' /\ CountInv'
      BY <2>1, <2>4 DEF callVars, ShapeInv, CountInv
    <3>2. RefusedMeansUntouched' /\ SuccessIsReal'
      BY <2>1 DEF callVars, RefusedMeansUntouched, SuccessIsReal
    <3>3. verifying' \in BOOLEAN /\ refreshed' \in BOOLEAN /\ canRefresh' \in BOOLEAN
      BY <2>1 DEF callVars, TypeOK
    <3>4. ASSUME executed' \in Nat, record' \in BOOLEAN PROVE TypeOK'
      BY <2>1, <2>2, <2>4, <3>3, <3>4 DEF callVars, TypeOK
    <3> QED
      BY <3>1, <3>2, <3>4
  <2> HIDE DEF others
  <2>8. CASE wire' = "502" /\ late' = late + 1 /\ UNCHANGED <<executed, record>>
    <3>1. record' \in BOOLEAN
      BY <2>8 DEF TypeOK
    <3>2. OnceInv'
      BY <1>0, <2>1, <2>3, <2>4, <2>8 DEF OnceInv, callVars
    <3>3. GoneInv'
      BY <2>8 DEF GoneInv
    <3> QED
      BY <1>0, <2>7, <2>8, <3>1, <3>2, <3>3 DEF others
  <2>5. CASE wire' \in {"200", "garbled", "502"} /\ (verifying => record) /\ Execute /\ late' = late
    <3>1. record' \in BOOLEAN
      BY <2>5 DEF Execute, TypeOK
    <3>2. executed' = IF Writing THEN executed + 1 ELSE executed
      BY <2>5 DEF Execute, Writing, IsGET, ShapeInv
    <3>3. executed' \in Nat /\ OnceInv'
      BY <1>0, <2>1, <2>3, <2>4, <2>5, <3>2 DEF OnceInv, callVars, Writing
    <3>4. GoneInv'
      BY <2>5 DEF GoneInv
    <3> QED
      BY <2>7, <3>1, <3>3, <3>4 DEF others
  <2>6. CASE UNCHANGED <<executed, record, late>> /\ wire' \in {"401", "404", "400", "429", "500", "502"}
             /\ (verifying /\ wire' = "404" => ~record)
    <3>1. record' \in BOOLEAN
      BY <2>6 DEF TypeOK
    <3>2. OnceInv'
      BY <1>0, <2>1, <2>3, <2>4, <2>6 DEF OnceInv, callVars
    <3>3. GoneInv'
      BY <2>1, <2>6 DEF GoneInv, callVars
    <3> QED
      BY <1>0, <2>6, <2>7, <3>1, <3>2, <3>3 DEF others
  <2> QED
    BY <1>9, <2>5, <2>6, <2>8 DEF Answer, TaigaAnswers
<1>10. CASE LateArrival
  <2>1. /\ late > 0 /\ late' = late - 1 /\ UNCHANGED <<callVars, pc, ctx, token, wire, sent, reused, replayed, report>>
        /\ Execute \/ UNCHANGED <<executed, record>>
        /\ verifying => UNCHANGED <<executed, record>>
    BY <1>10 DEF LateArrival, connVars
  <2>2. /\ Attempts' = Attempts /\ Before' = Before /\ Resends' = Resends /\ Pending' = Pending
        /\ (Writing' <=> Writing) /\ (IsWrite' <=> IsWrite) /\ Pending \in Nat
    BY <2>1 DEF callVars, Attempts, RetryGET, Before, Resends, Writing, IsWrite, Pending
  <2>3. PICK n \in Nat : late' = n /\ late = n + 1
    BY <1>0, <2>1
  <2>4. record' \in BOOLEAN /\ (~record => ~record')
    <3>1. record \in BOOLEAN /\ record' \in {FALSE, record}
      BY <2>1 DEF Execute, TypeOK
    <3>2. CASE record' = FALSE
      BY <3>2
    <3>3. CASE record' = record
      BY <3>1, <3>3
    <3> QED
      BY <3>1, <3>2, <3>3
  <2>5. executed' \in {executed, executed + 1} /\ (~Writing => executed' = executed)
    BY <2>1 DEF Execute, Writing, IsGET
  <2>6. PICK e \in Nat : executed' = e
    BY <1>0, <2>5
  <2>7. TypeOK'
    <3>1. verifying' \in BOOLEAN /\ refreshed' \in BOOLEAN /\ canRefresh' \in BOOLEAN
      BY <2>1 DEF callVars, TypeOK
    <3> QED
      BY <2>1, <2>2, <2>3, <2>4, <2>6, <3>1 DEF callVars, TypeOK
  <2>8. ShapeInv' /\ CountInv' /\ GoneInv'
    BY <2>1, <2>2, <2>4 DEF callVars, ShapeInv, CountInv, GoneInv
  <2>9. OnceInv'
    <3>1. executed' + late' <= executed + late /\ executed <= executed'
      BY <1>0, <2>3, <2>5, <2>6
    <3>2. ~Writing => call = "Get" \/ verifying
      BY DEF Writing
    <3>3. PICK p \in Nat : Pending' = p /\ Pending = p
      BY <2>2
    <3>4. pc' = pc /\ wire' = wire /\ replayed' = replayed
      BY <2>1
    <3>5. ~Writing => executed' = executed
      BY <2>5
    <3>6. (call' = "Get" => executed' = 0) /\ (verifying' => executed' = 1)
      BY <2>1, <3>2, <3>5 DEF OnceInv, callVars, Writing
    <3> QED
      BY <1>0, <2>2, <2>3, <2>6, <3>1, <3>3, <3>4, <3>6 DEF OnceInv
  <2>10. RefusedMeansUntouched'
    BY <1>0, <2>1, <2>2, <2>3, <2>5, <2>6 DEF RefusedMeansUntouched
  <2>11. SuccessIsReal'
    BY <1>0, <2>1, <2>4, <2>5 DEF SuccessIsReal, callVars
  <2> QED
    BY <2>7, <2>8, <2>9, <2>10, <2>11
<1>11. CASE LateLoss
  <2>1. late > 0 /\ late' = late - 1 /\ UNCHANGED <<callVars, pc, ctx, token, wire, executed, record, sent, reused, replayed, report>>
    BY <1>11 DEF LateLoss, connVars
  <2>2. /\ Attempts' = Attempts /\ Before' = Before /\ Resends' = Resends /\ Pending' = Pending
        /\ (Writing' <=> Writing) /\ (IsWrite' <=> IsWrite) /\ Pending \in Nat
    BY <2>1 DEF callVars, Attempts, RetryGET, Before, Resends, Writing, IsWrite, Pending
  <2>3. PICK n \in Nat : late' = n /\ late = n + 1
    BY <1>0, <2>1
  <2>4. TypeOK'
    <3>1. verifying' \in BOOLEAN /\ refreshed' \in BOOLEAN /\ canRefresh' \in BOOLEAN /\ record' \in BOOLEAN
      BY <2>1 DEF callVars, TypeOK
    <3> QED
      BY <2>1, <2>2, <2>3, <3>1 DEF callVars, TypeOK
  <2>5. ShapeInv' /\ CountInv' /\ GoneInv' /\ SuccessIsReal'
    BY <2>1, <2>2 DEF callVars, ShapeInv, CountInv, GoneInv, SuccessIsReal
  <2>6. OnceInv'
    BY <1>0, <2>1, <2>2, <2>3 DEF OnceInv, callVars
  <2>7. RefusedMeansUntouched'
    BY <1>0, <2>1, <2>2 DEF RefusedMeansUntouched
  <2> QED
    BY <2>4, <2>5, <2>6, <2>7
<1>12. CASE Expire \/ Interrupt
  <2>1. /\ token' \in {"good", "expired"} /\ ctx' \in {"live", "done"}
        /\ UNCHANGED <<callVars, pc, wire, late, executed, record, sent, reused, replayed, report>>
    BY <1>0, <1>12 DEF Expire, Interrupt, serverVars, connVars
  <2>2. /\ Attempts' = Attempts /\ Before' = Before /\ Resends' = Resends /\ Pending' = Pending
        /\ (Writing' <=> Writing) /\ (IsWrite' <=> IsWrite)
    BY <2>1 DEF callVars, Attempts, RetryGET, Before, Resends, Writing, IsWrite, Pending
  <2>3. TypeOK'
    <3>1. verifying' \in BOOLEAN /\ refreshed' \in BOOLEAN /\ canRefresh' \in BOOLEAN /\ record' \in BOOLEAN
      BY <2>1 DEF callVars, TypeOK
    <3> QED
      BY <2>1, <2>2, <3>1 DEF callVars, TypeOK
  <2>4. ShapeInv' /\ CountInv' /\ GoneInv' /\ SuccessIsReal'
    BY <2>1, <2>2 DEF callVars, ShapeInv, CountInv, GoneInv, SuccessIsReal
  <2>5. OnceInv' /\ RefusedMeansUntouched'
    BY <2>1, <2>2 DEF OnceInv, RefusedMeansUntouched, callVars
  <2> QED
    BY <2>3, <2>4, <2>5
<1>13. CASE UNCHANGED vars
  <2>1. /\ Attempts' = Attempts /\ Before' = Before /\ Resends' = Resends /\ Pending' = Pending
        /\ (Writing' <=> Writing) /\ (IsWrite' <=> IsWrite)
    BY <1>13 DEF vars, callVars, Attempts, RetryGET, Before, Resends, Writing, IsWrite, Pending
  <2>2. TypeOK'
    <3>1. verifying' \in BOOLEAN /\ refreshed' \in BOOLEAN /\ canRefresh' \in BOOLEAN /\ record' \in BOOLEAN
      BY <1>13 DEF vars, connVars, serverVars, callVars, TypeOK
    <3> QED
      BY <1>13, <2>1, <3>1 DEF vars, connVars, serverVars, callVars, TypeOK
  <2>3. ShapeInv' /\ CountInv' /\ GoneInv' /\ SuccessIsReal'
    BY <1>13, <2>1 DEF vars, connVars, serverVars, callVars, ShapeInv, CountInv, GoneInv, SuccessIsReal
  <2>4. OnceInv' /\ RefusedMeansUntouched'
    BY <1>13, <2>1 DEF vars, connVars, serverVars, OnceInv, RefusedMeansUntouched, callVars
  <2> QED
    BY <2>2, <2>3, <2>4
<1>14. CASE Replay
  <2>1. /\ pc = "flight" /\ IsGET /\ wire # "none" /\ report = "none" /\ wire' = "request" /\ reused' = FALSE
        /\ late' = Dropped /\ replayed' = IF MayCommit THEN replayed + 1 ELSE replayed
        /\ UNCHANGED <<callVars, pc, ctx, token, executed, record, sent, report>>
    BY <1>14 DEF Replay, ShapeInv
  <2>2. /\ Attempts' = Attempts /\ Before' = Before /\ Resends' = Resends /\ Pending' = 1
        /\ (Writing' <=> Writing) /\ report' = "none"
    BY <2>1 DEF callVars, Attempts, RetryGET, Before, Resends, Writing, Pending
  <2>3. late' = late + Pending /\ Pending \in Nat
    BY <1>0, <2>1 DEF Dropped, Pending
  <2>4. MayCommit => Writing /\ call = "GetOnce"
    BY <2>1 DEF MayCommit, Writing, IsGET
  <2>5. Writing => MayCommit
    BY <2>1 DEF MayCommit, Writing, IsGET
  <2>6. TypeOK'
    <3>1. verifying' \in BOOLEAN /\ refreshed' \in BOOLEAN /\ canRefresh' \in BOOLEAN /\ record' \in BOOLEAN
      BY <2>1 DEF callVars, TypeOK
    <3>2. late' \in Nat /\ replayed' \in Nat
      BY <1>0, <2>1, <2>3
    <3> QED
      BY <2>1, <2>2, <3>1, <3>2 DEF callVars, TypeOK
  <2>7. ShapeInv' /\ CountInv' /\ GoneInv' /\ RefusedMeansUntouched' /\ SuccessIsReal'
    BY <2>1, <2>2, <2>4 DEF callVars, ShapeInv, CountInv, GoneInv, RefusedMeansUntouched, SuccessIsReal
  <2>8. OnceInv'
    <3>1. CASE Writing
      <4>1. replayed' = replayed + 1 /\ executed + late + Pending <= 1 + replayed
        BY <2>1, <2>5, <3>1 DEF OnceInv
      <4>2. executed' + late' + Pending' <= 1 + replayed'
        BY <1>0, <2>1, <2>2, <2>3, <4>1
      <4> QED
        BY <2>1, <2>2, <3>1, <4>2 DEF OnceInv, callVars, Writing
    <3>2. CASE ~Writing
      BY <2>1, <2>2, <3>2 DEF OnceInv, callVars
    <3> QED
      BY <3>1, <3>2
  <2> QED
    BY <2>6, <2>7, <2>8
<1> QED
  BY <1>1, <1>2, <1>3, <1>4, <1>5, <1>6, <1>7, <1>8, <1>9, <1>10, <1>11, <1>12, <1>13, <1>14
     DEF Next, Client, Returned

THEOREM RequestInvariant == Spec => []RequestInv
<1> QED
  BY RequestInvInit, RequestInvStep, PTL DEF Spec

\* The variables of a call stay in their ranges (doJSON).
THEOREM RequestTypeCorrect == Spec => []TypeOK
<1>1. RequestInv => TypeOK
  BY DEF RequestInv
<1> QED
  BY <1>1, RequestInvariant, PTL

\* No write is carried out twice, whatever is resent, refreshed or late, but for
\* a GetOnce that the Transport itself sent again (doJSON, net/http).
THEOREM WritesHappenOnce == Spec => []AtMostOnce
<1>1. RequestInv => AtMostOnce
  <2> SUFFICES ASSUME RequestInv PROVE AtMostOnce
    OBVIOUS
  <2>1. executed \in Nat /\ late \in Nat /\ replayed \in Nat /\ Pending \in Nat
    BY DEF RequestInv, TypeOK, Pending
  <2> QED
    BY <2>1 DEF RequestInv, ShapeInv, OnceInv, Writing, AtMostOnce
<1> QED
  BY <1>1, RequestInvariant, PTL

\* What a call reports as refused was not written and will not be, but for what
\* the Transport had already sent of it (commitRisk, net/http).
THEOREM RefusalsAreFinal == Spec => []RefusedMeansUntouched
<1>1. RequestInv => RefusedMeansUntouched
  BY DEF RequestInv
<1> QED
  BY <1>1, RequestInvariant, PTL

\* What a call reports as done was done, and what it reports deleted is gone
\* (deleteAndVerify).
THEOREM SuccessesAreReal == Spec => []SuccessIsReal
<1>1. RequestInv => SuccessIsReal
  BY DEF RequestInv
<1> QED
  BY <1>1, RequestInvariant, PTL

\* However often the token expires, a call sends its attempts, one resend, and
\* for a deletion two more (doJSON).
THEOREM RequestsAreBounded == Spec => []BoundedRequests
<1>1. RequestInv => BoundedRequests
  <2> SUFFICES ASSUME RequestInv PROVE BoundedRequests
    OBVIOUS
  <2>1. sent \in Nat /\ attempt \in 1 .. Attempts /\ Attempts \in Nat /\ Resends \in {0, 1}
    BY AttemptsPositive DEF RequestInv, TypeOK, Resends
  <2>2. Before = IF verifying THEN 2 ELSE 0
    BY DEF Before
  <2> QED
    BY <2>1, <2>2 DEF RequestInv, CountInv, BoundedRequests
<1> QED
  BY <1>1, RequestInvariant, PTL
===============================================================================
