----------------------------- MODULE RequestLayer -----------------------------
(***************************************************************************)
(* One call of the API client and what it leaves on the server.            *)
(*   internal/taiga/client.go   doJSON, its wrappers, deleteAndVerify,     *)
(*                              classifyAPIError, retryableStatus,         *)
(*                              refreshRefused                             *)
(* The network may lose a request or an answer, or deliver a request after *)
(* the client gave up on it.  Between doJSON and the network stands the    *)
(* default Transport of net/http (cli/app.go:99), external here, which     *)
(* sends a GET again by itself when a connection used before breaks under  *)
(* it.  Taiga, behind its proxy, is external: it executes a request whose  *)
(* token it accepts at most once, and may answer 5xx after executing it (a *)
(* gateway timeout).                                                       *)
(***************************************************************************)
EXTENDS Integers

CONSTANTS
  Calls,           \* the wrappers called: a subset of AllCalls
  MaxRetries,      \* Client.maxRetries
  GatewayLoses     \* whether a 5xx may answer a request Taiga executed

AllCalls == {"Get", "GetOnce", "Mutate", "PostIdempotent", "DeleteAndVerify"}

ASSUME RequestAssumption ==
  /\ Calls \subseteq AllCalls
  /\ MaxRetries \in Nat
  /\ GatewayLoses \in BOOLEAN

VARIABLES
  call,        \* the wrapper called
  verifying,   \* deleteAndVerify has sent its DELETE and is reading back
  pc,          \* "top", "flight", "refresh", "sleep", "returned"
  attempt, refreshed,     \* doJSON's locals of those names
  ctx,         \* "live" or "done": the caller's context
  canRefresh,  \* c.refreshToken is not empty
  token,       \* "good" or "expired": what Taiga thinks of c.token
  wire,        \* the request under way, or the answer to it
  late,        \* requests given up on that may still reach Taiga
  executed,    \* how often Taiga carried out the write
  record,      \* whether the record a DELETE names exists
  sent,        \* requests doJSON has sent, for this call or its verification
  reused,      \* the connection at hand has carried a request before
  replayed,    \* how often the Transport sent a write again (history)
  report       \* what the caller is told

callVars   == <<call, verifying, attempt, refreshed, canRefresh>>
serverVars == <<token, late, executed, record>>
connVars   == <<reused, replayed>>
vars == <<callVars, pc, ctx, serverVars, wire, sent, connVars, report>>

Statuses == {"200", "401", "404", "400", "429", "502", "500"}
Answers  == Statuses \cup {"garbled"}        \* a 2xx that does not decode
Reports  == {"none", "ok", "cancelled", "ambiguous", "transport", "auth",
             "not_found", "validation", "throttled", "refresh_failed"}

-----------------------------------------------------------------------------
\* Mutant of MayCommit: it forgets that a GET may write.
MayCommitUnlessGET == call \in {"Mutate", "DeleteAndVerify"} /\ ~verifying

\* What the wrapper passes doJSON.
IsGET     == call \in {"Get", "GetOnce"} \/ verifying
MayCommit == call \in {"GetOnce", "Mutate", "DeleteAndVerify"} /\ ~verifying
RetryGET  == call = "Get" \/ verifying
Attempts  == IF RetryGET /\ MaxRetries > 0 THEN MaxRetries ELSE 1

TypeOK ==
  /\ call \in Calls /\ verifying \in BOOLEAN
  /\ pc \in {"top", "flight", "refresh", "sleep", "returned"}
  /\ attempt \in 1 .. Attempts /\ refreshed \in BOOLEAN /\ canRefresh \in BOOLEAN
  /\ ctx \in {"live", "done"} /\ token \in {"good", "expired"}
  /\ wire \in Answers \cup {"none", "request"}
  /\ late \in Nat /\ executed \in Nat /\ record \in BOOLEAN /\ sent \in Nat
  /\ reused \in BOOLEAN /\ replayed \in Nat
  /\ report \in Reports

\* classifyAPIError: the kind of a status.
Kind(status) ==
  CASE status = "401" -> "auth"
    [] status = "404" -> "not_found"
    [] status = "400" -> "validation"
    [] status = "429" -> "throttled"
    [] OTHER -> "transport"

\* retryableStatus, for the GETs doJSON sends again by itself.
ResentStatus == {"429", "502"}

\* Mutant of Verdict: a record that can still be read counts as deleted.
VerdictTrusts(r) == IF ~verifying \/ r = "ok" THEN r ELSE IF r = "not_found" THEN "ok" ELSE "ambiguous"

\* deleteAndVerify turns the outcome of its GET around: gone is success.
Verdict(r) ==
  IF ~verifying THEN r ELSE IF r = "not_found" THEN "ok" ELSE "ambiguous"

\* doJSON returns r.  The caller hears it, except that a DELETE that succeeded
\* is read back first.
Return(r) ==
  IF call = "DeleteAndVerify" /\ ~verifying /\ r = "ok"
  THEN /\ verifying' = TRUE /\ attempt' = 1 /\ refreshed' = FALSE
       /\ pc' = "top"
       /\ UNCHANGED report
  ELSE /\ report' = Verdict(r)
       /\ pc' = "returned"
       /\ UNCHANGED <<verifying, attempt, refreshed>>

Continue(l) == pc' = l /\ UNCHANGED <<verifying, attempt, refreshed, report>>

Unconfirmed == Return("ambiguous")

\* An answer read to its end leaves a connection to use again; a failure
\* closes it.
Keep  == reused' = TRUE /\ UNCHANGED replayed
Close == reused' = FALSE /\ UNCHANGED replayed

\* The answer is done with; a request still without one may yet reach Taiga.
Dropped == IF wire = "request" THEN late + 1 ELSE late

-----------------------------------------------------------------------------
Init ==
  /\ call \in Calls /\ verifying = FALSE
  /\ pc = "top" /\ attempt = 1 /\ refreshed = FALSE
  /\ canRefresh \in BOOLEAN
  /\ ctx = "live" /\ token \in {"good", "expired"}
  /\ wire = "none" /\ late = 0 /\ executed = 0 /\ record = TRUE
  /\ sent = 0 /\ reused \in BOOLEAN /\ replayed = 0 /\ report = "none"

\* The check before anything goes out, and the request going out.
Send ==
  /\ pc = "top"
  /\ IF ctx = "done"
     THEN Return("cancelled") /\ UNCHANGED <<wire, sent>>
     ELSE /\ wire' = "request" /\ sent' = sent + 1
          /\ Continue("flight")
  /\ UNCHANGED <<call, canRefresh, ctx, serverVars, connVars>>

\* Mutant of DoFails: a broken connection is tried again before anyone asks
\* what the request may have done.
DoFailsResends ==
  /\ pc = "flight"
  /\ \/ reused /\ ctx = "live" /\ Continue("top")
     \/ MayCommit /\ Unconfirmed
     \/ ~MayCommit /\ ctx = "done" /\ Return("cancelled")
     \/ ~MayCommit /\ ctx = "live" /\ attempt < Attempts /\ Continue("sleep")
     \/ ~MayCommit /\ ctx = "live" /\ attempt >= Attempts /\ Return("transport")
  /\ wire' = "none" /\ late' = Dropped /\ Close
  /\ UNCHANGED <<call, canRefresh, ctx, token, executed, record, sent>>

\* httpClient.Do fails: a connection that breaks and is not replayed, the
\* attempt's own timeout, or the caller's context ending.
DoFails ==
  /\ pc = "flight"
  /\ \/ MayCommit /\ Unconfirmed
     \/ ~MayCommit /\ ctx = "done" /\ Return("cancelled")
     \/ ~MayCommit /\ ctx = "live" /\ attempt < Attempts /\ Continue("sleep")
     \/ ~MayCommit /\ ctx = "live" /\ attempt >= Attempts /\ Return("transport")
  /\ wire' = "none" /\ late' = Dropped /\ Close
  /\ UNCHANGED <<call, canRefresh, ctx, token, executed, record, sent>>

\* The headers arrive but the body cannot be read, or closed.
BodyFails ==
  /\ pc = "flight" /\ wire \in Answers
  /\ IF MayCommit THEN Unconfirmed ELSE Return("transport")
  /\ wire' = "none" /\ Close
  /\ UNCHANGED <<call, canRefresh, ctx, serverVars, sent>>

\* A 2xx is decoded, unless it answers a DELETE, whose body nobody asked for.
Accept ==
  /\ pc = "flight" /\ wire \in {"200", "garbled"}
  /\ IF wire = "200" \/ (call = "DeleteAndVerify" /\ ~verifying) THEN Return("ok")
     ELSE IF MayCommit THEN Unconfirmed ELSE Return("transport")
  /\ wire' = "none" /\ Keep
  /\ UNCHANGED <<call, canRefresh, ctx, serverVars, sent>>

\* Mutant of NeedRefresh: every 401 is answered by a refresh.
NeedRefreshAlways ==
  /\ pc = "flight" /\ wire = "401" /\ canRefresh
  /\ Continue("refresh")
  /\ wire' = "none" /\ Keep
  /\ UNCHANGED <<call, canRefresh, ctx, serverVars, sent>>

\* A 401 is answered by a refresh, once, when there is a token to spend.
NeedRefresh ==
  /\ pc = "flight" /\ wire = "401" /\ ~refreshed /\ canRefresh
  /\ Continue("refresh")
  /\ wire' = "none" /\ Keep
  /\ UNCHANGED <<call, canRefresh, ctx, serverVars, sent>>

\* The refresh succeeds and the request is sent again without counting as an
\* attempt; Taiga refuses it and the 401 stands; or it fails any other way and
\* its own error is reported.
Refresh ==
  /\ pc = "refresh"
  /\ \/ /\ token' = "good" /\ refreshed' = TRUE /\ pc' = "top"
        /\ UNCHANGED <<verifying, attempt, report>>
     \/ Return("auth") /\ UNCHANGED token
     \/ Return("refresh_failed") /\ UNCHANGED token
     \/ ctx = "done" /\ Return("cancelled") /\ UNCHANGED token
  /\ UNCHANGED <<call, canRefresh, ctx, wire, late, executed, record, sent, connVars>>

\* Mutant of Refuse: the attempts are not counted.
RefuseUncounted ==
  /\ pc = "flight" /\ wire \in Statuses \ {"200"}
  /\ wire = "401" => refreshed \/ ~canRefresh
  /\ IF wire \in ResentStatus THEN Continue("sleep") ELSE Return(Kind(wire))
  /\ wire' = "none" /\ Keep
  /\ UNCHANGED <<call, canRefresh, ctx, serverVars, sent>>

\* Any other status outside 2xx is waited out, for a GET that may be sent
\* again, or reported.
Refuse ==
  /\ pc = "flight" /\ wire \in Statuses \ {"200"}
  /\ wire = "401" => refreshed \/ ~canRefresh
  /\ IF IsGET /\ attempt < Attempts /\ wire \in ResentStatus
     THEN Continue("sleep")
     ELSE Return(Kind(wire))
  /\ wire' = "none" /\ Keep
  /\ UNCHANGED <<call, canRefresh, ctx, serverVars, sent>>

\* Mutant of Sleep: only the context ends the wait.
SleepUntilInterrupted ==
  /\ pc = "sleep"
  /\ ctx = "done" /\ Return("cancelled")
  /\ UNCHANGED <<call, canRefresh, ctx, serverVars, wire, sent, connVars>>

\* The wait between two attempts ends, or the context ends it.
Sleep ==
  /\ pc = "sleep"
  /\ \/ /\ attempt' = attempt + 1 /\ pc' = "top"
        /\ UNCHANGED <<verifying, refreshed, report>>
     \/ ctx = "done" /\ Return("cancelled")
  /\ UNCHANGED <<call, canRefresh, ctx, serverVars, wire, sent, connVars>>

-----------------------------------------------------------------------------
(* Taiga, its proxy and the network.                                       *)

\* Taiga carries the request out: a write takes effect, and a DELETE usually
\* removes its record.
Execute ==
  IF IsGET /\ call # "GetOnce" THEN UNCHANGED <<executed, record>>
  ELSE /\ executed' = executed + 1
       /\ record' \in IF call = "DeleteAndVerify" THEN {FALSE, record} ELSE {record}

\* Taiga refuses the request or carries it out; what it says may be garbled, or
\* replaced by the proxy's own answer.
TaigaAnswers ==
  \/ token = "expired" /\ wire' = "401" /\ UNCHANGED <<executed, record>>
  \/ /\ token = "good"
     /\ IF verifying THEN record ELSE TRUE
     /\ Execute
     /\ wire' \in {"200", "garbled"} \cup (IF GatewayLoses THEN {"502"} ELSE {})
  \/ verifying /\ ~record /\ token = "good" /\ wire' = "404" /\ UNCHANGED <<executed, record>>
  \/ ~verifying /\ wire' \in {"404", "400"} /\ UNCHANGED <<executed, record>>
  \/ wire' \in {"429", "502", "500"} /\ UNCHANGED <<executed, record>>

\* Taiga answers, or its proxy does while Taiga is still at it.
Answer ==
  /\ wire = "request"
  /\ \/ GatewayLoses /\ wire' = "502" /\ late' = late + 1 /\ UNCHANGED <<executed, record>>
     \/ TaigaAnswers /\ UNCHANGED late
  /\ UNCHANGED <<callVars, pc, ctx, token, sent, connVars, report>>

\* A request the client gave up on arrives after all.
LateArrival ==
  /\ late > 0
  /\ late' = late - 1
  /\ IF token = "good" /\ ~verifying THEN Execute ELSE UNCHANGED <<executed, record>>
  /\ UNCHANGED <<callVars, pc, ctx, token, wire, sent, connVars, report>>

LateLoss ==
  /\ late > 0
  /\ late' = late - 1
  /\ UNCHANGED <<callVars, pc, ctx, token, wire, executed, record, sent, connVars, report>>

Expire ==
  /\ token = "good" /\ pc # "returned"
  /\ token' = "expired"
  /\ UNCHANGED <<callVars, pc, ctx, wire, late, executed, record, sent, connVars, report>>

\* Ctrl-C, or the caller's deadline.
Interrupt ==
  /\ ctx = "live" /\ pc # "returned"
  /\ ctx' = "done"
  /\ UNCHANGED <<callVars, pc, serverVars, wire, sent, connVars, report>>

\* net/http: a connection used before breaks before a byte of the answer
\* arrives, and the Transport sends a request without body, a GET, once more on
\* a connection of its own making.  What the first one does, it still may do;
\* doJSON hears nothing of it.  (A request of which nothing was written yet is
\* sent again whatever its method: that one never reached Taiga.)
Replay ==
  /\ pc = "flight" /\ ctx = "live" /\ IsGET /\ reused
  /\ wire # "none"
  /\ wire' = "request" /\ late' = Dropped
  /\ reused' = FALSE
  /\ replayed' = IF MayCommit THEN replayed + 1 ELSE replayed
  /\ UNCHANGED <<callVars, pc, ctx, token, executed, record, sent, report>>

Returned == pc = "returned" /\ late = 0 /\ UNCHANGED vars

Client == Send \/ DoFails \/ BodyFails \/ Accept \/ NeedRefresh \/ Refresh \/ Refuse \/ Sleep
Next == Client \/ Replay \/ Answer \/ LateArrival \/ LateLoss \/ Expire \/ Interrupt \/ Returned

Spec == Init /\ [][Next]_vars

\* Every attempt is bounded by requestTimeout, every wait by a timer.
FairSpec == Spec /\ WF_vars(Client)

-----------------------------------------------------------------------------
IsWrite == call \in {"GetOnce", "Mutate", "DeleteAndVerify"}

\* A write is carried out at most once for each time it was put on the wire by
\* someone: doJSON does so once, since no retry, and no resend after a refresh,
\* follows an attempt that may have reached Taiga; the Transport's replays, only
\* ever of the GET that enqueues an export, come on top, though
\* client.go:196 promises a GET without automatic retries.
AtMostOnce == executed <= 1 + (IF call = "GetOnce" THEN replayed ELSE 0)

\* A write reported as refused, cancelled, throttled or without credential
\* changed nothing and will not, but for what the Transport had sent of it
\* before the answer it was judged by: the request doJSON was answered did
\* nothing.  A "transport" report is not among these: a gateway answers 5xx for a
\* write Taiga carried out, and client.go:536 calls that one.
RefusedMeansUntouched ==
  IsWrite /\ report \notin {"none", "ok", "ambiguous", "transport"} =>
    executed + late <= replayed

\* A write reported done was done, and a record reported deleted is gone.
SuccessIsReal ==
  report = "ok" =>
    /\ call # "Get" => executed > 0
    /\ call = "DeleteAndVerify" => ~record

\* A call sends at most its attempts and one resend after a refresh, however
\* often the token expires under it; the verification counts on its own.
BoundedRequests == sent <= Attempts + 1 + (IF verifying THEN 2 ELSE 0)

\* Every call returns: attempts, waits and refreshes are all bounded.
CallReturns == <>(pc = "returned")
=============================================================================
