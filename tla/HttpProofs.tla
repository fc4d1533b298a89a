----------------------------- MODULE HttpProofs -----------------------------
(***************************************************************************)
(* Proofs about HttpServer, for every set of requests, inputs,             *)
(* configurations, users and routes, and for every burst.                  *)
(***************************************************************************)
EXTENDS HttpServer, FiniteSetTheorems, SequenceTheorems, TLAPS
-----------------------------------------------------------------------------
(* HttpServer. A request in the chain is unanswered and has passed every   *)
(* gate before its place; one that has left it is answered, or is on its   *)
(* way to be; and who holds the key is on the way to settle it.            *)
AfterAuthz == {"user", "idem", "handler", "service"}
AfterAuthn == {"authz"} \cup AfterAuthz
Chain == {"idle", "cors", "json", "ip", "api", "authn"} \cup AfterAuthn
Stages == Chain \cup {"settle", "timeout", "done"}
Codes == {"invalid", "forbidden", "nocontent", "mediatype", "toomany", "unavailable", "unauthorized", "conflict",
          "inprogress", "replayed", "ok", "refused", "failed", "internal", "timeout", "notfound"}
Subjects == Users \cup {"psk", ""}
StoreStates == {"free", "processing", "settled"}
Prints == {<<>>} \cup (Subjects \X {i.route : i \in Inputs} \X {i.lacks : i \in Inputs})

HttpTypes ==
  /\ at \in [Requests -> Stages] /\ req \in [Requests -> Inputs] /\ subject \in [Requests -> Subjects]
  /\ granted \in [Requests -> BOOLEAN] /\ marked \in [Requests -> BOOLEAN] /\ dead \in [Requests -> BOOLEAN]
  /\ ran \in [Requests -> BOOLEAN] /\ lost \in [Requests -> BOOLEAN]
  /\ answers \in [Requests -> Seq(Codes)] /\ used \in [Buckets -> Nat]
  /\ store \in [state : StoreStates, owner : Requests \cup {""}, print : Prints]

Ended(q) ==
  /\ at[q] \in Chain => answers[q] = <<>> /\ ~ran[q]
  /\ at[q] = "timeout" => Len(answers[q]) \in {0, 1}
  /\ at[q] \in {"settle", "done"} => Len(answers[q]) = 1
  /\ Holds(q) => at[q] \in {"handler", "service", "settle"} \/ lost[q]

Behind(q) ==
  /\ at[q] \in AfterAuthn \/ ran[q] =>
       /\ req[q].route \in PskRoutes => req[q].cred = "psk"
       /\ req[q].route \notin PskRoutes \cup SkipRoutes => req[q].cred \in Users
  /\ at[q] \in AfterAuthz \/ ran[q] => (cfg.authz /\ Protected(q) => granted[q])
  /\ marked[q] => granted[q] /\ tenantHTTPRequirement[req[q].route].scope = "platform"

ChainInv == HttpTypes /\ \A q \in Requests : Ended(q) /\ Behind(q)

(* No request has arrived at the start.                                    *)
LEMMA ChainInit == Init => ChainInv
  <1> SUFFICES ASSUME Init PROVE ChainInv
    BY Zenon
  <1>1. HttpTypes
    <2>1. answers \in [Requests -> Seq(Codes)]
      <3>1. <<>> \in Seq(Codes)
        BY EmptySeq, Zenon
      <3> QED
        BY <3>1, Zenon DEF Init
    <2>2. store \in [state : StoreStates, owner : Requests \cup {""}, print : Prints]
      <3>1. <<>> \in Prints
        BY Zenon DEF Prints
      <3> QED
        BY <3>1, Zenon DEF Init, Free, StoreStates
    <2> QED
      BY <2>1, <2>2, Zenon DEF Init, HttpTypes, Stages, Chain, Subjects
  <1>2. \A q \in Requests : Ended(q) /\ Behind(q)
    BY DEF Init, Free, Holds, Ended, Behind, AfterAuthn, AfterAuthz
  <1> QED
    BY <1>1, <1>2, Zenon DEF ChainInv

(* A request that a part of the chain answers leaves it.                   *)
LEMMA FailStep ==
  ASSUME ChainInv, NEW q \in Requests, at[q] \in Chain, NEW code \in Codes, Fail(q, code),
         ran' = ran \/ (at[q] = "service" /\ ran' = [ran EXCEPT ![q] = TRUE]),
         UNCHANGED <<cfg, req, subject, granted, marked, dead, lost, used, store>>
  PROVE  ChainInv'
  <1> USE DEF ChainInv
  <1>1. /\ answers' = [answers EXCEPT ![q] = Append(@, code)]
        /\ at' = [at EXCEPT ![q] = IF Holds(q) THEN "settle" ELSE "timeout"]
    BY Zenon DEF Fail, Write, Goto
  <1>2. answers[q] = <<>> /\ Append(answers[q], code) \in Seq(Codes) /\ Len(Append(answers[q], code)) = 1
    <2>1. answers[q] = <<>> /\ answers[q] \in Seq(Codes)
      BY Zenon DEF HttpTypes, Ended
    <2>2. Len(<<>>) = 0
      BY EmptySeq, Zenon
    <2> QED
      BY <2>1, <2>2, AppendProperties
  <1>3. HttpTypes'
    BY <1>1, <1>2 DEF HttpTypes, Stages
  <1>4. \A p \in Requests : Ended(p)'
    BY <1>1, <1>2 DEF HttpTypes, Ended, Chain, AfterAuthn, AfterAuthz, Holds
  <1>5. \A p \in Requests : Behind(p)'
    BY <1>1 DEF HttpTypes, Behind, Chain, AfterAuthn, AfterAuthz, Protected
  <1> QED
    BY <1>3, <1>4, <1>5, Zenon

(* Who gets no further than before stays behind the gates.                 *)
LEMMA StaysBehind ==
  ASSUME req' = req /\ cfg' = cfg /\ granted' = granted /\ marked' = marked,
         \A p \in Requests : /\ at'[p] \in AfterAuthn \/ ran'[p] => at[p] \in AfterAuthn \/ ran[p]
                             /\ at'[p] \in AfterAuthz \/ ran'[p] => at[p] \in AfterAuthz \/ ran[p],
         \A p \in Requests : Behind(p)
  PROVE  \A p \in Requests : Behind(p)'
  BY Zenon DEF Behind, Protected

(* One that a part answers without giving control back to those before it. *)
LEMMA AbortStep ==
  ASSUME ChainInv, NEW q \in Requests, at[q] \in Chain, NEW code \in Codes,
         Write(q, code), Goto(q, "done"),
         \/ at[q] \in {"idle", "cors"} /\ UNCHANGED <<ran, lost>>
         \/ /\ at[q] = "service" /\ ran' = [ran EXCEPT ![q] = TRUE]
            /\ lost' = [lost EXCEPT ![q] = TRUE],
         UNCHANGED <<cfg, req, subject, granted, marked, dead, used, store>>
  PROVE  ChainInv'
  <1> USE DEF ChainInv
  <1>1. /\ answers' = [answers EXCEPT ![q] = Append(@, code)] /\ at' = [at EXCEPT ![q] = "done"]
    BY Zenon DEF Write, Goto
  <1>2. answers[q] = <<>> /\ Append(answers[q], code) \in Seq(Codes) /\ Len(Append(answers[q], code)) = 1
    <2>1. answers[q] = <<>> /\ answers[q] \in Seq(Codes)
      BY Zenon DEF HttpTypes, Ended
    <2>2. Len(<<>>) = 0
      BY EmptySeq, Zenon
    <2> QED
      BY <2>1, <2>2, AppendProperties
  <1>3. HttpTypes'
    BY <1>1, <1>2, Zenon DEF HttpTypes, Stages
  <1>4. \A p \in Requests : Ended(p)'
    BY <1>1, <1>2, ZenonT(20) DEF HttpTypes, Ended, Chain, AfterAuthn, AfterAuthz, Holds
  <1>5. \A p \in Requests : Behind(p)'
    <2>1. \A p \in Requests : /\ at'[p] \in AfterAuthn \/ ran'[p] => at[p] \in AfterAuthn \/ ran[p]
                              /\ at'[p] \in AfterAuthz \/ ran'[p] => at[p] \in AfterAuthz \/ ran[p]
      BY <1>1, Zenon DEF HttpTypes, AfterAuthn, AfterAuthz
    <2>2. req' = req /\ cfg' = cfg /\ granted' = granted /\ marked' = marked
      BY Zenon
    <2>3. \A p \in Requests : Behind(p)
      BY Zenon
    <2> QED
      BY <2>1, <2>2, <2>3, StaysBehind, Zenon
  <1> QED
    BY <1>3, <1>4, <1>5, Zenon

(* One that a part lets through; it passes no gate by that.                *)
LEMMA MoveStep ==
  ASSUME ChainInv, NEW q \in Requests, at[q] \in Chain, NEW place \in Chain, Goto(q, place),
         place \in AfterAuthn => at[q] \in AfterAuthn,
         place \in AfterAuthz => at[q] \in AfterAuthz \/ ~(cfg.authz /\ Protected(q)),
         at[q] \in {"handler", "service"} => place = "service",
         used' \in [Buckets -> Nat],
         UNCHANGED <<cfg, req, subject, granted, marked, dead, ran, lost, answers, store>>
  PROVE  ChainInv'
  <1> USE DEF ChainInv
  <1>1. at' = [at EXCEPT ![q] = place]
    BY Zenon DEF Goto
  <1>2. HttpTypes'
    BY <1>1, Zenon DEF HttpTypes, Stages
  <1>3. \A p \in Requests : Ended(p)'
    BY <1>1 DEF HttpTypes, Ended, Chain, AfterAuthn, AfterAuthz, Holds
  <1>4. \A p \in Requests : Behind(p)'
    BY <1>1 DEF HttpTypes, Behind, Protected
  <1> QED
    BY <1>2, <1>3, <1>4, Zenon

(* What the limiter counts is one of its buckets.                          *)
LEMMA BucketType ==
  ASSUME HttpTypes, NEW q \in Requests, NEW d \in {"ip", "api", "user"}, ~(d = "user" /\ subject[q] = "")
  PROVE  Bucket(q, d) \in Buckets /\ Bucket(q, d)[1] = d
  <1>1. req[q] \in Inputs /\ subject[q] \in Users \cup {"psk", ""}
    BY Zenon DEF HttpTypes, Subjects
  <1>2. CASE d = "ip"
    BY <1>2, Zenon DEF Bucket, Buckets
  <1>3. CASE d = "api"
    BY <1>1, <1>3, Zenon DEF Bucket, Buckets
  <1>4. CASE d = "user"
    BY <1>1, <1>4, Zenon DEF Bucket, Buckets
  <1> QED
    BY <1>2, <1>3, <1>4, Zenon

(* The parts before authentication, and the limiter.                       *)
LEMMA FrontStep ==
  ASSUME ChainInv, NEW q \in Requests,
         \/ CheckKey(q) \/ CheckOrigin(q) \/ RequireJSON(q)
         \/ \E d \in {"ip", "api", "user"} : NotLimited(q, d) \/ Limited(q, d) \/ LimiterFails(q, d)
  PROVE  ChainInv'
  <1> USE DEF Chain, AfterAuthn, AfterAuthz, Codes
  <1>0. used \in [Buckets -> Nat] /\ at[q] \in Stages
    BY Zenon DEF ChainInv, HttpTypes
  <1>1. CASE CheckKey(q)
    <2>1. CASE req[q].shape = "badkey"
      BY <1>1, <2>1, AbortStep DEF CheckKey
    <2>2. CASE req[q].shape # "badkey"
      BY <1>0, <1>1, <2>2, MoveStep DEF CheckKey
    <2> QED
      BY <2>1, <2>2, Zenon
  <1>2. CASE CheckOrigin(q)
    <2>1. CASE req[q].shape = "foreign"
      BY <1>2, <2>1, AbortStep DEF CheckOrigin
    <2>2. CASE req[q].shape = "preflight"
      BY <1>2, <2>2, AbortStep DEF CheckOrigin
    <2>3. CASE req[q].shape \notin {"foreign", "preflight"}
      BY <1>0, <1>2, <2>3, MoveStep DEF CheckOrigin
    <2> QED
      BY <2>1, <2>2, <2>3
  <1>3. CASE RequireJSON(q)
    <2>1. CASE req[q].shape = "notjson"
      BY <1>3, <2>1, FailStep DEF RequireJSON
    <2>2. CASE req[q].shape # "notjson" /\ Known(q)
      BY <1>0, <1>3, <2>2, MoveStep DEF RequireJSON
    <2>3. CASE req[q].shape # "notjson" /\ ~Known(q)
      <3>1. at[q] = "json" /\ at' = [at EXCEPT ![q] = "timeout"]
            /\ UNCHANGED <<cfg, req, subject, granted, marked, dead, ran, lost, answers, used, store>>
        BY <1>3, <2>3 DEF RequireJSON, Goto
      <3>2. answers[q] = <<>> /\ Len(<<>>) = 0
        BY <3>1, EmptySeq DEF ChainInv, Ended
      <3>3. HttpTypes'
        BY <3>1, Zenon DEF ChainInv, HttpTypes, Stages
      <3>4. \A p \in Requests : Ended(p)'
        BY <3>1, <3>2 DEF ChainInv, HttpTypes, Ended, Holds
      <3>5. \A p \in Requests : Behind(p)'
        BY <3>1 DEF ChainInv, HttpTypes, Behind, Protected
      <3> QED
        BY <3>3, <3>4, <3>5 DEF ChainInv
    <2> QED
      BY <2>1, <2>2, <2>3
  <1>4. ASSUME NEW d \in {"ip", "api", "user"},
               NotLimited(q, d) \/ Limited(q, d) \/ LimiterFails(q, d)
        PROVE  ChainInv'
    <2>1. Onward[d] = IF d = "ip" THEN "api" ELSE IF d = "api" THEN "authn" ELSE "idem"
      BY DEF Onward
    <2>2. at[q] = d
      BY <1>4 DEF NotLimited, Limited, LimiterFails
    <2>3. ASSUME Goto(q, Onward[d]), used' \in [Buckets -> Nat],
                 UNCHANGED <<cfg, req, subject, granted, marked, dead, ran, lost, answers, store>>
          PROVE  ChainInv'
      BY <2>1, <2>2, <2>3, MoveStep
    <2>4. CASE NotLimited(q, d)
      BY <1>0, <2>3, <2>4 DEF NotLimited
    <2>5. CASE Limited(q, d)
      <3>1. CASE Exhausted(used[Bucket(q, d)], Burst[d])
        BY <2>2, <2>5, <3>1, FailStep DEF Limited
      <3>2. CASE ~Exhausted(used[Bucket(q, d)], Burst[d])
        <4>1. used' = [used EXCEPT ![Bucket(q, d)] = @ + 1]
          BY <2>5, <3>2 DEF Limited
        <4>2. used' \in [Buckets -> Nat]
          <5>1. Bucket(q, d) \in Buckets
            BY <2>5, BucketType, Zenon DEF Limited, ChainInv
          <5> QED
            BY <1>0, <4>1, <5>1
        <4> QED
          BY <2>3, <2>5, <3>2, <4>2 DEF Limited
      <3> QED
        BY <3>1, <3>2, Zenon
    <2>6. CASE LimiterFails(q, d)
      <3>1. CASE cfg.failOpen
        BY <1>0, <2>3, <2>6, <3>1 DEF LimiterFails
      <3>2. CASE ~cfg.failOpen
        BY <2>2, <2>6, <3>2, FailStep DEF LimiterFails
      <3> QED
        BY <3>1, <3>2, Zenon
    <2> QED
      BY <1>4, <2>4, <2>5, <2>6, Zenon
  <1> QED
    BY <1>1, <1>2, <1>3, <1>4

(* Authentication and authorization: the gates themselves.                 *)
LEMMA GateStep ==
  ASSUME ChainInv, NEW q \in Requests, Authenticate(q) \/ Authorize(q)
  PROVE  ChainInv'
  <1>0. used \in [Buckets -> Nat]
    BY Zenon DEF ChainInv, HttpTypes
  <1>1. CASE Authenticate(q)
    <2>1. CASE Authenticated(q) = "refused"
      BY <1>1, <2>1, FailStep DEF Authenticate, Chain, Codes
    <2>2. CASE Authenticated(q) # "refused"
      <3>1. /\ at[q] = "authn" /\ subject' = [subject EXCEPT ![q] = Authenticated(q)]
            /\ at' = [at EXCEPT ![q] = "authz"]
            /\ UNCHANGED <<cfg, req, granted, marked, dead, ran, lost, answers, used, store>>
        BY <1>1, <2>2 DEF Authenticate, Goto
      <3>2. /\ Authenticated(q) \in Subjects
            /\ req[q].route \in PskRoutes => req[q].cred = "psk"
            /\ req[q].route \notin PskRoutes \cup SkipRoutes => req[q].cred \in Users
        BY <2>2 DEF Authenticated, Subjects
      <3>3. HttpTypes'
        BY <3>1, <3>2 DEF ChainInv, HttpTypes, Stages, Chain, AfterAuthn
      <3>4. \A p \in Requests : Ended(p)'
        BY <3>1 DEF ChainInv, HttpTypes, Ended, Chain, AfterAuthn, AfterAuthz, Holds
      <3>5. \A p \in Requests : Behind(p)'
        <4>1. Behind(q) /\ ~ran[q] /\ at'[q] = "authz"
          BY <3>1, Zenon DEF ChainInv, HttpTypes, Ended, Chain
        <4>2. Behind(q)'
          BY <3>1, <3>2, <4>1 DEF Behind, AfterAuthn, AfterAuthz
        <4>3. ASSUME NEW p \in Requests, p # q PROVE Behind(p)'
          <5>1. Behind(p) /\ at'[p] = at[p]
            BY <3>1, <4>3 DEF ChainInv, HttpTypes
          <5> QED
            BY <3>1, <5>1 DEF Behind, Protected
        <4> QED
          BY <4>2, <4>3, Zenon
      <3> QED
        BY <3>3, <3>4, <3>5 DEF ChainInv
    <2> QED
      BY <2>1, <2>2, Zenon
  <1>2. CASE Authorize(q)
    <2>0. at[q] = "authz" /\ UNCHANGED <<cfg, req, subject, dead, ran, lost, used, store>>
      BY <1>2, Zenon DEF Authorize
    <2>1. ASSUME NEW code \in {"forbidden", "unavailable"}, Fail(q, code), UNCHANGED <<granted, marked>>
          PROVE  ChainInv'
      BY <2>0, <2>1, FailStep DEF Chain, AfterAuthn, Codes
    <2>2. ASSUME ~(cfg.authz /\ Protected(q)), Goto(q, "user"), UNCHANGED <<granted, marked, answers>>
          PROVE  ChainInv'
      BY <1>0, <2>0, <2>2, MoveStep DEF Chain, AfterAuthn, AfterAuthz
    <2>3. ASSUME granted' = [granted EXCEPT ![q] = TRUE], Goto(q, "user"), UNCHANGED answers,
                 marked' = [marked EXCEPT ![q] = tenantHTTPRequirement[req[q].route].scope = "platform"]
          PROVE  ChainInv'
      <3>1. at' = [at EXCEPT ![q] = "user"]
        BY <2>3, Zenon DEF Goto
      <3>2. HttpTypes'
        BY <2>0, <2>3, <3>1, Zenon DEF ChainInv, HttpTypes, Stages, Chain, AfterAuthn, AfterAuthz
      <3>3. \A p \in Requests : Ended(p)'
        BY <2>0, <2>3, <3>1 DEF ChainInv, HttpTypes, Ended, Chain, AfterAuthn, AfterAuthz, Holds
      <3>4. marked'[q] => tenantHTTPRequirement[req[q].route].scope = "platform"
        BY <2>3, Zenon DEF ChainInv, HttpTypes
      <3>5. granted'[q] /\ \A p \in Requests \ {q} : granted'[p] = granted[p] /\ marked'[p] = marked[p]
        BY <2>3, Zenon DEF ChainInv, HttpTypes
      <3>6. \A p \in Requests : Behind(p)'
        <4>1. Behind(q) /\ at[q] \in AfterAuthn
          BY <2>0, Zenon DEF ChainInv, AfterAuthn
        <4>2. Behind(q)'
          BY <2>0, <3>4, <3>5, <4>1 DEF Behind
        <4>3. ASSUME NEW p \in Requests, p # q PROVE Behind(p)'
          <5>1. Behind(p) /\ at'[p] = at[p]
            BY <3>1, <4>3 DEF ChainInv, HttpTypes
          <5>2. granted'[p] = granted[p] /\ marked'[p] = marked[p]
            BY <3>5, <4>3
          <5> QED
            BY <2>0, <5>1, <5>2 DEF Behind, Protected
        <4> QED
          BY <4>2, <4>3
      <3> QED
        BY <3>2, <3>3, <3>6 DEF ChainInv
    <2> QED
      BY <1>2, <2>1, <2>2, <2>3 DEF Authorize
  <1> QED
    BY <1>1, <1>2

(* The idempotency middleware and the handler behind it.                   *)
LEMMA HandlerStep ==
  ASSUME ChainInv, NEW q \in Requests,
         \/ Unkeyed(q) \/ Begin(q) \/ BeginFails(q)
         \/ Bind(q) \/ Serve(q) \/ Panic(q)
  PROVE  ChainInv'
  <1> USE DEF Chain, AfterAuthn, AfterAuthz, Codes
  <1>0. used \in [Buckets -> Nat]
    BY Zenon DEF ChainInv, HttpTypes
  <1>1. CASE Unkeyed(q)
    BY <1>0, <1>1, MoveStep DEF Unkeyed
  <1>2. CASE Begin(q)
    <2>0. at[q] = "idem" /\ UNCHANGED <<cfg, req, subject, granted, marked, dead, ran, lost, used>>
      BY <1>2, Zenon DEF Begin
    <2>1. CASE store.state = "free"
      <3>1. /\ store' = [state |-> "processing", owner |-> q, print |-> Fingerprint(q)]
            /\ at' = [at EXCEPT ![q] = "handler"] /\ UNCHANGED answers
        BY <1>2, <2>1 DEF Begin, Goto
      <3>2. Fingerprint(q) \in Prints
        BY DEF ChainInv, HttpTypes, Fingerprint, Prints
      <3>3. store' \in [state : StoreStates, owner : Requests \cup {""}, print : Prints]
        BY <3>1, <3>2, Zenon DEF StoreStates
      <3>4. HttpTypes'
        BY <2>0, <3>1, <3>3 DEF ChainInv, HttpTypes, Stages
      <3>5. \A p \in Requests : Ended(p)'
        BY <2>0, <3>1 DEF ChainInv, HttpTypes, Ended, Holds
      <3>6. \A p \in Requests : Behind(p)'
        BY <2>0, <3>1 DEF ChainInv, HttpTypes, Behind, Protected
      <3> QED
        BY <3>4, <3>5, <3>6 DEF ChainInv
    <2>2. CASE store.state # "free"
      <3>1. \E code \in Codes : Fail(q, code) /\ UNCHANGED store
        <4>1. CASE store.print # Fingerprint(q)
          BY <1>2, <2>2, <4>1 DEF Begin
        <4>2. CASE store.state = "processing" /\ store.print = Fingerprint(q)
          BY <1>2, <2>2, <4>2 DEF Begin
        <4>3. CASE store.state # "processing" /\ store.print = Fingerprint(q)
          BY <1>2, <2>2, <4>3 DEF Begin
        <4> QED
          BY <4>1, <4>2, <4>3, Zenon
      <3> HIDE DEF Codes
      <3> QED
        BY <2>0, <3>1, FailStep, Zenon
    <2> QED
      BY <2>1, <2>2, Zenon
  <1>3. CASE BeginFails(q)
    BY <1>3, FailStep, Zenon DEF BeginFails
  <1>4. CASE Bind(q)
    <2>0. /\ at[q] = "handler"
          /\ UNCHANGED <<cfg, req, subject, granted, marked, dead, ran, lost, used, store>>
      BY <1>4, Zenon DEF Bind
    <2>1. (\E code \in Codes : Fail(q, code)) \/ (Goto(q, "service") /\ UNCHANGED answers)
      BY <1>4 DEF Bind
    <2>2. CASE \E code \in Codes : Fail(q, code)
      <3> HIDE DEF Codes
      <3> QED
        BY <2>0, <2>2, FailStep
    <2>3. CASE Goto(q, "service") /\ UNCHANGED answers
      BY <1>0, <2>0, <2>3, MoveStep
    <2> QED
      BY <2>1, <2>2, <2>3
  <1>5. CASE Serve(q)
    <2>1. PICK code \in {"ok", "failed"} : Fail(q, code)
      BY <1>5 DEF Serve
    <2> QED
      BY <1>5, <2>1, FailStep DEF Serve
  <1>6. CASE Panic(q)
    BY <1>6, AbortStep, Zenon DEF Panic
  <1> QED
    BY <1>1, <1>2, <1>3, <1>4, <1>5, <1>6

(* The way back: the key is settled, or is lost, and Timeout answers what  *)
(* nobody answered.                                                        *)
LEMMA BackStep ==
  ASSUME ChainInv, NEW q \in Requests,
         Settle(q) \/ SettleFails(q) \/ Expire(q) \/ Deadline(q)
  PROVE  ChainInv'
  <1> USE DEF ChainInv, Chain, AfterAuthn, AfterAuthz
  <1>1. CASE Settle(q)
    <2>1. /\ at[q] = "settle" /\ store' = [store EXCEPT !.state = "settled"] /\ at' = [at EXCEPT ![q] = "timeout"]
          /\ UNCHANGED <<cfg, req, subject, granted, marked, dead, ran, lost, answers, used>>
      BY <1>1, Zenon DEF Settle, CanPersist, Goto
    <2>2. /\ store' \in [state : StoreStates, owner : Requests \cup {""}, print : Prints]
          /\ store'.state = "settled"
      BY <2>1 DEF HttpTypes, StoreStates
    <2>3. HttpTypes'
      BY <2>1, <2>2 DEF HttpTypes, Stages
    <2>4. \A p \in Requests : Ended(p)'
      BY <2>1, <2>2 DEF HttpTypes, Ended, Holds
    <2>5. \A p \in Requests : Behind(p)'
      BY <2>1 DEF HttpTypes, Behind, Protected
    <2> QED
      BY <2>3, <2>4, <2>5, Zenon
  <1>2. CASE SettleFails(q)
    <2>1. /\ at[q] = "settle" /\ lost' = [lost EXCEPT ![q] = TRUE] /\ at' = [at EXCEPT ![q] = "timeout"]
          /\ UNCHANGED <<cfg, req, subject, granted, marked, dead, ran, answers, used, store>>
      BY <1>2, Zenon DEF SettleFails, Goto
    <2>2. HttpTypes'
      BY <2>1, Zenon DEF HttpTypes, Stages
    <2>3. \A p \in Requests : Ended(p)'
      BY <2>1 DEF HttpTypes, Ended, Holds
    <2>4. \A p \in Requests : Behind(p)'
      BY <2>1 DEF HttpTypes, Behind, Protected
    <2> QED
      BY <2>2, <2>3, <2>4, Zenon
  <1>3. CASE Expire(q)
    <2>0. /\ at[q] = "timeout" /\ at' = [at EXCEPT ![q] = "done"]
          /\ UNCHANGED <<cfg, req, subject, granted, marked, dead, ran, lost, used, store>>
          /\ answers[q] \in Seq(Codes) /\ Len(answers[q]) \in {0, 1}
      BY <1>3, Zenon DEF Expire, Goto, HttpTypes, Ended
    <2>1. /\ answers' \in [Requests -> Seq(Codes)] /\ Len(answers'[q]) = 1
          /\ \A p \in Requests \ {q} : answers'[p] = answers[p]
      <3>1. CASE answers[q] = <<>>
        <4>1. PICK code \in {"timeout", "notfound"} : answers' = [answers EXCEPT ![q] = Append(@, code)]
          BY <1>3, <3>1 DEF Expire, Write, Silent
        <4>2. code \in Codes /\ Len(<<>>) = 0
          BY EmptySeq DEF Codes
        <4>3. Append(answers[q], code) \in Seq(Codes) /\ Len(Append(answers[q], code)) = 1
          BY <2>0, <3>1, <4>2, AppendProperties
        <4> QED
          BY <4>1, <4>3 DEF HttpTypes
      <3>2. CASE answers[q] # <<>>
        <4>1. answers' = answers
          BY <1>3, <3>2, Zenon DEF Expire, Silent
        <4>2. Len(answers[q]) # 0
          BY <2>0, <3>2, EmptySeq, Zenon
        <4> QED
          BY <2>0, <4>1, <4>2, Zenon DEF HttpTypes
      <3> QED
        BY <3>1, <3>2
    <2>2. HttpTypes'
      BY <2>0, <2>1, Zenon DEF HttpTypes, Stages
    <2>3. \A p \in Requests : Ended(p)'
      BY <2>0, <2>1 DEF HttpTypes, Ended, Holds
    <2>4. \A p \in Requests : Behind(p)'
      BY <2>0 DEF HttpTypes, Behind, Protected
    <2> QED
      BY <2>2, <2>3, <2>4, Zenon
  <1>4. CASE Deadline(q)
    BY <1>4 DEF Deadline, HttpTypes, Ended, Behind, Holds, Protected
  <1> QED
    BY <1>1, <1>2, <1>3, <1>4

(* ChainInv is inductive.                                                  *)
LEMMA ChainNext ==
  ASSUME ChainInv, [Next]_(vars)
  PROVE  ChainInv'
  <1>1. CASE UNCHANGED vars
    BY <1>1 DEF ChainInv, HttpTypes, Ended, Behind, vars, Holds, Protected
  <1>2. ASSUME NEW q \in Requests, Step(q) PROVE ChainInv'
    BY <1>2, FrontStep, GateStep, HandlerStep, BackStep DEF Step
  <1> QED
    BY <1>1, <1>2, BackStep, Zenon DEF Next, AllDone

(* RequestsEnd: through deadlines, panics and a store that fails, every    *)
(* request is answered exactly once, and a key stays in processing only    *)
(* after a panic or a store that failed.                                   *)
THEOREM EveryRequestEndsOnce == Spec => []RequestsEnd
  <1>1. ChainInv /\ [Next]_(vars) => ChainInv'
    BY ChainNext, Zenon
  <1>2. ASSUME ChainInv, NEW q \in Requests
        PROVE  /\ Len(answers[q]) <= 1
               /\ at[q] = "done" => Len(answers[q]) = 1
               /\ at[q] = "done" /\ Holds(q) => lost[q]
    <2>1. Ended(q) /\ at[q] \in Chain \cup {"settle", "timeout", "done"}
      BY <1>2, Zenon DEF ChainInv, HttpTypes, Stages
    <2>2. Len(<<>>) = 0
      BY EmptySeq, Zenon
    <2>3. Len(answers[q]) \in {0, 1}
      BY <2>1, <2>2, Zenon DEF Ended
    <2>4. "done" \notin Chain
      BY Zenon DEF Chain, AfterAuthn, AfterAuthz
    <2>5. at[q] = "done" => Len(answers[q]) = 1
      BY <2>1, <2>4, Zenon DEF Ended
    <2>6. at[q] = "done" /\ Holds(q) => lost[q]
      BY <2>1, Zenon DEF Ended
    <2>7. Len(answers[q]) <= 1
      <3>1. \A n \in {0, 1} : n <= 1
        OBVIOUS
      <3> QED
        BY <2>3, <3>1, Zenon
    <2> QED
      BY <2>5, <2>6, <2>7, Zenon
  <1>3. ChainInv => RequestsEnd
    BY <1>2, Zenon DEF RequestsEnd, AnsweredOnce, KeysSettled
  <1> QED
    BY ChainInit, <1>1, <1>3, PTL DEF Spec
-----------------------------------------------------------------------------
(* What was let past a bucket of the limiter and may still reach the       *)
(* service, or has, was counted in it.                                     *)
Dimensions == {"ip", "api", "user"}
Beyond(d) ==
  IF d = "ip" THEN {"api", "authn"} \cup AfterAuthn
  ELSE IF d = "api" THEN {"authn"} \cup AfterAuthn ELSE {"idem", "handler", "service"}
Through(q, d) == ran[q] \/ at[q] \in Beyond(d)
Drawn(b) == {q \in Requests : Through(q, b[1]) /\ Bucket(q, b[1]) = b}
Strict == cfg.limiter /\ ~cfg.failOpen

CountInv ==
  Strict => \A b \in Buckets : Cardinality(Drawn(b)) <= used[b] /\ used[b] <= Burst[b[1]]

(* What a step of one request leaves alone, and that it gets past a bucket *)
(* only where the limiter stands.                                          *)
LEMMA StepFacts ==
  ASSUME ChainInv, NEW q \in Requests, Step(q) \/ Deadline(q)
  PROVE  /\ cfg' = cfg /\ req' = req
         /\ \A p \in Requests \ {q} : at'[p] = at[p] /\ ran'[p] = ran[p] /\ subject'[p] = subject[p]
         /\ ran'[q] => ran[q] \/ at[q] = "service"
         /\ subject'[q] = subject[q] \/ (at[q] = "authn" /\ at'[q] = "authz" /\ ~ran'[q])
         /\ \/ \E d \in Dimensions : NotLimited(q, d) \/ Limited(q, d) \/ LimiterFails(q, d)
            \/ used' = used /\ \A d \in Dimensions : at'[q] \in Beyond(d) => at[q] \in Beyond(d)
  <1> USE DEF Dimensions, Beyond, AfterAuthn, AfterAuthz
  <1>0. /\ at \in [Requests -> Stages] /\ ran \in [Requests -> BOOLEAN] /\ subject \in [Requests -> Subjects]
        /\ at[q] \in Chain => ~ran[q]
    BY Zenon DEF ChainInv, HttpTypes, Ended
  <1>1. CASE CheckKey(q) \/ CheckOrigin(q) \/ RequireJSON(q)
    BY <1>0, <1>1 DEF CheckKey, CheckOrigin, RequireJSON, Fail, Goto
  <1>2. ASSUME NEW d \in Dimensions, NotLimited(q, d) \/ Limited(q, d) \/ LimiterFails(q, d)
        PROVE  /\ cfg' = cfg /\ req' = req /\ ran' = ran /\ subject' = subject
               /\ \A p \in Requests \ {q} : at'[p] = at[p]
    BY <1>0, <1>2, Zenon DEF NotLimited, Limited, LimiterFails, Fail, Goto
  <1>3. CASE Authenticate(q)
    BY <1>0, <1>3 DEF Authenticate, Fail, Goto, Chain
  <1>4. CASE Authorize(q)
    BY <1>0, <1>4 DEF Authorize, Fail, Goto
  <1>5. CASE Unkeyed(q) \/ Begin(q) \/ BeginFails(q)
    BY <1>0, <1>5 DEF Unkeyed, Begin, BeginFails, Fail, Goto
  <1>6. CASE Bind(q)
    BY <1>0, <1>6 DEF Bind, Fail, Goto
  <1>7. CASE Serve(q) \/ Panic(q)
    BY <1>0, <1>7 DEF Serve, Panic, Fail, Goto
  <1>8. CASE Settle(q) \/ SettleFails(q) \/ Expire(q) \/ Deadline(q)
    BY <1>0, <1>8 DEF Settle, SettleFails, Expire, Deadline, Goto
  <1> QED
    BY <1>1, <1>2, <1>3, <1>4, <1>5, <1>6, <1>7, <1>8 DEF Step

(* A bucket is one of three kinds, and none is kept for no one.            *)
LEMMA BucketDimension ==
  ASSUME HttpAssumption, NEW b \in Buckets
  PROVE  b[1] \in Dimensions /\ b # <<"user", "">>
  <1>1. CASE b = <<"ip", "one">>
    BY <1>1, Zenon DEF Dimensions
  <1>2. CASE b \in {"api"} \X {i.route : i \in Inputs}
    <2>1. b[1] = "api" /\ <<"user", "">>[1] = "user"
      BY <1>2, Zenon
    <2>2. b # <<"user", "">>
      BY <2>1, Zenon
    <2> QED
      BY <2>1, <2>2, Zenon DEF Dimensions
  <1>3. CASE b \in {"user"} \X (Users \cup {"psk"})
    <2>1. b[1] = "user" /\ b[2] \in Users \cup {"psk"}
      BY <1>3, Zenon
    <2>2. b[2] # "" /\ <<"user", "">>[2] = ""
      BY <2>1, Zenon DEF HttpAssumption
    <2>3. b # <<"user", "">>
      BY <2>2, Zenon
    <2> QED
      BY <2>1, <2>3, Zenon DEF Dimensions
  <1> QED
    BY <1>1, <1>2, <1>3 DEF Buckets

(* A request that is newly past a bucket took a token from it, and there   *)
(* was one.                                                                *)
LEMMA OneToken ==
  ASSUME HttpAssumption, ChainInv, Strict, NEW q \in Requests, Step(q) \/ Deadline(q), NEW b \in Buckets
  PROVE  \/ used'[b] = used[b] /\ Drawn(b)' \subseteq Drawn(b)
         \/ /\ used'[b] = used[b] + 1 /\ used[b] < Burst[b[1]]
            /\ Drawn(b)' \subseteq Drawn(b) \cup {q}
  <1>0. /\ used \in [Buckets -> Nat] /\ at \in [Requests -> Stages] /\ subject \in [Requests -> Subjects]
        /\ at[q] \in Chain => ~ran[q]
    BY Zenon DEF ChainInv, HttpTypes, Ended
  <1>1. b[1] \in Dimensions /\ b # <<"user", "">>
    BY BucketDimension, Zenon
  <1>2. ASSUME NEW p \in Requests, p # q, p \in Drawn(b)' PROVE p \in Drawn(b)
    BY <1>2, StepFacts DEF Drawn, Through, Bucket, Beyond
  <1>3. ASSUME NEW d \in Dimensions, NEW c \in Buckets, used' = [used EXCEPT ![c] = @ + 1], c = Bucket(q, d), c[1] = d,
               used[c] < Burst[d], at[q] = d, at'[q] = Onward[d], subject'[q] = subject[q], ran'[q] = ran[q], req' = req
        PROVE  \/ used'[b] = used[b] /\ (q \in Drawn(b)' => q \in Drawn(b))
               \/ used'[b] = used[b] + 1 /\ used[b] < Burst[b[1]]
    <2>1. CASE b = c
      BY <1>0, <1>3, <2>1, Zenon
    <2>2. CASE b # c
      <3>1. used'[b] = used[b]
        BY <1>0, <1>3, <2>2, Zenon
      <3>2. Onward[d] = IF d = "ip" THEN "api" ELSE IF d = "api" THEN "authn" ELSE "idem"
        BY DEF Onward, Dimensions
      <3>3. ASSUME q \in Drawn(b)' PROVE q \in Drawn(b)
        <4>1. Bucket(q, b[1])' = Bucket(q, b[1])
          BY <1>3, Zenon DEF Bucket
        <4>2. Bucket(q, b[1]) = b
          BY <3>3, <4>1 DEF Drawn
        <4>3. b[1] # d
          BY <1>3, <2>2, <4>2
        <4>4. at'[q] \in Beyond(b[1]) => at[q] \in Beyond(b[1])
          BY <1>1, <1>3, <3>2, <4>3 DEF Beyond, Dimensions, AfterAuthn, AfterAuthz
        <4> QED
          BY <1>3, <3>3, <4>2, <4>4, Zenon DEF Drawn, Through, Beyond
      <3> QED
        BY <3>1, <3>3, Zenon
    <2> QED
      BY <2>1, <2>2, Zenon
  <1>4. CASE \E d \in Dimensions : NotLimited(q, d) \/ Limited(q, d) \/ LimiterFails(q, d)
    <2>1. PICK d \in Dimensions : NotLimited(q, d) \/ Limited(q, d) \/ LimiterFails(q, d)
      BY <1>4, Zenon
    <2>2. at[q] = d /\ ran' = ran /\ subject' = subject /\ req' = req /\ cfg' = cfg
      BY <2>1, Zenon DEF NotLimited, Limited, LimiterFails, Fail, Goto
    <2>3. d \in Chain
      BY Zenon DEF Chain, AfterAuthn, AfterAuthz, Dimensions
    <2>3a. ~ran[q]
      BY <1>0, <2>2, <2>3, Zenon
    <2>4. ASSUME at'[q] \notin Beyond(b[1]) \/ Bucket(q, b[1]) # b PROVE q \notin Drawn(b)'
      BY <2>2, <2>3a, <2>4 DEF Drawn, Through, Bucket, Beyond
    <2>5. CASE NotLimited(q, d)
      <3>1. used' = used /\ d = "user" /\ subject[q] = ""
        BY <2>5 DEF NotLimited, Strict
      <3>2. CASE b[1] = "user"
        BY <1>1, <1>2, <2>4, <3>1, <3>2 DEF Bucket, Drawn
      <3>3. CASE b[1] # "user"
        <4>1. at[q] \in Beyond(b[1])
          BY <1>1, <2>2, <3>1, <3>3 DEF Beyond, Dimensions, AfterAuthn, AfterAuthz
        <4>2. q \in Drawn(b)' => q \in Drawn(b)
          BY <2>2, <4>1 DEF Drawn, Through, Bucket
        <4> QED
          BY <1>2, <3>1, <4>2 DEF Drawn
      <3> QED
        BY <3>2, <3>3
    <2>6. CASE LimiterFails(q, d)
      <3>1. used' = used /\ Fail(q, "unavailable")
        BY <2>6, Zenon DEF LimiterFails, Strict
      <3>2. at'[q] \notin Beyond(b[1])
        BY <1>0, <3>1 DEF Fail, Goto, Beyond, AfterAuthn, AfterAuthz
      <3> QED
        BY <1>2, <2>4, <3>1, <3>2 DEF Drawn
    <2>7. CASE Limited(q, d)
      <3> DEFINE c == Bucket(q, d)
      <3>1. CASE Exhausted(used[c], Burst[d])
        <4>1. used' = used /\ Fail(q, "toomany")
          BY <2>7, <3>1 DEF Limited
        <4>2. at'[q] \notin Beyond(b[1])
          BY <1>0, <4>1 DEF Fail, Goto, Beyond, AfterAuthn, AfterAuthz
        <4> QED
          BY <1>2, <2>4, <4>1, <4>2 DEF Drawn
      <3>2. CASE ~Exhausted(used[c], Burst[d])
        <4>1. used' = [used EXCEPT ![c] = @ + 1] /\ at'[q] = Onward[d] /\ ~(d = "user" /\ subject[q] = "")
          BY <1>0, <2>7, <3>2 DEF Limited, Goto
        <4>2. c \in Buckets /\ c[1] = d
          <5>1. HttpTypes /\ d \in {"ip", "api", "user"}
            BY Zenon DEF ChainInv, Dimensions
          <5> QED
            BY <4>1, <5>1, BucketType
        <4>3. used[c] < Burst[d]
          <5>1. used[c] \in Nat /\ Burst[d] \in Nat
            BY <1>0, <4>2 DEF HttpAssumption, Dimensions
          <5>2. \A m, n \in Nat : ~(m >= n) => m < n
            OBVIOUS
          <5> QED
            BY <3>2, <5>1, <5>2 DEF Exhausted
        <4> HIDE DEF c
        <4> QED
          BY <1>2, <1>3, <2>2, <4>1, <4>2, <4>3 DEF Drawn, c
      <3> QED
        BY <3>1, <3>2
    <2> QED
      BY <2>1, <2>5, <2>6, <2>7
  <1>5. CASE used' = used /\ \A d \in Dimensions : at'[q] \in Beyond(d) => at[q] \in Beyond(d)
    <2>1. at'[q] \in Beyond(b[1]) => at[q] \in Beyond(b[1])
      BY <1>1, <1>5
    <2>2. ran'[q] => ran[q] \/ at[q] \in Beyond(b[1])
      BY <1>1, StepFacts DEF Beyond, Dimensions, AfterAuthn, AfterAuthz
    <2>3. CASE subject'[q] = subject[q]
      <3>1. q \in Drawn(b)' => q \in Drawn(b)
        BY <2>1, <2>2, <2>3, StepFacts DEF Drawn, Through, Bucket, Beyond
      <3> QED
        BY <1>2, <1>5, <3>1 DEF Drawn
    <2>4. CASE at[q] = "authn" /\ at'[q] = "authz" /\ ~ran'[q]
      <3>1. CASE b[1] = "user"
        <4>1. q \notin Drawn(b)'
          BY <2>4, <3>1 DEF Drawn, Through, Beyond
        <4> QED
          BY <1>2, <1>5, <4>1 DEF Drawn
      <3>2. CASE b[1] # "user"
        <4>1. q \in Drawn(b)' => q \in Drawn(b)
          BY <2>1, <2>2, <3>2, StepFacts DEF Drawn, Through, Bucket, Beyond
        <4> QED
          BY <1>2, <1>5, <4>1 DEF Drawn
      <3> QED
        BY <3>1, <3>2
    <2> QED
      BY <2>3, <2>4, StepFacts, Zenon
  <1> QED
    BY <1>4, <1>5, StepFacts

(* What a count of one set says of its subsets, and with one more element. *)
LEMMA Counted ==
  ASSUME IsFiniteSet(Requests), NEW S \in SUBSET Requests, NEW n \in Nat, Cardinality(S) <= n
  PROVE  /\ \A T \in SUBSET S : Cardinality(T) <= n
         /\ \A q \in Requests : \A T \in SUBSET (S \cup {q}) : Cardinality(T) <= n + 1
  <1>1. IsFiniteSet(S) /\ Cardinality(S) \in Nat
    BY FS_Subset, FS_CardinalityType, Zenon
  <1>2. ASSUME NEW T \in SUBSET S PROVE Cardinality(T) <= n
    BY <1>1, FS_Subset, FS_CardinalityType
  <1>3. ASSUME NEW q \in Requests, NEW T \in SUBSET (S \cup {q}) PROVE Cardinality(T) <= n + 1
    <2>1. IsFiniteSet(S \cup {q}) /\ Cardinality(S \cup {q}) <= n + 1 /\ Cardinality(S \cup {q}) \in Nat
      <3>1. IsFiniteSet(S \cup {q})
        BY <1>1, FS_AddElement, Zenon
      <3>2. Cardinality(S \cup {q}) = Cardinality(S) \/ Cardinality(S \cup {q}) = Cardinality(S) + 1
        BY <1>1, FS_AddElement
      <3> QED
        BY <1>1, <3>1, <3>2
    <2>2. Cardinality(T) <= Cardinality(S \cup {q}) /\ Cardinality(T) \in Nat
      BY <2>1, FS_Subset, FS_CardinalityType
    <2> QED
      BY <2>1, <2>2
  <1> QED
    BY <1>2, <1>3, Zenon

(* At the start nothing was let through.                                   *)
LEMMA CountInit == ASSUME HttpAssumption, Init PROVE CountInv
  <1> SUFFICES ASSUME NEW b \in Buckets
               PROVE  Cardinality(Drawn(b)) <= used[b] /\ used[b] <= Burst[b[1]]
    BY Zenon DEF CountInv
  <1>1. Drawn(b) = {}
    BY Zenon DEF Init, Drawn, Through, Beyond, AfterAuthn, AfterAuthz
  <1>2. Cardinality(Drawn(b)) = 0
    BY <1>1, FS_EmptySet, Zenon
  <1>3. used[b] = 0
    BY Zenon DEF Init
  <1>4. Burst[b[1]] \in Nat
    BY BucketDimension, Zenon DEF HttpAssumption, Dimensions
  <1> QED
    BY <1>2, <1>3, <1>4

(* Every step keeps the count of each bucket.                              *)
LEMMA CountNext ==
  ASSUME HttpAssumption, ChainInv, CountInv, [Next]_(vars)
  PROVE  CountInv'
  <1>0. IsFiniteSet(Requests) /\ Burst \in [Dimensions -> Nat] /\ used \in [Buckets -> Nat]
    BY Zenon DEF HttpAssumption, Dimensions, ChainInv, HttpTypes
  <1>1. CASE UNCHANGED vars
    BY <1>1 DEF CountInv, Strict, Drawn, Through, Beyond, Bucket, vars
  <1>2. ASSUME NEW q \in Requests, Step(q) \/ Deadline(q) PROVE CountInv'
    <2> SUFFICES ASSUME Strict', NEW b \in Buckets
                 PROVE  Cardinality(Drawn(b)') <= used'[b] /\ used'[b] <= Burst[b[1]]
      BY Zenon DEF CountInv, Buckets
    <2>1. Strict
      BY <1>2, StepFacts, Zenon DEF Strict
    <2>2. /\ Cardinality(Drawn(b)) <= used[b] /\ used[b] <= Burst[b[1]]
          /\ used[b] \in Nat /\ Burst[b[1]] \in Nat /\ Drawn(b) \in SUBSET Requests
      BY <1>0, <2>1, BucketDimension DEF CountInv, Drawn
    <2>3. CASE used'[b] = used[b] /\ Drawn(b)' \subseteq Drawn(b)
      BY <1>0, <2>2, <2>3, Counted
    <2>4. CASE used'[b] = used[b] + 1 /\ used[b] < Burst[b[1]] /\ Drawn(b)' \subseteq Drawn(b) \cup {q}
      <3>1. Cardinality(Drawn(b)') <= used[b] + 1
        BY <1>0, <2>2, <2>4, Counted, Zenon
      <3> QED
        BY <2>2, <2>4, <3>1
    <2> QED
      BY <1>2, <2>1, <2>3, <2>4, OneToken, Zenon
  <1> QED
    BY <1>1, <1>2, Zenon DEF Next, AllDone

(* NothingUngated: no request reaches the service past a gate of the chain,*)
(* and a limiter that does not fail open lets no more through than its     *)
(* bursts, in whatever order requests pass the three buckets.              *)
THEOREM ServiceBehindGatesAndLimits == HttpAssumption => (Spec => []NothingUngated)
  <1>1. ChainInv /\ [Next]_(vars) => ChainInv'
    BY ChainNext, Zenon
  <1>2. ASSUME HttpAssumption PROVE (ChainInv /\ CountInv) /\ [Next]_(vars) => CountInv'
    BY <1>2, CountNext, Zenon
  <1>3. ASSUME HttpAssumption PROVE Init => CountInv
    BY <1>3, CountInit, Zenon
  <1>4. ASSUME ChainInv PROVE GatesBeforeService
    BY <1>4, Zenon DEF ChainInv, Behind, GatesBeforeService, Protected
  <1>5. ASSUME HttpAssumption, ChainInv, CountInv PROVE LimitsHold
    <2> SUFFICES ASSUME Strict
                 PROVE  /\ Cardinality({q \in Requests : ran[q]}) <= Burst.ip
                        /\ \A i \in Inputs : Cardinality({q \in Requests : ran[q] /\ req[q].route = i.route}) <= Burst.api
                        /\ \A u \in Users : Cardinality({q \in Requests : ran[q] /\ subject[q] = u}) <= Burst.user
      BY Zenon DEF LimitsHold, Strict
    <2>1. ASSUME NEW b \in Buckets, NEW S \in SUBSET Requests, S \subseteq Drawn(b)
          PROVE  Cardinality(S) <= Burst[b[1]]
      <3>1. IsFiniteSet(Requests) /\ Burst \in [Dimensions -> Nat] /\ used \in [Buckets -> Nat]
        BY <1>5, Zenon DEF HttpAssumption, Dimensions, ChainInv, HttpTypes
      <3>2. /\ Cardinality(Drawn(b)) <= used[b] /\ used[b] <= Burst[b[1]]
            /\ used[b] \in Nat /\ Burst[b[1]] \in Nat /\ Drawn(b) \in SUBSET Requests
        BY <1>5, <3>1, BucketDimension DEF CountInv, Drawn
      <3>3. Cardinality(S) <= used[b] /\ Cardinality(S) \in Nat
        BY <2>1, <3>1, <3>2, Counted, FS_Subset, FS_CardinalityType
      <3> QED
        BY <3>2, <3>3
    <2>2. Cardinality({q \in Requests : ran[q]}) <= Burst.ip
      <3> DEFINE S == {q \in Requests : ran[q]}
      <3>1. <<"ip", "one">> \in Buckets /\ <<"ip", "one">>[1] = "ip"
        BY Zenon DEF Buckets
      <3>2. S \subseteq Drawn(<<"ip", "one">>)
        BY <3>1, Zenon DEF Drawn, Through, Bucket
      <3> HIDE DEF S
      <3>3. S \in SUBSET Requests
        BY Zenon DEF S
      <3>4. Cardinality(S) <= Burst["ip"]
        BY <2>1, <3>1, <3>2, <3>3
      <3> QED
        BY <3>4 DEF S
    <2>3. ASSUME NEW i \in Inputs PROVE Cardinality({q \in Requests : ran[q] /\ req[q].route = i.route}) <= Burst.api
      <3> DEFINE S == {q \in Requests : ran[q] /\ req[q].route = i.route}
      <3>1. <<"api", i.route>> \in Buckets /\ <<"api", i.route>>[1] = "api"
        BY Zenon DEF Buckets
      <3>2. S \subseteq Drawn(<<"api", i.route>>)
        BY <3>1, Zenon DEF Drawn, Through, Bucket
      <3> HIDE DEF S
      <3>3. S \in SUBSET Requests
        BY Zenon DEF S
      <3>4. Cardinality(S) <= Burst["api"]
        BY <2>1, <3>1, <3>2, <3>3
      <3> QED
        BY <3>4, Zenon DEF S
    <2>4. ASSUME NEW u \in Users PROVE Cardinality({q \in Requests : ran[q] /\ subject[q] = u}) <= Burst.user
      <3> DEFINE S == {q \in Requests : ran[q] /\ subject[q] = u}
      <3>1. <<"user", u>> \in Buckets /\ <<"user", u>>[1] = "user"
        BY Zenon DEF Buckets
      <3>2. S \subseteq Drawn(<<"user", u>>)
        BY <3>1, Zenon DEF Drawn, Through, Bucket
      <3> HIDE DEF S
      <3>3. S \in SUBSET Requests
        BY Zenon DEF S
      <3>4. Cardinality(S) <= Burst["user"]
        BY <2>1, <3>1, <3>2, <3>3
      <3> QED
        BY <3>4, Zenon DEF S
    <2> QED
      BY <2>2, <2>3, <2>4
  <1>6. ASSUME HttpAssumption PROVE ChainInv /\ CountInv => NothingUngated
    BY <1>4, <1>5, <1>6 DEF NothingUngated
  <1> SUFFICES ASSUME HttpAssumption PROVE Spec => []NothingUngated
    BY Zenon
  <1> QED
    BY ChainInit, <1>1, <1>2, <1>3, <1>6, PTL DEF Spec
=============================================================================
