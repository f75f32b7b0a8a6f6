------------------------- MODULE PublicSurfaceProofs -------------------------
(***************************************************************************)
(* What the anonymous reads of PublicSurface serve and what its windows    *)
(* admit, for any clients, tokens, budgets and events and through any      *)
(* steps of the events' lives.                                             *)
(***************************************************************************)
EXTENDS PublicSurface, EventLifecycleProofs

Requests == [route : {"none", "ics", "report", "intake"}, token : Tokens \cup {NoToken},
             ip : Addresses \cup {None}, since : Nat, public : SUBSET Events]

Pending == {"ics-ip", "ip", "verify", "event"}

\* Every variable the reads use has its type, and a minted token its event.
ReadTypes ==
    /\ at \in [Clients -> Pending \cup {"idle"}] /\ req \in [Clients -> Requests]
    /\ DOMAIN claims = Tokens
    /\ \A k \in Tokens : claims[k] # Unminted =>
          claims[k].event \in Events /\ claims[k].exp \in Nat

\* A request under way came before now and remembers every event public since.
RequestKnown(c) ==
    /\ at[c] # "idle" => req[c].since <= now /\ PublicNow \subseteq req[c].public
    /\ at[c] \in {"ics-ip", "verify", "event"} => req[c].token \in Tokens
    /\ at[c] \in {"ics-ip", "ip"} => req[c].ip \in Addresses
    /\ at[c] = "event" =>
          /\ Grant(c) # Unminted /\ Grant(c).purpose = req[c].route
          /\ Grant(c).exp # 0 => req[c].since < Grant(c).exp
          /\ Scoped(Grant(c))

\* The events' invariant, what the requests know, and what was served last.
ReadInv ==
    /\ IInv /\ ReadTypes /\ \A c \in Clients : RequestKnown(c)
    /\ ServedIsGranted /\ ServedWasPublic

-----------------------------------------------------------------------------
(* Time and the events                                                     *)

\* The clock never steps back.
LEMMA ClockGoesOn == ASSUME IInv, Next PROVE now <= now'
<1>1. now \in Nat
  BY DEF IInv, TypeOK
<1>2. (\E p \in Sessions : Step(p) \/ SweepClaim(p) \/ Crash(p)) => now' = now
  BY DEF Step, CreateInsert, CreateFails, CreateCommit, MarkDoneWrite, MarkDoneFails,
     SweepCommit, CascadeCommit, SweepClaim, Crash
<1>3. Verbs => now' = now
  BY DEF Verbs, MarkDoneRead, CreateBegin, CascadeMails, Unpublish, Cancel, Patch, Publish
<1>4. Routes => now' = now
  BY DEF Routes, EditLine, EditStage, PurgeStage, PatchStage
<1>5. QED
  BY <1>1, <1>2, <1>3, <1>4 DEF Next, Tick

-----------------------------------------------------------------------------
(* How a step of a request leaves it                                       *)

\* A request that a step leaves alone knows what it knew, if the clock did not
\* step back, its token's grant stands and no event became public meanwhile.
LEMMA RestKnow ==
    ASSUME ReadInv, NEW c \in Clients, at'[c] = at[c], req'[c] = req[c],
           UNCHANGED vars, \A k \in Tokens : claims[k] # Unminted => claims'[k] = claims[k]
    PROVE  RequestKnown(c)'
<1>1. RequestKnown(c)
  BY DEF ReadInv
<1>2. PublicNow' = PublicNow /\ now' = now
  BY DEF PublicNow, Public, vars, tables
<1>3. at[c] = "event" => Grant(c)' = Grant(c)
  BY <1>1 DEF RequestKnown, Grant
<1>4. Unminted' = Unminted
  BY DEF Unminted
<1>5. QED
  BY <1>1, <1>2, <1>3, <1>4 DEF RequestKnown, Scoped

\* A request ends with an answer that serves nothing.
LEMMA EndsUnserved ==
    ASSUME ReadInv, UNCHANGED <<vars, claims>>, NEW c \in Clients, NEW a, Answer(c, a),
           [a EXCEPT !.client = c].status # "served"
    PROVE  ReadInv'
<1>1. NoRequest \in Requests
  BY DEF NoRequest, Requests
<1>2. at \in [Clients -> Pending \cup {"idle"}] /\ req \in [Clients -> Requests]
  BY DEF ReadInv, ReadTypes
<1>3. /\ at' \in [Clients -> Pending \cup {"idle"}] /\ req' \in [Clients -> Requests]
      /\ at'[c] = "idle" /\ \A d \in Clients : d # c => at'[d] = at[d] /\ req'[d] = req[d]
      /\ answer'.status # "served"
  BY <1>1, <1>2 DEF Answer
<1>4. ReadTypes'
  BY <1>3 DEF ReadInv, ReadTypes, Unminted
<1>5. RequestKnown(c)'
  BY <1>3 DEF RequestKnown
<1>6. \A d \in Clients : RequestKnown(d)'
  BY <1>3, <1>5, RestKnow
<1>7. ServedIsGranted' /\ ServedWasPublic'
  BY <1>3 DEF ServedIsGranted, ServedWasPublic
<1>8. IInv'
  BY StutterKeeps DEF ReadInv
<1>9. QED
  BY <1>4, <1>6, <1>7, <1>8 DEF ReadInv

LEMMA SilentServes == Silent.status # "served"
BY DEF Silent, Plain

\* A request comes in.
LEMMA ArrivesKeeps ==
    ASSUME ReadInv, UNCHANGED <<vars, claims>>, NEW c \in Clients,
           NEW label \in {"ics-ip", "ip", "verify"}, NEW route \in {"ics", "report", "intake"},
           NEW k \in Tokens \cup {NoToken}, NEW i \in Addresses \cup {None},
           label \in {"ics-ip", "verify"} => k \in Tokens,
           label \in {"ics-ip", "ip"} => i \in Addresses,
           Arrives(c, label, route, k, i)
    PROVE  ReadInv'
<1> DEFINE r == [route |-> route, token |-> k, ip |-> i, since |-> now, public |-> PublicNow]
<1>1. r \in Requests /\ now \in Nat
  BY DEF Requests, PublicNow, ReadInv, IInv, TypeOK
<1>2. at \in [Clients -> Pending \cup {"idle"}] /\ req \in [Clients -> Requests]
  BY DEF ReadInv, ReadTypes
<1>3. /\ at' = [at EXCEPT ![c] = label] /\ req' = [req EXCEPT ![c] = r] /\ answer' = Silent
  BY DEF Arrives
<1>4. /\ at' \in [Clients -> Pending \cup {"idle"}] /\ req' \in [Clients -> Requests]
      /\ at'[c] = label /\ req'[c] = r
      /\ \A d \in Clients : d # c => at'[d] = at[d] /\ req'[d] = req[d]
  BY <1>1, <1>2, <1>3 DEF Pending
<1>5. ReadTypes'
  BY <1>4 DEF ReadInv, ReadTypes, Unminted
<1>6. PublicNow' = PublicNow /\ now' = now
  BY DEF PublicNow, Public, vars, tables
<1>7. RequestKnown(c)'
  BY <1>1, <1>4, <1>6 DEF RequestKnown
<1>8. \A d \in Clients : RequestKnown(d)'
  BY <1>4, <1>7, RestKnow
<1>9. ServedIsGranted' /\ ServedWasPublic'
  BY <1>3, SilentServes DEF ServedIsGranted, ServedWasPublic
<1>10. IInv'
  BY StutterKeeps DEF ReadInv
<1>11. QED
  BY <1>5, <1>8, <1>9, <1>10 DEF ReadInv

\* A request goes on, knowing what its next step rests on.
LEMMA GoesKeeps ==
    ASSUME ReadInv, UNCHANGED <<vars, claims>>, NEW c \in Clients, NEW label \in Pending,
           at[c] \in {"ics-ip", "verify"}, label \in {"verify", "event"}, Goes(c, label),
           label = "event" => /\ Grant(c) # Unminted /\ Grant(c).purpose = req[c].route
                              /\ Grant(c).exp # 0 => req[c].since < Grant(c).exp
                              /\ Scoped(Grant(c))
    PROVE  ReadInv'
<1>1. at \in [Clients -> Pending \cup {"idle"}] /\ req \in [Clients -> Requests]
  BY DEF ReadInv, ReadTypes
<1>2. /\ at' \in [Clients -> Pending \cup {"idle"}] /\ req' = req
      /\ at'[c] = label /\ \A d \in Clients : d # c => at'[d] = at[d]
      /\ answer' = Silent
  BY <1>1 DEF Goes
<1>3. ReadTypes'
  BY <1>2 DEF ReadInv, ReadTypes, Unminted
<1>4. PublicNow' = PublicNow /\ now' = now
  BY DEF PublicNow, Public, vars, tables
<1>5. RequestKnown(c)'
  <2>1. RequestKnown(c)
    BY DEF ReadInv
  <2>2. Grant(c)' = Grant(c) /\ Unminted' = Unminted
    BY <1>2 DEF Grant, Unminted
  <2>3. QED
    BY <1>2, <1>4, <2>1, <2>2 DEF RequestKnown, Scoped
<1>6. \A d \in Clients : RequestKnown(d)'
  BY <1>2, <1>5, RestKnow
<1>7. ServedIsGranted' /\ ServedWasPublic'
  BY <1>2, SilentServes DEF ServedIsGranted, ServedWasPublic
<1>8. IInv'
  BY StutterKeeps DEF ReadInv
<1>9. QED
  BY <1>3, <1>6, <1>7, <1>8 DEF ReadInv

-----------------------------------------------------------------------------
(* The steps                                                               *)

\* An answer that names no token serves nothing.
LEMMA UnservedAnswers ==
    /\ \A c, k, u : [Throttled(k, u) EXCEPT !.client = c].status # "served"
    /\ \A c : /\ [Plain("refused") EXCEPT !.client = c].status # "served"
              /\ [Plain("register") EXCEPT !.client = c].status # "served"
<1>1. \A c, k, u : [Throttled(k, u) EXCEPT !.client = c].status = "throttled"
  BY DEF Throttled, Plain
<1>2. \A c : /\ [Plain("refused") EXCEPT !.client = c].status = "refused"
             /\ [Plain("register") EXCEPT !.client = c].status = "register"
  BY DEF Plain
<1>3. QED
  BY <1>1, <1>2

\* The windows of the feed, and a report's arrival.
LEMMA FeedKeeps ==
    ASSUME ReadInv, UNCHANGED vars, NEW c \in Clients,
           \/ \E k \in Tokens : \/ ReportBegin(c, k)
                                \/ \E i \in Addresses, u \in Readings : IcsToken(c, k, i, u)
           \/ \E u \in Readings : IcsAddress(c, u)
    PROVE  ReadInv'
<1>1. ASSUME NEW k \in Tokens, ReportBegin(c, k) PROVE ReadInv'
  BY <1>1, ArrivesKeeps DEF ReportBegin
<1>2. ASSUME NEW k \in Tokens, NEW i \in Addresses, NEW u \in Readings, IcsToken(c, k, i, u)
      PROVE  ReadInv'
  <2>1. UNCHANGED claims
    BY <1>2 DEF IcsToken
  <2>2. CASE Arrives(c, "ics-ip", "ics", k, i)
    BY <2>1, <2>2, ArrivesKeeps
  <2>3. CASE Answer(c, Throttled(<<"ics-token", k>>, u))
    BY <2>1, <2>3, EndsUnserved, UnservedAnswers
  <2>4. QED
    BY <1>2, <2>2, <2>3 DEF IcsToken
<1>3. ASSUME NEW u \in Readings, IcsAddress(c, u) PROVE ReadInv'
  <2>1. UNCHANGED claims /\ at[c] = "ics-ip" /\ "verify" \in Pending
    BY <1>3 DEF IcsAddress, Pending
  <2>2. CASE Goes(c, "verify")
    BY <2>1, <2>2, GoesKeeps
  <2>3. CASE Answer(c, Throttled(<<"ics-ip", req[c].ip>>, u))
    BY <2>1, <2>3, EndsUnserved, UnservedAnswers
  <2>4. QED
    BY <1>3, <2>2, <2>3 DEF IcsAddress
<1>4. QED
  BY <1>1, <1>2, <1>3

\* The arms of the intake form.
LEMMA IntakeKeeps ==
    ASSUME ReadInv, UNCHANGED vars, NEW c \in Clients, NEW u \in Readings,
           IntakeAddress(c, u) \/ \E d \in Identities, i \in Addresses : IntakeIdentity(c, d, i, u)
    PROVE  ReadInv'
<1>1. CASE IntakeAddress(c, u)
  <2>1. UNCHANGED claims
    BY <1>1 DEF IntakeAddress
  <2>2. \/ Answer(c, Plain("register"))
        \/ Answer(c, Throttled(<<"ip", req[c].ip>>, u))
    BY <1>1 DEF IntakeAddress
  <2>3. QED
    BY <2>1, <2>2, EndsUnserved, UnservedAnswers
<1>2. ASSUME NEW d \in Identities, NEW i \in Addresses, IntakeIdentity(c, d, i, u)
      PROVE  ReadInv'
  <2>1. UNCHANGED claims
    BY <1>2 DEF IntakeIdentity
  <2>2. CASE Arrives(c, "ip", "intake", NoToken, i)
    BY <2>1, <2>2, ArrivesKeeps
  <2>3. CASE Answer(c, Throttled(<<"identity", d>>, u))
    BY <2>1, <2>3, EndsUnserved, UnservedAnswers
  <2>4. QED
    BY <1>2, <2>2, <2>3 DEF IntakeIdentity
<1>3. QED
  BY <1>1, <1>2

\* verify_capability and the slot behind it.
LEMMA VerifyKeeps ==
    ASSUME ReadInv, UNCHANGED vars, NEW c \in Clients, Verify(c)
    PROVE  ReadInv'
<1>1. at[c] = "verify" /\ UNCHANGED claims /\ "event" \in Pending
  BY DEF Verify, Pending
<1>2. CASE Refuse(c)
  BY <1>1, <1>2, EndsUnserved, UnservedAnswers DEF Refuse
<1>3. CASE Verifies(req[c].token, req[c].route) /\ Scoped(Grant(c)) /\ Goes(c, "event")
  <2>1. /\ Grant(c) # Unminted /\ Grant(c).purpose = req[c].route
        /\ Grant(c).exp # 0 => now < Grant(c).exp
    BY <1>3 DEF Verifies, Grant
  <2>2. req[c].since <= now
    BY <1>1 DEF ReadInv, RequestKnown
  <2>3. /\ req[c].token \in Tokens /\ req[c].since \in Nat /\ now \in Nat
        /\ Grant(c).exp \in Nat
    BY <1>1, <2>1 DEF ReadInv, RequestKnown, ReadTypes, Requests, Grant, IInv, TypeOK
  <2>4. Grant(c).exp # 0 => req[c].since < Grant(c).exp
    BY <2>1, <2>2, <2>3
  <2>5. QED
    BY <1>1, <1>3, <2>1, <2>4, GoesKeeps
<1>4. QED
  BY <1>2, <1>3 DEF Verify

\* find_published, and the answer built from the row it read.
LEMMA FindKeeps ==
    ASSUME ReadInv, UNCHANGED vars, NEW c \in Clients, FindPublished(c)
    PROVE  ReadInv'
<1>1. at[c] = "event" /\ UNCHANGED claims
  BY DEF FindPublished
<1>2. CASE Refuse(c)
  BY <1>1, <1>2, EndsUnserved, UnservedAnswers DEF Refuse
<1> DEFINE a == [Plain("served") EXCEPT !.route = req[c].route, !.token = req[c].token,
                                         !.since = req[c].since, !.public = req[c].public,
                                         !.rows = PinnedRows(Grant(c))]
<1>3. CASE Public(Grant(c).event) /\ Answer(c, a)
  <2>1. /\ Grant(c) # Unminted /\ Grant(c).purpose = req[c].route
        /\ Grant(c).exp # 0 => req[c].since < Grant(c).exp
        /\ Scoped(Grant(c)) /\ PublicNow \subseteq req[c].public /\ req[c].token \in Tokens
    BY <1>1 DEF ReadInv, RequestKnown
  <2>2. Grant(c).event \in Events
    BY <2>1 DEF ReadInv, ReadTypes, Grant
  <2>3. Grant(c).event \in req[c].public
    BY <1>3, <2>1, <2>2 DEF PublicNow
  <2>4. LET b == [a EXCEPT !.client = c] IN
            /\ b.status = "served" /\ b.route = req[c].route /\ b.token = req[c].token
            /\ b.since = req[c].since /\ b.public = req[c].public
            /\ b.rows = PinnedRows(Grant(c))
    BY DEF Plain
  <2>5. answer' = [a EXCEPT !.client = c]
    BY <1>3 DEF Answer
  <2> HIDE DEF a
  <2>6. /\ answer'.route = req[c].route /\ answer'.token = req[c].token
        /\ answer'.since = req[c].since /\ answer'.public = req[c].public
        /\ answer'.rows = PinnedRows(Grant(c))
    BY <2>4, <2>5
  <2>7. claims'[answer'.token] = Grant(c)
    BY <1>1, <2>6 DEF Grant
  <2>8. ServedIsGranted'
    <3>1. \A r \in answer'.rows : r \in Grant(c).regs /\ RegEvent[r] = Grant(c).event
      BY <2>6 DEF PinnedRows
    <3>2. QED
      BY <2>1, <2>6, <2>7, <3>1 DEF ServedIsGranted, Scoped
  <2>9. ServedWasPublic'
    BY <2>3, <2>6, <2>7 DEF ServedWasPublic
  <2>10. NoRequest \in Requests
    BY DEF NoRequest, Requests
  <2>11. at \in [Clients -> Pending \cup {"idle"}] /\ req \in [Clients -> Requests]
    BY DEF ReadInv, ReadTypes
  <2>12. /\ at' \in [Clients -> Pending \cup {"idle"}] /\ req' \in [Clients -> Requests]
         /\ at'[c] = "idle" /\ \A d \in Clients : d # c => at'[d] = at[d] /\ req'[d] = req[d]
    BY <1>3, <2>10, <2>11 DEF Answer
  <2>13. ReadTypes'
    BY <1>1, <2>12 DEF ReadInv, ReadTypes, Unminted
  <2>14. RequestKnown(c)'
    BY <2>12 DEF RequestKnown
  <2>15. \A d \in Clients : RequestKnown(d)'
    BY <1>1, <2>12, <2>14, RestKnow
  <2>16. IInv'
    BY StutterKeeps DEF ReadInv
  <2>17. QED
    BY <2>8, <2>9, <2>13, <2>15, <2>16 DEF ReadInv
<1>4. QED
  BY <1>2, <1>3 DEF FindPublished

\* A token is minted once.
LEMMA MintKeeps ==
    ASSUME ReadInv, UNCHANGED vars, Mint
    PROVE  ReadInv'
<1>1. PICK k \in Tokens, e \in Granted :
          \/ \E s \in Slots \cup {NoSlot} : MintIcs(k, e, s)
          \/ \E R \in SUBSET Regs : MintReport(k, e, R)
  BY DEF Mint
<1>9. /\ claims[k] = Unminted /\ answer' = Silent /\ UNCHANGED <<at, req>>
      /\ \E g : claims' = [claims EXCEPT ![k] = g] /\ g.event \in Events /\ g.exp \in Nat
  <2>1. now + Ttl \in Nat /\ e \in Events
    BY PublicSurfaceAssumption DEF ReadInv, IInv, TypeOK
  <2>2. ASSUME NEW s, MintIcs(k, e, s)
        PROVE  /\ claims[k] = Unminted /\ answer' = Silent /\ UNCHANGED <<at, req>>
               /\ \E g : claims' = [claims EXCEPT ![k] = g] /\ g.event \in Events /\ g.exp \in Nat
    <3> DEFINE g == [purpose |-> "ics", event |-> e, slot |-> s, regs |-> {}, exp |-> now + Ttl]
    <3>1. claims' = [claims EXCEPT ![k] = g] /\ g.event \in Events /\ g.exp \in Nat
      BY <2>1, <2>2 DEF MintIcs
    <3> HIDE DEF g
    <3>2. QED
      BY <2>2, <3>1 DEF MintIcs
  <2>3. ASSUME NEW R, MintReport(k, e, R)
        PROVE  /\ claims[k] = Unminted /\ answer' = Silent /\ UNCHANGED <<at, req>>
               /\ \E g : claims' = [claims EXCEPT ![k] = g] /\ g.event \in Events /\ g.exp \in Nat
    <3> DEFINE g == [purpose |-> "report", event |-> e, slot |-> NoSlot, regs |-> R, exp |-> 0]
    <3>1. claims' = [claims EXCEPT ![k] = g] /\ g.event \in Events /\ g.exp \in Nat
      BY <2>1, <2>3 DEF MintReport
    <3> HIDE DEF g
    <3>2. QED
      BY <2>3, <3>1 DEF MintReport
  <2>4. QED
    BY <1>1, <2>2, <2>3
<1>10. PICK g : claims' = [claims EXCEPT ![k] = g] /\ g.event \in Events /\ g.exp \in Nat
  BY <1>9
<1>2. DOMAIN claims = Tokens
  BY DEF ReadInv, ReadTypes
<1>3. /\ DOMAIN claims' = Tokens /\ claims'[k] = g
      /\ \A l \in Tokens : l # k => claims'[l] = claims[l]
  BY <1>2, <1>10
<1>4. ReadTypes'
  BY <1>3, <1>9, <1>10 DEF ReadInv, ReadTypes, Unminted
<1>5. \A c \in Clients : RequestKnown(c)'
  BY <1>3, <1>9, RestKnow
<1>6. ServedIsGranted' /\ ServedWasPublic'
  BY <1>9, SilentServes DEF ServedIsGranted, ServedWasPublic
<1>7. IInv'
  BY StutterKeeps DEF ReadInv
<1>8. QED
  BY <1>4, <1>5, <1>6, <1>7 DEF ReadInv

\* The events go on living beside the requests.
LEMMA LifeKeeps == ASSUME ReadInv, Life PROVE ReadInv'
<1>1. /\ Next /\ answer' = Silent /\ UNCHANGED <<claims, at>>
      /\ req' = [c \in Clients |-> IF at[c] = "idle" THEN req[c]
                                   ELSE [req[c] EXCEPT !.public = @ \cup PublicNow']]
  BY DEF Life
<1>2. IInv' /\ now <= now' /\ now \in Nat /\ now' \in Nat
  <2>1. IInv'
    BY <1>1, NextInv DEF ReadInv
  <2>2. QED
    BY <1>1, <2>1, ClockGoesOn DEF ReadInv, IInv, TypeOK
<1>3. req \in [Clients -> Requests] /\ at \in [Clients -> Pending \cup {"idle"}]
  BY DEF ReadInv, ReadTypes
<1>4. PublicNow' \subseteq Events
  BY DEF PublicNow
<1>5. \A c \in Clients :
          /\ req'[c] \in Requests /\ req'[c].route = req[c].route
          /\ req'[c].token = req[c].token /\ req'[c].since = req[c].since
          /\ req'[c].ip = req[c].ip
          /\ at[c] # "idle" => PublicNow' \subseteq req'[c].public
  <2>1. \A x \in Requests : LET y == [x EXCEPT !.public = @ \cup PublicNow'] IN
            /\ y \in Requests /\ y.route = x.route /\ y.token = x.token /\ y.since = x.since
            /\ y.ip = x.ip /\ PublicNow' \subseteq y.public
    BY <1>4 DEF Requests
  <2>2. QED
    BY <1>1, <1>3, <2>1
<1>6. ReadTypes'
  BY <1>1, <1>3, <1>5 DEF ReadInv, ReadTypes, Unminted
<1>7. ASSUME NEW c \in Clients PROVE RequestKnown(c)'
  <2>1. RequestKnown(c) /\ req[c].since \in Nat
    BY <1>3 DEF ReadInv, Requests
  <2>2. at[c] # "idle" => req'[c].since <= now' /\ PublicNow' \subseteq req'[c].public
    BY <1>2, <1>5, <2>1 DEF RequestKnown
  <2>3. Grant(c)' = Grant(c) /\ Unminted' = Unminted
    BY <1>1, <1>5 DEF Grant, Unminted
  <2>4. QED
    BY <1>1, <1>5, <2>1, <2>2, <2>3 DEF RequestKnown, Scoped
<1>8. ServedIsGranted' /\ ServedWasPublic'
  BY <1>1, SilentServes DEF ServedIsGranted, ServedWasPublic
<1>9. QED
  BY <1>2, <1>6, <1>7, <1>8 DEF ReadInv

-----------------------------------------------------------------------------
(* The theorems                                                            *)

LEMMA InitReads == PublicInit => ReadInv
<1> SUFFICES ASSUME PublicInit PROVE ReadInv
  OBVIOUS
<1>1. IInv
  BY InitInv DEF PublicInit
<1>2. NoRequest \in Requests
  BY DEF NoRequest, Requests
<1>3. ReadTypes
  BY <1>2 DEF PublicInit, ReadTypes
<1>4. \A c \in Clients : RequestKnown(c)
  BY DEF PublicInit, RequestKnown
<1>5. ServedIsGranted /\ ServedWasPublic
  BY SilentServes DEF PublicInit, ServedIsGranted, ServedWasPublic
<1>6. QED
  BY <1>1, <1>3, <1>4, <1>5 DEF ReadInv

LEMMA NextReads == ASSUME ReadInv, [PublicNext]_allVars PROVE ReadInv'
<1>1. CASE UNCHANGED allVars
  <2>1. IInv'
    BY <1>1, StutterKeeps DEF ReadInv, allVars
  <2>2. ReadTypes'
    BY <1>1 DEF ReadInv, ReadTypes, Unminted, allVars
  <2>3. \A c \in Clients : RequestKnown(c)'
    BY <1>1, RestKnow DEF allVars
  <2>4. ServedIsGranted' /\ ServedWasPublic'
    BY <1>1 DEF ReadInv, ServedIsGranted, ServedWasPublic, allVars
  <2>5. QED
    BY <2>1, <2>2, <2>3, <2>4 DEF ReadInv
<1>2. CASE Request
  <2>1. UNCHANGED vars
    BY <1>2 DEF Request
  <2>2. ASSUME NEW c \in Clients, Begin(c) \/ Continue(c) PROVE ReadInv'
    BY <2>1, <2>2, FeedKeeps, IntakeKeeps, VerifyKeeps, FindKeeps DEF Begin, Continue
  <2>3. QED
    BY <1>2, <2>1, <2>2, MintKeeps DEF Request
<1>3. QED
  BY <1>1, <1>2, LifeKeeps DEF PublicNext

\* What the anonymous reads rest on holds through every interleaving of
\* requests, mints and steps of the events' lives.
THEOREM ReadSafety == PublicSpec => []ReadInv
<1>1. ReadInv /\ [PublicNext]_allVars => ReadInv'
  BY NextReads
<1>2. QED
  BY <1>1, InitReads, PTL DEF PublicSpec

\* public_routes.rs serves a capability what it grants and no more, although
\* it is verified, scoped and resolved at three different steps.
THEOREM ServesTheGrant == PublicSpec => []ServedIsGranted
<1>1. ReadInv => ServedIsGranted
  BY DEF ReadInv
<1>2. QED
  BY <1>1, ReadSafety, PTL

\* It serves no event that was hidden from before the request until its end:
\* every read goes by find_published.
THEOREM ServesThePublic == PublicSpec => []ServedWasPublic
<1>1. ReadInv => ServedWasPublic
  BY DEF ReadInv
<1>2. QED
  BY <1>1, ReadSafety, PTL

-----------------------------------------------------------------------------
(* The windows                                                             *)

\* A window starts no later than now and counts no more than it may; a key
\* without a window has had no hit.
WindowOK(k) ==
    /\ windows[k].start <= now /\ windows[k].count <= HitsMax[k[1]]
    /\ windows[k].count <= Len(hits[k])
    /\ windows[k] = NoWindow \/ HitsMax[k[1]] = 0 => hits[k] = <<>>

\* Of the hits of a key, the last ones are its window's own and came after its
\* start; the others read a clock before that start, and all but a window's
\* worth of them read it a window's length before.
HitsPlaced(k) ==
    LET w == windows[k]
        n == Len(hits[k])
    IN
    \A i \in 1..n :
        /\ hits[k][i] <= now /\ hits[k][i] < w.start + Window + Lag
        /\ i > n - w.count => hits[k][i] >= w.start
        /\ i <= n - w.count => hits[k][i] < w.start + Lag
        /\ i <= n - w.count - HitsMax[k[1]] => hits[k][i] + Window < w.start + Lag

WindowTypes ==
    /\ windows \in [Keys -> [start : Nat, count : Nat]] /\ hits \in [Keys -> Seq(Nat)]

\* BurstsAreBounded of one key.
Bounded(k) ==
    LET most == 2 * HitsMax[k[1]] IN
    \A i \in 1..Len(hits[k]) - most : hits[k][i] + Window < hits[k][i + most] + Lag

\* What the windows rely on, and the last refusal.
WindowInv ==
    /\ WindowTypes /\ \A k \in Keys : WindowOK(k) /\ HitsPlaced(k) /\ Bounded(k)
    /\ RefusedIsOverBudget

\* The window a hit falls in: it has not run out at the hit's reading of the
\* clock, and every earlier hit is where the window's start says.
LEMMA OpenedWindow ==
    ASSUME WindowInv, now \in Nat, NEW k \in Keys, NEW u \in Readings
    PROVE  LET w == Opened(k, u)
               n == Len(hits[k])
               max == HitsMax[k[1]]
           IN  /\ w \in [start : Nat, count : Nat] /\ w # NoWindow
               /\ u \in Nat /\ u <= now /\ now <= u + Lag /\ u < w.start + Window
               /\ w.start <= now /\ w.count <= max /\ w.count <= n
               /\ max = 0 => hits[k] = <<>>
               /\ \A i \in 1..n :
                     /\ hits[k][i] <= now /\ hits[k][i] < w.start + Window + Lag
                     /\ i > n - w.count => hits[k][i] >= w.start
                     /\ i <= n - w.count => hits[k][i] < w.start + Lag
                     /\ i <= n - w.count - max => hits[k][i] + Window < w.start + Lag
<1> DEFINE w == Opened(k, u)
           n == Len(hits[k])
           max == HitsMax[k[1]]
<1>1. /\ windows[k] \in [start : Nat, count : Nat] /\ hits[k] \in Seq(Nat) /\ n \in Nat
      /\ WindowOK(k) /\ HitsPlaced(k)
  BY DEF WindowInv, WindowTypes
<1>2. max \in Nat /\ Window \in Nat /\ Window > 0 /\ Lag \in Nat
  BY PublicSurfaceAssumption DEF Keys, Arms
<1>3. u \in Nat /\ u >= 1 /\ u <= now /\ now <= u + Lag
  BY <1>2 DEF Readings
<1>4. CASE w = windows[k] /\ windows[k] # NoWindow /\ ~(u >= windows[k].start + Window)
  BY <1>1, <1>2, <1>3, <1>4 DEF WindowOK, HitsPlaced
<1>5. CASE w = [start |-> u, count |-> 0]
          /\ (windows[k] = NoWindow \/ u >= windows[k].start + Window)
  <2>1. w \in [start : Nat, count : Nat] /\ w.start = u /\ w.count = 0 /\ w # NoWindow
    BY <1>3, <1>5 DEF NoWindow
  <2>2. max = 0 => hits[k] = <<>>
    BY <1>1 DEF WindowOK
  <2>3. CASE windows[k] = NoWindow
    <3>1. hits[k] = <<>> /\ n = 0
      BY <1>1, <2>3 DEF WindowOK
    <3> HIDE DEF w, n
    <3>2. QED
      BY <1>2, <1>3, <2>1, <2>2, <3>1 DEF n, w
  <2>4. CASE u >= windows[k].start + Window
    <3>1. ASSUME NEW i \in 1..n
          PROVE  /\ hits[k][i] \in Nat /\ hits[k][i] <= now /\ hits[k][i] < u + Lag
                 /\ i <= n - max => hits[k][i] + Window < u + Lag
      <4>1. hits[k][i] \in Nat
        BY <1>1
      <4>2. /\ windows[k].start \in Nat /\ windows[k].count \in Nat /\ windows[k].count <= max
            /\ hits[k][i] <= now /\ hits[k][i] < windows[k].start + Window + Lag
            /\ i <= n - windows[k].count => hits[k][i] < windows[k].start + Lag
        BY <1>1 DEF WindowOK, HitsPlaced
      <4> DEFINE x == hits[k][i]
                 s == windows[k].start
                 c == windows[k].count
      <4>3. /\ x \in Nat /\ s \in Nat /\ c \in Nat /\ c <= max /\ u >= s + Window
            /\ x <= now /\ x < s + Window + Lag /\ (i <= n - c => x < s + Lag)
        BY <2>4, <4>1, <4>2
      <4>4. n \in Nat /\ i \in Nat
        BY <1>1
      <4> HIDE DEF n, max, x, s, c
      <4>5. x < u + Lag /\ (i <= n - max => x + Window < u + Lag)
        BY <1>2, <1>3, <4>3, <4>4
      <4>6. QED
        BY <4>3, <4>5 DEF x
    <3>2. n \in Nat /\ w.count <= n
      BY <1>1, <2>1
    <3>3. max \in Nat /\ w.count <= max /\ u < w.start + Window /\ w.start <= now
      BY <1>2, <1>3, <2>1
    <3> HIDE DEF w, n, max
    <3>4. \A i \in 1..n : ~(i > n - w.count) /\ n - w.count - max = n - max
      BY <2>1, <3>2, <3>3
    <3>5. \A i \in 1..n :
              /\ hits[k][i] <= now /\ hits[k][i] < w.start + Window + Lag
              /\ i > n - w.count => hits[k][i] >= w.start
              /\ i <= n - w.count => hits[k][i] < w.start + Lag
              /\ i <= n - w.count - max => hits[k][i] + Window < w.start + Lag
      BY <1>2, <1>3, <2>1, <3>1, <3>4
    <3>6. QED
      BY <1>3, <2>1, <2>2, <3>2, <3>3, <3>5 DEF n, w, max
  <2>5. QED
    BY <1>5, <2>3, <2>4
<1>6. QED
  BY <1>4, <1>5 DEF Opened

\* One hit of a key leaves its window and its history as they must be.
LEMMA HitKeeps ==
    ASSUME WindowInv, now \in Nat, now' = now, NEW k \in Keys, NEW u \in Readings, Hit(k, u)
    PROVE  WindowTypes' /\ \A l \in Keys : WindowOK(l)' /\ HitsPlaced(l)' /\ Bounded(l)'
<1> DEFINE w == Opened(k, u)
           v == IF Admits(k, u) THEN [w EXCEPT !.count = @ + 1] ELSE w
           h == IF Admits(k, u) THEN Append(hits[k], now) ELSE hits[k]
           n == Len(hits[k])
           max == HitsMax[k[1]]
<1>1. /\ windows \in [Keys -> [start : Nat, count : Nat]] /\ hits \in [Keys -> Seq(Nat)]
      /\ hits[k] \in Seq(Nat) /\ n \in Nat
  BY DEF WindowInv, WindowTypes
<1>2. max \in Nat /\ Window \in Nat /\ Window > 0 /\ Lag \in Nat
  BY PublicSurfaceAssumption DEF Keys, Arms
<1>3. /\ w \in [start : Nat, count : Nat] /\ w # NoWindow
      /\ u \in Nat /\ u <= now /\ now <= u + Lag /\ u < w.start + Window
      /\ w.start <= now /\ w.count <= max /\ w.count <= n
      /\ max = 0 => hits[k] = <<>>
      /\ \A i \in 1..n :
            /\ hits[k][i] <= now /\ hits[k][i] < w.start + Window + Lag
            /\ i > n - w.count => hits[k][i] >= w.start
            /\ i <= n - w.count => hits[k][i] < w.start + Lag
            /\ i <= n - w.count - max => hits[k][i] + Window < w.start + Lag
  BY OpenedWindow
<1>4. windows' = [windows EXCEPT ![k] = v] /\ hits' = [hits EXCEPT ![k] = h]
  BY <1>1 DEF Hit
<1>5. Bounded(k)
  BY DEF WindowInv
<1>6. Admits(k, u) = (w.count < max)
  BY DEF Admits
<1> HIDE DEF w
<1>7. v \in [start : Nat, count : Nat] /\ h \in Seq(Nat) /\ v.start = w.start
  <2>1. Append(hits[k], now) \in Seq(Nat)
    BY <1>1
  <2>2. [w EXCEPT !.count = @ + 1] \in [start : Nat, count : Nat]
    BY <1>3
  <2>3. [w EXCEPT !.count = @ + 1].start = w.start
    BY <1>3
  <2>4. QED
    BY <1>1, <1>3, <2>1, <2>2, <2>3
<1>8. /\ windows' \in [Keys -> [start : Nat, count : Nat]] /\ hits' \in [Keys -> Seq(Nat)]
      /\ windows'[k] = v /\ hits'[k] = h
      /\ \A l \in Keys : l # k => windows'[l] = windows[l] /\ hits'[l] = hits[l]
  BY <1>1, <1>4, <1>7
<1>9. ASSUME NEW l \in Keys, l # k PROVE WindowOK(l)' /\ HitsPlaced(l)' /\ Bounded(l)'
  <2>1. windows'[l] = windows[l] /\ hits'[l] = hits[l] /\ NoWindow' = NoWindow
    BY <1>8, <1>9 DEF NoWindow
  <2>2. WindowOK(l) /\ HitsPlaced(l) /\ Bounded(l)
    BY DEF WindowInv
  <2>3. QED
    BY <2>1, <2>2 DEF WindowOK, HitsPlaced, Bounded
<1>10. WindowOK(k)' /\ HitsPlaced(k)' /\ Bounded(k)'
  <2>1. CASE ~Admits(k, u)
    <3>1. v = w /\ h = hits[k]
      BY <2>1
    <3>2. windows'[k] = w /\ hits'[k] = hits[k] /\ NoWindow' = NoWindow
      BY <1>8, <3>1 DEF NoWindow
    <3>3. WindowOK(k)'
      BY <1>3, <3>2 DEF WindowOK
    <3>4. HitsPlaced(k)'
      BY <1>3, <3>2 DEF HitsPlaced
    <3>5. Bounded(k)'
      BY <1>5, <3>2 DEF Bounded
    <3>6. QED
      BY <3>3, <3>4, <3>5
  <2>2. CASE Admits(k, u)
    <3>1. /\ windows'[k].start = w.start /\ windows'[k].count = w.count + 1
          /\ Len(hits'[k]) = n + 1 /\ hits'[k][n + 1] = now
          /\ \A i \in 1..n : hits'[k][i] = hits[k][i] /\ hits[k][i] \in Nat
      <4>1. windows'[k] = [w EXCEPT !.count = @ + 1] /\ hits'[k] = Append(hits[k], now)
        BY <1>8, <2>2
      <4>2. windows'[k].start = w.start /\ windows'[k].count = w.count + 1
        BY <1>3, <4>1
      <4>3. QED
        BY <1>1, <4>1, <4>2
    <3>2. w.count \in Nat /\ w.start \in Nat /\ w.count < max
      BY <1>3, <1>6, <2>2
    <3>3. \A i \in 1..(n + 1) : i = n + 1 \/ i \in 1..n
      BY <1>1
    <3>4. windows'[k] # NoWindow'
      BY <3>1, <3>2 DEF NoWindow
    <3> HIDE DEF n, max
    <3>5. WindowOK(k)'
      <4>1. w.count + 1 <= max /\ w.count + 1 <= n + 1 /\ max # 0
        BY <1>1, <1>2, <1>3, <3>2
      <4>2. QED
        BY <1>3, <3>1, <3>4, <4>1 DEF WindowOK, max
    <3>6. HitsPlaced(k)'
      <4>1. ASSUME NEW i \in 1..n
            PROVE  /\ hits'[k][i] <= now /\ hits'[k][i] < w.start + Window + Lag
                   /\ i > (n + 1) - (w.count + 1) => hits'[k][i] >= w.start
                   /\ i <= (n + 1) - (w.count + 1) => hits'[k][i] < w.start + Lag
                   /\ i <= (n + 1) - (w.count + 1) - max => hits'[k][i] + Window < w.start + Lag
        <5> DEFINE x == hits[k][i]
                   s == w.start
                   c == w.count
        <5>1. /\ x \in Nat /\ s \in Nat /\ c \in Nat /\ x <= now /\ x < s + Window + Lag
              /\ (i > n - c => x >= s) /\ (i <= n - c => x < s + Lag)
              /\ (i <= n - c - max => x + Window < s + Lag)
          BY <1>3, <3>1, <3>2
        <5>2. hits'[k][i] = x
          BY <3>1
        <5> HIDE DEF x, s, c
        <5>3. (n + 1) - (c + 1) = n - c
          BY <1>1, <5>1
        <5>4. QED
          BY <5>1, <5>2, <5>3 DEF s, c
      <4>2. /\ now < w.start + Window + Lag /\ ~(n + 1 <= (n + 1) - (w.count + 1))
            /\ ~(n + 1 <= (n + 1) - (w.count + 1) - max)
        <5> DEFINE s == w.start
                   c == w.count
        <5>1. /\ s \in Nat /\ c \in Nat /\ c <= n /\ u \in Nat /\ now <= u + Lag
              /\ u < s + Window /\ (n + 1) - (c + 1) = n - c
          BY <1>1, <1>3, <3>2
        <5> HIDE DEF s, c
        <5>2. now < s + Window + Lag /\ ~(n + 1 <= n - c) /\ ~(n + 1 <= n - c - max)
          BY <1>1, <1>2, <5>1
        <5>3. QED
          BY <5>1, <5>2 DEF s, c
      <4>3. QED
        BY <1>3, <3>1, <3>3, <4>1, <4>2 DEF HitsPlaced, max
    <3>7. Bounded(k)'
      <4>1. ASSUME NEW i \in 1..((n + 1) - 2 * max)
            PROVE  hits'[k][i] + Window < hits'[k][i + 2 * max] + Lag
        <5>1. i \in 1..n /\ i \in Nat /\ i >= 1 /\ i <= (n + 1) - 2 * max
          BY <1>1, <1>2, <3>2
        <5>2. CASE i <= n - 2 * max
          <6>1. i \in 1..n - 2 * max /\ i + 2 * max \in 1..n
            BY <1>1, <1>2, <5>1, <5>2
          <6>2. hits[k][i] + Window < hits[k][i + 2 * max] + Lag
            BY <1>5, <6>1 DEF Bounded, n, max
          <6>3. QED
            BY <3>1, <5>1, <6>1, <6>2
        <5>3. CASE i = (n + 1) - 2 * max
          <6>1. i <= n - w.count - max /\ i + 2 * max = n + 1
            BY <1>1, <1>2, <3>2, <5>3
          <6>2. hits[k][i] + Window < w.start + Lag
            BY <1>3, <5>1, <6>1
          <6>3. /\ hits'[k][i] = hits[k][i] /\ hits'[k][i + 2 * max] = now
                /\ hits[k][i] \in Nat /\ w.start <= now
            BY <1>3, <3>1, <5>1, <6>1
          <6>4. QED
            BY <1>2, <3>2, <6>2, <6>3
        <5>4. QED
          BY <1>1, <1>2, <5>1, <5>2, <5>3
      <4>2. QED
        BY <3>1, <4>1 DEF Bounded, max
    <3>8. QED
      BY <3>5, <3>6, <3>7
  <2>3. QED
    BY <2>1, <2>2
<1>11. QED
  BY <1>8, <1>9, <1>10 DEF WindowTypes

\* A hit that is refused finds a window that admitted all it may and has not
\* run out.
LEMMA RefusalEarned ==
    ASSUME WindowInv, now \in Nat, NEW k \in Keys, NEW u \in Readings, Hit(k, u),
           ~Admits(k, u), answer'.key = k, answer'.since = u
    PROVE  RefusedIsOverBudget'
<1> DEFINE n == Len(hits[k])
           max == HitsMax[k[1]]
           w == Opened(k, u)
<1>1. hits[k] \in Seq(Nat) /\ n \in Nat /\ k \in DOMAIN hits
  BY DEF WindowInv, WindowTypes
<1>2. max \in Nat /\ Window \in Nat
  BY PublicSurfaceAssumption DEF Keys, Arms
<1>3. hits'[k] = hits[k]
  BY <1>1 DEF Hit
<1>4. /\ w.start \in Nat /\ w.count \in Nat /\ u \in Nat /\ u < w.start + Window
      /\ w.count <= max /\ w.count <= n
      /\ \A i \in 1..n : i > n - w.count => hits[k][i] >= w.start
  BY OpenedWindow
<1>5. ~(w.count < max)
  BY DEF Admits
<1> HIDE DEF w, n, max
<1>6. max <= n /\ w.count = max
  BY <1>1, <1>2, <1>4, <1>5
<1>7. ASSUME max > 0 PROVE u < hits[k][n - max + 1] + Window
  <2>1. n - max + 1 \in 1..n /\ n - max + 1 > n - w.count
    BY <1>1, <1>2, <1>6, <1>7
  <2>2. hits[k][n - max + 1] \in Nat /\ hits[k][n - max + 1] >= w.start
    BY <1>1, <1>4, <2>1 DEF n
  <2>3. QED
    BY <1>2, <1>4, <2>2
<1>8. QED
  BY <1>3, <1>6, <1>7 DEF RefusedIsOverBudget, n, max

\* A step with no hit in it, which refuses nobody, leaves the windows be.
LEMMA NoHitKeeps ==
    ASSUME WindowInv, now \in Nat, now' \in Nat, now <= now', UNCHANGED <<windows, hits>>,
           answer'.status # "throttled"
    PROVE  WindowInv'
<1>1. WindowTypes' /\ RefusedIsOverBudget'
  BY DEF WindowInv, WindowTypes, RefusedIsOverBudget
<1>2. ASSUME NEW k \in Keys PROVE WindowOK(k)' /\ HitsPlaced(k)' /\ Bounded(k)'
  <2>1. WindowOK(k) /\ HitsPlaced(k) /\ Bounded(k)
    BY DEF WindowInv
  <2>2. /\ windows[k] \in [start : Nat, count : Nat] /\ hits[k] \in Seq(Nat)
        /\ \A i \in 1..Len(hits[k]) : hits[k][i] \in Nat
    BY DEF WindowInv, WindowTypes
  <2>3. WindowOK(k)'
    BY <2>1, <2>2 DEF WindowOK, NoWindow
  <2>4. HitsPlaced(k)'
    <3>1. \A i \in 1..Len(hits[k]) : hits[k][i] <= now'
      BY <2>1, <2>2 DEF HitsPlaced
    <3>2. QED
      BY <2>1, <3>1 DEF HitsPlaced
  <2>5. Bounded(k)'
    BY <2>1 DEF Bounded
  <2>6. QED
    BY <2>3, <2>4, <2>5
<1>3. QED
  BY <1>1, <1>2 DEF WindowInv

\* One arm of a request: it goes on when the hit is admitted, or the hit is the
\* answer.
LEMMA ArmKeeps ==
    ASSUME WindowInv, now \in Nat, now' = now, NEW k \in Keys, NEW u \in Readings, Hit(k, u),
           NEW c \in Clients,
           \/ Admits(k, u) /\ answer'.status # "throttled"
           \/ ~Admits(k, u) /\ Answer(c, Throttled(k, u))
    PROVE  WindowInv'
<1>1. WindowTypes' /\ \A l \in Keys : WindowOK(l)' /\ HitsPlaced(l)' /\ Bounded(l)'
  BY HitKeeps
<1>2. CASE answer'.status # "throttled"
  BY <1>1, <1>2 DEF WindowInv, RefusedIsOverBudget
<1>3. CASE ~Admits(k, u) /\ Answer(c, Throttled(k, u))
  <2>1. answer'.key = k /\ answer'.since = u
    BY <1>3 DEF Answer, Throttled, Plain
  <2>2. QED
    BY <1>1, <1>3, <2>1, RefusalEarned DEF WindowInv
<1>4. QED
  BY <1>2, <1>3

LEMMA Unrefused ==
    /\ Silent.status # "throttled"
    /\ \A c : /\ [Plain("refused") EXCEPT !.client = c].status # "throttled"
              /\ [Plain("register") EXCEPT !.client = c].status # "throttled"
BY DEF Silent, Plain

\* The four arms.
LEMMA ArmsKeepWindows ==
    ASSUME ReadInv, WindowInv, UNCHANGED vars, NEW c \in Clients, NEW u \in Readings,
           \/ \E k \in Tokens, i \in Addresses : IcsToken(c, k, i, u)
           \/ \E d \in Identities, i \in Addresses : IntakeIdentity(c, d, i, u)
           \/ IcsAddress(c, u) \/ IntakeAddress(c, u)
    PROVE  WindowInv'
<1>1. now \in Nat /\ now' = now
  BY DEF ReadInv, IInv, TypeOK, vars, tables
<1>2. ASSUME NEW k \in Tokens, NEW i \in Addresses, IcsToken(c, k, i, u) PROVE WindowInv'
  <2> DEFINE key == <<"ics-token", k>>
  <2>1. key \in Keys /\ Hit(key, u)
    BY <1>2 DEF Keys, IcsToken
  <2>2. \/ Admits(key, u) /\ answer' = Silent
        \/ ~Admits(key, u) /\ Answer(c, Throttled(key, u))
    BY <1>2 DEF IcsToken, Arrives
  <2> HIDE DEF key
  <2>3. QED
    BY <1>1, <2>1, <2>2, ArmKeeps, Unrefused
<1>3. ASSUME NEW d \in Identities, NEW i \in Addresses, IntakeIdentity(c, d, i, u)
      PROVE  WindowInv'
  <2> DEFINE key == <<"identity", d>>
  <2>1. key \in Keys /\ Hit(key, u)
    BY <1>3 DEF Keys, IntakeIdentity
  <2>2. \/ Admits(key, u) /\ answer' = Silent
        \/ ~Admits(key, u) /\ Answer(c, Throttled(key, u))
    BY <1>3 DEF IntakeIdentity, Arrives
  <2> HIDE DEF key
  <2>3. QED
    BY <1>1, <2>1, <2>2, ArmKeeps, Unrefused
<1>4. CASE IcsAddress(c, u)
  <2> DEFINE key == <<"ics-ip", req[c].ip>>
  <2>1. req[c].ip \in Addresses
    BY <1>4 DEF IcsAddress, ReadInv, RequestKnown
  <2>2. key \in Keys /\ Hit(key, u)
    BY <1>4, <2>1 DEF Keys, IcsAddress
  <2>3. \/ Admits(key, u) /\ answer' = Silent
        \/ ~Admits(key, u) /\ Answer(c, Throttled(key, u))
    BY <1>4 DEF IcsAddress, Goes
  <2> HIDE DEF key
  <2>4. QED
    BY <1>1, <2>2, <2>3, ArmKeeps, Unrefused
<1>5. CASE IntakeAddress(c, u)
  <2> DEFINE key == <<"ip", req[c].ip>>
  <2>1. req[c].ip \in Addresses
    BY <1>5 DEF IntakeAddress, ReadInv, RequestKnown
  <2>2. key \in Keys /\ Hit(key, u)
    BY <1>5, <2>1 DEF Keys, IntakeAddress
  <2>3. \/ Admits(key, u) /\ Answer(c, Plain("register"))
        \/ ~Admits(key, u) /\ Answer(c, Throttled(key, u))
    BY <1>5 DEF IntakeAddress
  <2>4. Answer(c, Plain("register")) => answer'.status # "throttled"
    BY Unrefused DEF Answer
  <2> HIDE DEF key
  <2>5. QED
    BY <1>1, <2>2, <2>3, <2>4, ArmKeeps
<1>6. QED
  BY <1>2, <1>3, <1>4, <1>5

LEMMA NextWindows ==
    ASSUME ReadInv, WindowInv, [PublicNext]_allVars PROVE WindowInv'
<1>1. now \in Nat
  BY DEF ReadInv, IInv, TypeOK
<1>2. CASE UNCHANGED allVars
  <2>1. UNCHANGED <<windows, hits, answer, now>>
    BY <1>2 DEF allVars, vars, tables
  <2>2. ASSUME NEW k \in Keys PROVE WindowOK(k)' /\ HitsPlaced(k)' /\ Bounded(k)'
    BY <2>1 DEF WindowInv, WindowOK, HitsPlaced, Bounded, NoWindow
  <2>3. QED
    BY <2>1, <2>2 DEF WindowInv, WindowTypes, RefusedIsOverBudget
<1>3. CASE Request
  <2>1. UNCHANGED vars /\ now' = now
    BY <1>3 DEF Request, vars, tables
  <2>2. CASE Mint
    <3>1. UNCHANGED <<windows, hits>> /\ answer' = Silent
      BY <2>2 DEF Mint, MintIcs, MintReport
    <3>2. QED
      BY <1>1, <2>1, <3>1, NoHitKeeps, Unrefused
  <2>3. ASSUME NEW c \in Clients, Begin(c) PROVE WindowInv'
    <3>1. ASSUME NEW k \in Tokens, ReportBegin(c, k) PROVE WindowInv'
      <4>1. UNCHANGED <<windows, hits>> /\ answer' = Silent
        BY <3>1 DEF ReportBegin, Arrives
      <4>2. QED
        BY <1>1, <2>1, <4>1, NoHitKeeps, Unrefused
    <3>2. QED
      BY <2>1, <2>3, <3>1, ArmsKeepWindows DEF Begin
  <2>4. ASSUME NEW c \in Clients, Continue(c) PROVE WindowInv'
    <3>1. CASE Verify(c)
      <4>1. UNCHANGED <<windows, hits>> /\ answer'.status # "throttled"
        BY <3>1, Unrefused DEF Verify, Goes, Refuse, Answer
      <4>2. QED
        BY <1>1, <2>1, <4>1, NoHitKeeps
    <3>2. CASE FindPublished(c)
      <4>1. UNCHANGED <<windows, hits>> /\ answer'.status # "throttled"
        <5>1. ASSUME Answer(c, Plain("refused")) PROVE answer'.status # "throttled"
          BY <5>1, Unrefused DEF Answer
        <5>2. ASSUME Answer(c, [Plain("served") EXCEPT
                         !.route = req[c].route, !.token = req[c].token,
                         !.since = req[c].since, !.public = req[c].public,
                         !.rows = PinnedRows(Grant(c))])
              PROVE  answer'.status # "throttled"
          BY <5>2 DEF Answer, Plain
        <5>3. QED
          BY <3>2, <5>1, <5>2 DEF FindPublished, Refuse
      <4>2. QED
        BY <1>1, <2>1, <4>1, NoHitKeeps
    <3>3. QED
      BY <2>1, <2>4, <3>1, <3>2, ArmsKeepWindows DEF Continue
  <2>5. QED
    BY <1>3, <2>2, <2>3, <2>4 DEF Request
<1>4. CASE Life
  <2>1. Next /\ UNCHANGED <<windows, hits>> /\ answer' = Silent
    BY <1>4 DEF Life
  <2>2. IInv' /\ now <= now'
    BY <2>1, NextInv, ClockGoesOn DEF ReadInv
  <2>3. now' \in Nat
    BY <2>2 DEF IInv, TypeOK
  <2>4. QED
    BY <1>1, <2>1, <2>2, <2>3, NoHitKeeps, Unrefused
<1>5. QED
  BY <1>2, <1>3, <1>4 DEF PublicNext

LEMMA InitWindows == PublicInit => WindowInv
<1> SUFFICES ASSUME PublicInit PROVE WindowInv
  OBVIOUS
<1>1. now \in Nat
  BY InitInv DEF PublicInit, IInv, TypeOK
<1>2. windows = [k \in Keys |-> NoWindow] /\ hits = [k \in Keys |-> <<>>]
  BY DEF PublicInit
<1>3. NoWindow \in [start : Nat, count : Nat] /\ NoWindow.start = 0 /\ NoWindow.count = 0
  BY DEF NoWindow
<1>4. WindowTypes
  BY <1>2, <1>3 DEF WindowTypes
<1>5. ASSUME NEW k \in Keys PROVE WindowOK(k) /\ HitsPlaced(k) /\ Bounded(k)
  <2>1. HitsMax[k[1]] \in Nat
    BY PublicSurfaceAssumption DEF Keys, Arms
  <2>2. hits[k] = <<>> /\ Len(hits[k]) = 0 /\ windows[k].start = 0 /\ windows[k].count = 0
    BY <1>2, <1>3
  <2>3. WindowOK(k)
    BY <1>1, <2>1, <2>2 DEF WindowOK
  <2>4. HitsPlaced(k)
    BY <2>2 DEF HitsPlaced
  <2>5. Bounded(k)
    BY <2>1, <2>2 DEF Bounded
  <2>6. QED
    BY <2>3, <2>4, <2>5
<1>6. RefusedIsOverBudget
  BY Unrefused DEF PublicInit, RefusedIsOverBudget
<1>7. QED
  BY <1>4, <1>5, <1>6 DEF WindowInv

\* Where a key's hits lie about its window's start, through every interleaving
\* of requests and whatever each waited for the lock.
THEOREM WindowSafety == PublicSpec => []WindowInv
<1>1. ReadInv /\ WindowInv /\ [PublicNext]_allVars => WindowInv'
  BY NextWindows
<1>2. QED
  BY <1>1, InitWindows, ReadSafety, PTL DEF PublicSpec

\* FixedWindows.allow admits twice a window's hits in a stretch as long as a
\* window and never more, but for the wait between the clock and the lock.
THEOREM BurstsBounded == PublicSpec => []BurstsAreBounded
<1>1. WindowInv => BurstsAreBounded
  BY DEF WindowInv, Bounded, BurstsAreBounded
<1>2. QED
  BY <1>1, WindowSafety, PTL

\* It refuses a key only while the key's window is full and has not run out.
THEOREM RefusalsEarned == PublicSpec => []RefusedIsOverBudget
<1>1. WindowInv => RefusedIsOverBudget
  BY DEF WindowInv
<1>2. QED
  BY <1>1, WindowSafety, PTL

-----------------------------------------------------------------------------
(* The events behind the routes                                            *)

\* A request never moves an event: the composition is a behaviour of
\* EventLifecycle, and what is proved there holds behind the public routes.
THEOREM EventsLiveOn == PublicSpec => Spec
<1>1. PublicInit => Init
  BY DEF PublicInit
<1>2. [PublicNext]_allVars => [Next]_vars
  BY DEF PublicNext, Request, Life, allVars
<1>3. QED
  BY <1>1, <1>2, PTL DEF PublicSpec, Spec
=============================================================================
