---------------------------- MODULE PublicSurface ----------------------------
(***************************************************************************)
(* The anonymous routes of src/src/presentation/http/public_routes.rs over *)
(* the events of EventLifecycle: the calendar feed and the ticket report   *)
(* behind a capability, and the intake form, with the fixed windows of     *)
(* src/src/application/service/intake_service.rs.                          *)
(*                                                                         *)
(* A request runs while officers publish, unpublish and cancel: it reads   *)
(* the windows (one mutex acquisition per arm), the clock, the slot and    *)
(* the event at different steps.  A token is a name; what it grants is in  *)
(* claims once it is minted, and a token nobody minted is a forgery, whose *)
(* signature no verify accepts.  The windows live in one process, whose    *)
(* clock does not step back; a hit reads it before it takes the lock, so   *)
(* two hits may be recorded out of order.  The seats an intake takes are   *)
(* SeatEngine's.                                                           *)
(***************************************************************************)
EXTENDS EventLifecycle, Sequences

CONSTANTS
    Clients, Addresses, Identities, Tokens,
    Granted,                \* bounds the events tokens are minted for
    Slots, SlotEvent,       \* the event of each slot
    Regs, RegEvent,         \* the event of each registration
    HitsMax,                \* of each arm: hits a window admits
    Window,                 \* length of a window, the same for every arm
    Lag,                    \* bounds how long a hit waits for the lock
    Ttl,                    \* lifetime of a calendar token
    Hosts,                  \* the sets of routers a host mounts
    NoToken, NoSlot

Arms == {"identity", "ip", "ics-token", "ics-ip"}

ASSUME PublicSurfaceAssumption ==
    /\ Granted \subseteq Events
    /\ SlotEvent \in [Slots -> Events] /\ RegEvent \in [Regs -> Events]
    /\ HitsMax \in [Arms -> Nat] /\ Window \in Nat \ {0} /\ Lag \in Nat /\ Ttl \in Nat \ {0}
    /\ Hosts \subseteq SUBSET {"public", "intake"}
    /\ NoToken \notin Tokens /\ NoSlot \notin Slots

VARIABLES
    mounted,    \* the routers this host mounts; they share no window
    claims,     \* what each minted token grants
    windows,    \* FixedWindows: start and count of each key
    at, req,    \* of each client: its place in a request and the request
    answer,     \* what the last step answered, if it answered
    hits        \* history: the instants of each key's admitted hits

allVars == <<vars, mounted, claims, windows, at, req, answer, hits>>

-----------------------------------------------------------------------------

Keys == ({"identity"} \X Identities) \cup ({"ip", "ics-ip"} \X Addresses)
        \cup ({"ics-token"} \X Tokens)

Unminted == [purpose |-> "none"]

NoRequest == [route |-> "none", token |-> NoToken, ip |-> None, since |-> 0, public |-> {}]
Plain(status) == [status |-> status, client |-> None, key |-> None, route |-> "none",
                  token |-> NoToken, since |-> 0, rows |-> {}, public |-> {}]
Silent == Plain("none")

\* What find_published resolves.
Public(e) == events[e].there /\ events[e].is_published /\ events[e].kanban_state # "cancel"
PublicNow == {e \in Events : Public(e)}

\* A request as it arrives; public is history: the events that were public at
\* some instant of it.
Arrives(c, label, route, k, i) ==
    /\ at' = [at EXCEPT ![c] = label]
    /\ req' = [req EXCEPT ![c] = [route |-> route, token |-> k, ip |-> i, since |-> now,
                                  public |-> PublicNow]]
    /\ answer' = Silent

\* A client's request ends with an answer.
Answer(c, a) ==
    /\ at' = [at EXCEPT ![c] = "idle"]
    /\ req' = [req EXCEPT ![c] = NoRequest]
    /\ answer' = [a EXCEPT !.client = c]

Goes(c, label) == at' = [at EXCEPT ![c] = label] /\ answer' = Silent /\ UNCHANGED req

Grant(c) == claims[req[c].token]

-----------------------------------------------------------------------------
(* Capabilities                                                            *)

\* mint_ics_capability: expires after Ttl.
MintIcs(k, e, s) ==
    /\ claims[k] = Unminted
    /\ claims' = [claims EXCEPT ![k] =
          [purpose |-> "ics", event |-> e, slot |-> s, regs |-> {}, exp |-> now + Ttl]]
    /\ answer' = Silent
    /\ UNCHANGED <<windows, at, req, hits>>

\* mint_ticket_report_capability: exp = 0, never expires.
MintReport(k, e, R) ==
    /\ claims[k] = Unminted
    /\ claims' = [claims EXCEPT ![k] =
          [purpose |-> "report", event |-> e, slot |-> NoSlot, regs |-> R, exp |-> 0]]
    /\ answer' = Silent
    /\ UNCHANGED <<windows, at, req, hits>>

\* An expired token still opens the feed.
Verifies_Broken(k, purpose) == claims[k] # Unminted /\ claims[k].purpose = purpose

\* The signature, which covers the purpose, then the expiry.
Verifies(k, purpose) ==
    /\ claims[k] # Unminted /\ claims[k].purpose = purpose
    /\ claims[k].exp # 0 => now < claims[k].exp

-----------------------------------------------------------------------------
(* FixedWindows.allow                                                      *)

NoWindow == [start |-> 0, count |-> 0]

\* What the clock may have shown to a hit that has the lock now.
Readings == {u \in 1..now : u + Lag >= now}

\* The window a hit falls in: the stored one, or a new one when there is none
\* or it is stale.
Opened(k, u) == IF windows[k] = NoWindow \/ u >= windows[k].start + Window
                THEN [start |-> u, count |-> 0] ELSE windows[k]

\* One hit too many.
Admits_Broken(k, u) == Opened(k, u).count <= HitsMax[k[1]]

Admits(k, u) == Opened(k, u).count < HitsMax[k[1]]

\* A refused hit starts the window anew.
Hit_Broken(k, u) ==
    /\ windows' = [windows EXCEPT ![k] =
          IF Admits(k, u) THEN [Opened(k, u) EXCEPT !.count = @ + 1]
          ELSE [Opened(k, u) EXCEPT !.start = u]]
    /\ hits' = [hits EXCEPT ![k] = IF Admits(k, u) THEN Append(@, now) ELSE @]

\* A stale window is reset in place; a refused hit is not counted.
Hit(k, u) ==
    /\ windows' = [windows EXCEPT ![k] =
          IF Admits(k, u) THEN [Opened(k, u) EXCEPT !.count = @ + 1] ELSE Opened(k, u)]
    /\ hits' = [hits EXCEPT ![k] = IF Admits(k, u) THEN Append(@, now) ELSE @]

\* The answer to a refused hit: Retry-After is the window.
Throttled(k, u) == [Plain("throttled") EXCEPT !.key = k, !.since = u]

-----------------------------------------------------------------------------
(* GET /public/ics/:capability                                             *)

\* The token's window, the identity arm of an anonymous feed.
IcsToken(c, k, i, u) ==
    /\ at[c] = "idle"
    /\ Hit(<<"ics-token", k>>, u)
    /\ IF Admits(<<"ics-token", k>>, u)
       THEN Arrives(c, "ics-ip", "ics", k, i)
       ELSE Answer(c, Throttled(<<"ics-token", k>>, u))
    /\ UNCHANGED claims

IcsAddress(c, u) ==
    /\ at[c] = "ics-ip"
    /\ Hit(<<"ics-ip", req[c].ip>>, u)
    /\ IF Admits(<<"ics-ip", req[c].ip>>, u) THEN Goes(c, "verify")
       ELSE Answer(c, Throttled(<<"ics-ip", req[c].ip>>, u))
    /\ UNCHANGED claims

-----------------------------------------------------------------------------
(* GET /public/my-tickets/:capability has no window                        *)

ReportBegin(c, k) ==
    /\ at[c] = "idle"
    /\ Arrives(c, "verify", "report", k, None)
    /\ UNCHANGED <<claims, windows, hits>>

-----------------------------------------------------------------------------
(* What both reads do with the capability                                  *)

Scoped(g) == g.slot = NoSlot \/ SlotEvent[g.slot] = g.event

\* Every refusal is the one uniform answer.
Refuse(c) == Answer(c, Plain("refused"))

\* The capability, then its slot, which must be the event's when it is read;
\* a report names none.
Verify(c) ==
    /\ at[c] = "verify"
    /\ IF Verifies(req[c].token, req[c].route) /\ Scoped(Grant(c)) THEN Goes(c, "event")
       ELSE Refuse(c)
    /\ UNCHANGED <<claims, windows, hits>>

\* A pinned registration of another event is absent from the report.
PinnedRows(g) == {r \in g.regs : RegEvent[r] = g.event}

\* The gate forgets the cancelled.
FindPublished_Broken(c) ==
    /\ at[c] = "event"
    /\ IF events[Grant(c).event].is_published
       THEN Answer(c, [Plain("served") EXCEPT !.route = req[c].route, !.token = req[c].token,
                                        !.since = req[c].since, !.public = req[c].public,
                                        !.rows = PinnedRows(Grant(c))])
       ELSE Refuse(c)
    /\ UNCHANGED <<claims, windows, hits>>

\* The publication gate, and the answer built from the row it read.
FindPublished(c) ==
    /\ at[c] = "event"
    /\ IF Public(Grant(c).event)
       THEN Answer(c, [Plain("served") EXCEPT !.route = req[c].route, !.token = req[c].token,
                                        !.since = req[c].since, !.public = req[c].public,
                                        !.rows = PinnedRows(Grant(c))])
       ELSE Refuse(c)
    /\ UNCHANGED <<claims, windows, hits>>

-----------------------------------------------------------------------------
(* POST /intake/:event_id                                                  *)

IntakeIdentity(c, d, i, u) ==
    /\ at[c] = "idle"
    /\ Hit(<<"identity", d>>, u)
    /\ IF Admits(<<"identity", d>>, u)
       THEN Arrives(c, "ip", "intake", NoToken, i)
       ELSE Answer(c, Throttled(<<"identity", d>>, u))
    /\ UNCHANGED claims

\* The address arm; an admitted intake calls the register verb.
IntakeAddress(c, u) ==
    /\ at[c] = "ip"
    /\ Hit(<<"ip", req[c].ip>>, u)
    /\ Answer(c, IF Admits(<<"ip", req[c].ip>>, u) THEN Plain("register")
                 ELSE Throttled(<<"ip", req[c].ip>>, u))
    /\ UNCHANGED claims

-----------------------------------------------------------------------------

PublicInit ==
    /\ Init
    /\ mounted \in Hosts
    /\ claims = [k \in Tokens |-> Unminted]
    /\ windows = [k \in Keys |-> NoWindow]
    /\ at = [c \in Clients |-> "idle"]
    /\ req = [c \in Clients |-> NoRequest]
    /\ answer = Silent
    /\ hits = [k \in Keys |-> <<>>]

Begin(c) ==
    \/ /\ "public" \in mounted
       /\ \E k \in Tokens : \/ ReportBegin(c, k)
                           \/ \E i \in Addresses, u \in Readings : IcsToken(c, k, i, u)
    \/ /\ "intake" \in mounted
       /\ \E d \in Identities, i \in Addresses, u \in Readings : IntakeIdentity(c, d, i, u)

Continue(c) ==
    \/ Verify(c) \/ FindPublished(c)
    \/ \E u \in Readings : IcsAddress(c, u) \/ IntakeAddress(c, u)

\* The host that mounts the public router mints the tokens for it.
Mint ==
    /\ "public" \in mounted
    /\ \E k \in Tokens, e \in Granted :
          \/ \E s \in Slots \cup {NoSlot} : MintIcs(k, e, s)
          \/ \E R \in SUBSET Regs : MintReport(k, e, R)

Request == (Mint \/ \E c \in Clients : Begin(c) \/ Continue(c)) /\ UNCHANGED <<vars, mounted>>

\* A step of an event's life, while requests are under way.
Life ==
    /\ Next
    /\ req' = [c \in Clients |-> IF at[c] = "idle" THEN req[c]
                                ELSE [req[c] EXCEPT !.public = @ \cup PublicNow']]
    /\ answer' = Silent
    /\ UNCHANGED <<mounted, claims, windows, at, hits>>

PublicNext == Request \/ Life

PublicSpec == PublicInit /\ [][PublicNext]_allVars

-----------------------------------------------------------------------------
(* Properties                                                              *)

\* However the hits of several clients fall, no stretch as long as a window
\* admits more than twice what a window does: of any more than that in a row,
\* the last comes a window after the first, but for what a hit may have waited
\* for the lock after it read the clock.
BurstsAreBounded ==
    \A k \in Keys :
        LET most == 2 * HitsMax[k[1]] IN
        \A i \in 1..Len(hits[k]) - most : hits[k][i] + Window < hits[k][i + most] + Lag

\* A key is refused only when it has had what a window admits in less than the
\* length of a window before the refused hit read the clock: refused attempts
\* are not counted and do not prolong the refusal.
RefusedIsOverBudget ==
    answer.status = "throttled" =>
        LET had == hits[answer.key]
            n == HitsMax[answer.key[1]]
        IN  n <= Len(had) /\ (n > 0 => answer.since < had[Len(had) - n + 1] + Window)

\* A served read is one its token grants: minted for the route and the event,
\* not expired when the request came, and no row but the event's pinned ones.
ServedIsGranted ==
    answer.status = "served" =>
        LET g == claims[answer.token] IN
        /\ g.purpose = answer.route
        /\ g.exp # 0 => answer.since < g.exp
        /\ g.slot # NoSlot => SlotEvent[g.slot] = g.event
        /\ \A r \in answer.rows : r \in g.regs /\ RegEvent[r] = g.event

\* An event that was unpublished or cancelled before the request came, and
\* stayed so, is not served: each read meets the flag live.
ServedWasPublic ==
    answer.status = "served" => claims[answer.token].event \in answer.public
=============================================================================
