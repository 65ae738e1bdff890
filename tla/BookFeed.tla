------------------------------ MODULE BookFeed ------------------------------
(***************************************************************************)
(* The order books Le Grinder prices with: the task of connectors/pm_ws.rs *)
(* keeps them from Polymarket's WebSocket, the loop announces the market   *)
(* it plays in a watch channel and reads them while they look fresh, else  *)
(* it asks the REST service (grinder.rs, best_book()).                     *)
(*                                                                         *)
(* A session subscribes to the two tokens of one market, gets a snapshot   *)
(* of each book, then the changes; the line is a queue, and may be down    *)
(* for any time before it delivers again or breaks.  Of a book the model   *)
(* keeps which session its snapshot came in, of an event its age; each     *)
(* event is a message of its own.  Times are kept as ages, up to the first *)
(* nothing tells from an older one (see GuardFusion.tla).                  *)
(***************************************************************************)
EXTENDS Integers, Sequences

CONSTANTS
    MaxAge,        \* BOOK_MAX_AGE_MS, 5 s
    PingEvery,     \* PING_INTERVAL_S, 10 s
    Zombie,        \* 30 s
    MaxBackoff,    \* MAX_BACKOFF_S, 30 s
    Markets,       \* bound: markets 1 .. Markets are played in order
    MaxFlight      \* bound: events on the line

ASSUME BookFeedAssumption ==
    /\ {MaxAge, PingEvery, Zombie, MaxBackoff, Markets, MaxFlight} \subseteq Nat \ {0}
    /\ MaxFlight >= 2

Sides  == {"Up", "Down"}
Tokens == (1 .. Markets) \X Sides
None   == 0                      \* no market yet

(* The first age too old for a book, and the longest silence of a session.  *)
Never   == MaxAge + 1
Silence == Zombie + PingEvery

VARIABLES
    announced,     \* the market in the watch channel
    unseen,        \* rx has not seen it
    line,          \* events on their way, the oldest first
    down,          \* the line delivers nothing
    pc,            \* the task: boot, parked, connecting, session, sleeping
    market,        \* the one run_session() was called for
    backoff, nap,  \* the next wait, what is left of this one
    last_msg, ping,\* time since the last message, since the last ping
    books,         \* PmWsState.books: none, of a past session, of this session
    last_ts,       \* PmWsState.last_ts_ms, as an age; Never for 0
    rollovers      \* sessions closed for the market announced last

channel == <<announced, unseen>>
network == <<line, down>>
task    == <<pc, market, backoff, nap, last_msg, ping>>
state   == <<books, last_ts>>
vars    == <<channel, network, task, state, rollovers>>

Init ==
    /\ announced = None /\ unseen = FALSE /\ rollovers = 0
    /\ line = <<>> /\ down = FALSE
    /\ pc = "boot" /\ market = None /\ backoff = 1 /\ nap = 0
    /\ last_msg = 0 /\ ping = 0
    /\ books = [t \in Tokens |-> "none"] /\ last_ts = Never

-----------------------------------------------------------------------------
(* The loop.                                                                *)

Bug_FreshBook(t) == books[t] # "none"
(* fresh_book(): one freshness for every token.                             *)
FreshBook(t) == last_ts <= MaxAge /\ books[t] # "none"

(* housekeeping() found the next market.                                    *)
Announce ==
    /\ announced < Markets
    /\ announced' = announced + 1
    /\ unseen' = TRUE
    /\ rollovers' = 0
    /\ UNCHANGED <<network, task, state>>

-----------------------------------------------------------------------------
(* The world.                                                               *)

Event(kind, side) == [kind |-> kind, token |-> <<market, side>>, age |-> 0]

(* A book changed: the server sends the level, or all of it.                *)
Change ==
    /\ pc = "session" /\ Len(line) < MaxFlight
    /\ \E kind \in {"book", "price_change"}, side \in Sides :
          line' = Append(line, Event(kind, side))
    /\ UNCHANGED <<channel, down, task, state, rollovers>>

(* The line goes down, for any time; not again before it has delivered what *)
(* it held.                                                                 *)
LineDown ==
    /\ pc = "session" /\ ~down
    /\ \A i \in DOMAIN line : line[i].age = 0
    /\ down' = TRUE
    /\ UNCHANGED <<channel, line, task, state, rollovers>>

(* What was held comes at once, the answers to the pings included.          *)
LineUp ==
    /\ down
    /\ down' = FALSE
    /\ last_msg' = IF last_msg >= PingEvery THEN 0 ELSE last_msg
    /\ UNCHANGED <<channel, line, pc, market, backoff, nap, ping, state, rollovers>>

(* Something the task can do at once, so that no time passes before it.     *)
Ready ==
    \/ pc = "boot"
    \/ pc = "parked" /\ unseen
    \/ pc = "sleeping" /\ nap = 0
    \/ pc = "session" /\ ((~down /\ line # <<>>) \/ ping = PingEvery \/ unseen)

Lesser(a, b) == IF a <= b THEN a ELSE b

Advance ==
    /\ ~Ready
    /\ nap' = IF nap > 0 THEN nap - 1 ELSE 0
    /\ last_ts' = Lesser(last_ts + 1, Never)
    /\ line' = [i \in DOMAIN line |-> [line[i] EXCEPT !.age = @ + 1]]
    /\ IF pc = "session"
       THEN last_msg' = last_msg + 1 /\ ping' = ping + 1
       ELSE UNCHANGED <<last_msg, ping>>
    /\ UNCHANGED <<channel, down, pc, market, backoff, books, rollovers>>

-----------------------------------------------------------------------------
(* spawn(), the outer loop.                                                 *)

Bug_Connect == pc' = "connecting" /\ market' = IF market = None THEN announced ELSE market
(* run_session() starts with the tokens last announced, without marking     *)
(* them seen ...                                                            *)
Connect == pc' = "connecting" /\ market' = announced

(* ... at boot if there are any; if not, the task waits, and has seen them. *)
Boot ==
    /\ pc = "boot"
    /\ IF announced = None THEN pc' = "parked" /\ UNCHANGED market ELSE Connect
    /\ UNCHANGED <<channel, network, backoff, nap, last_msg, ping, state, rollovers>>

Unpark ==
    /\ pc = "parked" /\ unseen
    /\ unseen' = FALSE
    /\ Connect
    /\ UNCHANGED <<announced, network, backoff, nap, last_msg, ping, state, rollovers>>

Wake ==
    /\ pc = "sleeping" /\ nap = 0
    /\ Connect
    /\ UNCHANGED <<channel, network, backoff, nap, last_msg, ping, state, rollovers>>

Past(bs) == [t \in Tokens |-> IF bs[t] = "none" THEN "none" ELSE "past"]

Bug_End(clean, bs) ==
    /\ books' = Past(bs) /\ UNCHANGED last_ts
    /\ nap' = IF clean THEN 1 ELSE backoff
    /\ backoff' = Lesser(2 * nap', MaxBackoff)
    /\ pc' = "sleeping"
    /\ line' = <<>> /\ down' = FALSE
    /\ last_msg' = 0 /\ ping' = 0
(* run_session() returned: no book is fresh, all of bs are kept.            *)
End(clean, bs) ==
    /\ books' = Past(bs) /\ last_ts' = Never
    /\ nap' = IF clean THEN 1 ELSE backoff
    /\ backoff' = Lesser(2 * nap', MaxBackoff)
    /\ pc' = "sleeping"
    /\ line' = <<>> /\ down' = FALSE
    /\ last_msg' = 0 /\ ping' = 0

-----------------------------------------------------------------------------
(* run_session().                                                           *)

(* Connected and subscribed: the server sends the two books.                *)
Connected ==
    /\ pc = "connecting"
    /\ pc' = "session"
    /\ last_msg' = 0 /\ ping' = 0
    /\ \E first \in Sides : \E second \in Sides \ {first} :
          line' = <<Event("book", first), Event("book", second)>>
    /\ UNCHANGED <<channel, down, market, backoff, nap, state, rollovers>>

(* The connection is refused or breaks.                                     *)
Broken ==
    /\ pc \in {"connecting", "session"}
    /\ End(FALSE, books)
    /\ UNCHANGED <<channel, market, rollovers>>

(* The server closes it, after all it sent.                                 *)
Closed ==
    /\ pc = "session" /\ ~down /\ line = <<>>
    /\ End(TRUE, books)
    /\ UNCHANGED <<channel, market, rollovers>>

Bug_Apply(bs, e) ==
    IF e.kind = "book" /\ bs[e.token] = "none" THEN [bs EXCEPT ![e.token] = "session"] ELSE bs
(* process_message(): a snapshot replaces the book; a level is set in a     *)
(* book there is, and makes it no other.                                    *)
Apply(bs, e) == IF e.kind = "book" THEN [bs EXCEPT ![e.token] = "session"] ELSE bs

Receive ==
    /\ pc = "session" /\ ~down /\ line # <<>>
    /\ books' = Apply(books, Head(line))
    /\ line' = Tail(line)
    /\ last_ts' = 0 /\ last_msg' = 0
    /\ UNCHANGED <<channel, down, pc, market, backoff, nap, ping, rollovers>>

Bug_Ping ==
    /\ pc = "session" /\ ping = PingEvery
    /\ ping' = 0
    /\ last_msg' = IF down THEN last_msg ELSE 0
    /\ UNCHANGED <<channel, network, pc, market, backoff, nap, state, rollovers>>
(* The ping's tick: a silent session is over; over a line that is up, the   *)
(* pong is there at once.                                                   *)
Ping ==
    /\ pc = "session" /\ ping = PingEvery
    /\ IF last_msg > Zombie
       THEN End(FALSE, books) /\ UNCHANGED market
       ELSE /\ ping' = 0
            /\ last_msg' = IF down THEN last_msg ELSE 0
            /\ UNCHANGED <<network, pc, market, backoff, nap, state>>
    /\ UNCHANGED <<channel, rollovers>>

Bug_Rollover ==
    /\ pc = "session" /\ unseen
    /\ rollovers' = rollovers + 1
    /\ End(TRUE, [t \in Tokens |-> IF t[1] = announced THEN books[t] ELSE "none"])
    /\ UNCHANGED <<announced, unseen, market>>
(* rx.changed(): a market this session has not seen ends it, be it its own; *)
(* the other books are dropped.                                             *)
Rollover ==
    /\ pc = "session" /\ unseen
    /\ unseen' = FALSE
    /\ rollovers' = rollovers + 1
    /\ End(TRUE, [t \in Tokens |-> IF t[1] = announced THEN books[t] ELSE "none"])
    /\ UNCHANGED <<announced, market>>

Next == \/ Announce \/ Advance
        \/ Change \/ LineDown \/ LineUp
        \/ Boot \/ Unpark \/ Wake
        \/ Connected \/ Broken \/ Closed
        \/ Receive \/ Ping \/ Rollover

Spec == Init /\ [][Next]_vars

(* The runtime runs the task, and time passes; a server that accepts        *)
(* connections again and again is connected to in the end.  connect_async() *)
(* has no timeout: that a handshake which began ends, well or not, is       *)
(* assumed of the network.                                                  *)
FairSpec ==
    /\ Spec
    /\ WF_vars(Advance) /\ WF_vars(Boot) /\ WF_vars(Unpark) /\ WF_vars(Wake)
    /\ WF_vars(Rollover) /\ SF_vars(Connected)

-----------------------------------------------------------------------------
Events == [kind : {"book", "price_change"}, token : Tokens, age : 0 .. Silence]

(* The types; among them, the line holds what the session subscribed to,    *)
(* and no session stays silent for longer than its ping's next look at it.  *)
TypeOK ==
    /\ announced \in None .. Markets /\ unseen \in BOOLEAN
    /\ line \in Seq(Events) /\ Len(line) <= MaxFlight
    /\ \A i \in DOMAIN line : line[i].token[1] = market
    /\ down \in BOOLEAN
    /\ pc \in {"boot", "parked", "connecting", "session", "sleeping"}
    /\ market \in None .. announced
    /\ backoff \in 1 .. MaxBackoff /\ nap \in 0 .. MaxBackoff
    /\ last_msg \in 0 .. Silence /\ ping \in 0 .. PingEvery
    /\ books \in [Tokens -> {"none", "past", "session"}]
    /\ last_ts \in 0 .. Never
    /\ rollovers \in Nat

(* What the loop is served for a token of the market it plays.              *)
Served(t) == t[1] = announced /\ FreshBook(t)

Pending(t) == {i \in DOMAIN line : line[i].token = t}

(* How far behind a served book may be: as long as a book stays fresh when  *)
(* the line is down; for the instants in which a line that was down delivers*)
(* what it held, as long as a session may stay silent.                      *)
ServedLag ==
    \A t \in Tokens : Served(t) =>
        \A i \in Pending(t) : line[i].age <= IF down THEN MaxAge ELSE Silence

(* A book of an earlier session is served in one case only: the session has *)
(* delivered something else, and the book's own snapshot is on the line.    *)
PastIsReplaced ==
    \A t \in Tokens : Served(t) /\ books[t] = "past" =>
        pc = "session" /\ \E i \in Pending(t) : line[i].kind = "book"

(* A market announced closes one session at most: no loop of reconnections. *)
OneCloseEach == rollovers <= 1

(* The market played is subscribed to in the end, whatever session, nap or  *)
(* retry its announcement finds the task in.                                *)
MarketFollowed ==
    \A m \in 1 .. Markets :
        announced = m ~> (pc = "session" /\ market = m) \/ announced # m

=============================================================================
