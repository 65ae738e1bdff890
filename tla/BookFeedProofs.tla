--------------------------- MODULE BookFeedProofs ---------------------------
(***************************************************************************)
(* What the loop is served by the book task of BookFeed.tla, over any      *)
(* line, for every number of markets and every set of limits: no book of a *)
(* past session without its replacement on the way, none further behind    *)
(* than the line can hide, and one session closed for each market.         *)
(***************************************************************************)
EXTENDS BookFeed, SequenceTheorems, TLAPS

Pcs    == {"boot", "parked", "connecting", "session", "sleeping"}
States == {"none", "past", "session"}

(* The types, but for the line's.                                           *)
TaskOK ==
    /\ announced \in None .. Markets /\ unseen \in BOOLEAN /\ down \in BOOLEAN
    /\ pc \in Pcs /\ market \in None .. announced
    /\ backoff \in 1 .. MaxBackoff /\ nap \in 0 .. MaxBackoff
    /\ last_msg \in Nat /\ ping \in 0 .. PingEvery
    /\ books \in [Tokens -> States] /\ last_ts \in 0 .. Never
    /\ rollovers \in Nat

(* The line's: events of the market subscribed to.                          *)
LineOK ==
    /\ line \in Seq(Events) /\ Len(line) <= MaxFlight
    /\ \A i \in DOMAIN line : line[i].token[1] = market

(* A task that has begun has a market, and there is one not seen only if    *)
(* there is one.                                                            *)
SubscribedOK ==
    /\ pc \in {"connecting", "session", "sleeping"} => market # None
    /\ unseen => announced # None

(* Outside a session nothing is on the line and no book is fresh.           *)
QuietOK ==
    pc # "session" => line = <<>> /\ ~down /\ last_ts = Never /\ last_msg = 0 /\ ping = 0

(* A silent session is found out at its ping's next look.                   *)
SilenceOK == last_msg <= Zombie + ping

(* What a line that is down holds is no older than the last message, nor    *)
(* than what keeps the books fresh.                                         *)
HeldOK ==
    down => \A i \in DOMAIN line :
               /\ line[i].age <= last_msg
               /\ line[i].age <= last_ts \/ last_ts = Never

(* No book of a market to come; of the market subscribed to, the session's  *)
(* own or its snapshot on the line.                                         *)
Coming(t) == \E i \in DOMAIN line : line[i].token = t /\ line[i].kind = "book"
BooksOK ==
    /\ \A t \in Tokens : t[1] > market => books[t] = "none"
    /\ pc = "session" =>
          \A t \in Tokens : t[1] = market => books[t] = "session" \/ Coming(t)

(* A session is closed for what it has not seen, and that once.             *)
CloseOK == rollovers <= 1 /\ (unseen => rollovers = 0)

(* The inductive invariant.                                                 *)
BInv ==
    /\ TaskOK /\ LineOK
    /\ SubscribedOK /\ QuietOK /\ SilenceOK /\ HeldOK /\ BooksOK /\ CloseOK

-----------------------------------------------------------------------------
(* The constants.                                                           *)
LEMMA Constants ==
    /\ MaxAge \in Nat \ {0} /\ PingEvery \in Nat \ {0} /\ Zombie \in Nat \ {0}
    /\ MaxBackoff \in Nat \ {0} /\ Markets \in Nat \ {0}
    /\ MaxFlight \in Nat /\ MaxFlight >= 2
    /\ Never \in Nat \ {0} /\ MaxAge < Never /\ Silence = Zombie + PingEvery
    /\ None = 0
BY BookFeedAssumption DEF Never, Silence, None

(* An event at the end of the line.                                         *)
LEMMA LineAppend ==
    ASSUME NEW s \in Seq(Events), NEW e \in Events
    PROVE  /\ Append(s, e) \in Seq(Events) /\ Len(Append(s, e)) = Len(s) + 1
           /\ DOMAIN Append(s, e) = 1 .. Len(s) + 1 /\ DOMAIN s = 1 .. Len(s)
           /\ Len(s) \in Nat
           /\ \A i \in 1 .. Len(s) : Append(s, e)[i] = s[i]
           /\ Append(s, e)[Len(s) + 1] = e
BY AppendProperties, LenProperties

(* The first event of the line taken off.                                   *)
LEMMA LineTail ==
    ASSUME NEW s \in Seq(Events), s # <<>>
    PROVE  /\ Tail(s) \in Seq(Events) /\ Len(Tail(s)) = Len(s) - 1
           /\ DOMAIN Tail(s) = 1 .. Len(s) - 1 /\ DOMAIN s = 1 .. Len(s)
           /\ Len(s) \in Nat \ {0}
           /\ Head(s) = s[1] /\ s[1] \in Events
           /\ \A i \in 1 .. Len(s) - 1 : Tail(s)[i] = s[i + 1]
BY HeadTailProperties, LenProperties, EmptySeq

(* The events are of tokens, of an age.                                     *)
LEMMA LineTypes ==
    ASSUME LineOK, NEW i \in DOMAIN line
    PROVE  /\ line[i] \in Events /\ line[i].age \in 0 .. Silence
           /\ line[i].token \in Tokens /\ line[i].kind \in {"book", "price_change"}
           /\ DOMAIN line = 1 .. Len(line) /\ Len(line) \in Nat
<1>1. line[i] \in Events /\ DOMAIN line = 1 .. Len(line) /\ Len(line) \in Nat
  BY LenProperties, ElementOfSeq DEF LineOK
<1>. QED
  BY <1>1 DEF Events

(* A new event, of the market subscribed to.                                *)
LEMMA EventIs ==
    ASSUME TaskOK, market # None, NEW kind \in {"book", "price_change"}, NEW side \in Sides
    PROVE  /\ Event(kind, side) \in Events
           /\ Event(kind, side).token = <<market, side>> /\ Event(kind, side).token[1] = market
           /\ <<market, side>> \in Tokens
           /\ Event(kind, side).age = 0 /\ Event(kind, side).kind = kind
<1>1. market \in 1 .. Markets
  BY Constants DEF TaskOK
<1>2. <<market, side>> \in Tokens
  BY <1>1 DEF Tokens
<1>3. 0 \in 0 .. Silence
  BY Constants
<1>. QED
  BY <1>2, <1>3 DEF Event, Events

-----------------------------------------------------------------------------
(* The end of a session, or of an attempt at one.                           *)
LEMMA SessionEnds ==
    ASSUME BInv, pc \in {"connecting", "session"},
           NEW clean \in BOOLEAN, NEW bs \in [Tokens -> States], End(clean, bs),
           \A t \in Tokens : t[1] > market => bs[t] = "none",
           UNCHANGED <<announced, market>>, unseen' \in BOOLEAN, unseen' => unseen,
           rollovers' \in Nat, CloseOK'
    PROVE  BInv'
<1>1. /\ books' = Past(bs) /\ last_ts' = Never /\ pc' = "sleeping"
      /\ line' = <<>> /\ down' = FALSE /\ last_msg' = 0 /\ ping' = 0
      /\ nap' = (IF clean THEN 1 ELSE backoff) /\ backoff' = Lesser(2 * nap', MaxBackoff)
  BY DEF End
<1>2. nap' \in 1 .. MaxBackoff /\ backoff' \in 1 .. MaxBackoff
  BY <1>1, Constants DEF BInv, TaskOK, Lesser
<1>3. books' \in [Tokens -> States] /\ \A t \in Tokens : t[1] > market' => books'[t] = "none"
  BY <1>1 DEF Past, States
<1>4. TaskOK'
  <2>1. announced' \in None .. Markets /\ market' \in None .. announced'
    BY DEF BInv, TaskOK
  <2>2. /\ nap' \in 0 .. MaxBackoff /\ ping' \in 0 .. PingEvery
        /\ last_ts' \in 0 .. Never /\ last_msg' \in Nat
    BY <1>1, <1>2, Constants
  <2>3. down' \in BOOLEAN /\ pc' \in Pcs
    BY <1>1 DEF Pcs
  <2>. QED
    BY <1>2, <1>3, <2>1, <2>2, <2>3 DEF TaskOK
<1>5. LineOK'
  BY <1>1, Constants, EmptySeq DEF LineOK
<1>6. SubscribedOK' /\ QuietOK' /\ SilenceOK' /\ HeldOK'
  BY <1>1, Constants DEF BInv, SubscribedOK, QuietOK, SilenceOK, HeldOK
<1>7. BooksOK'
  BY <1>1, <1>3 DEF BooksOK
<1>. QED
  BY <1>4, <1>5, <1>6, <1>7 DEF BInv

(* A connection attempt: the market last announced, and a line that is      *)
(* empty.                                                                   *)
LEMMA ConnectFits ==
    ASSUME BInv, pc # "session", Connect, announced # None,
           UNCHANGED <<announced, network, backoff, nap, last_msg, ping, state, rollovers>>,
           unseen' \in BOOLEAN, unseen' => unseen
    PROVE  BInv'
<1>1. /\ pc' = "connecting" /\ market' = announced
      /\ UNCHANGED <<announced, line, down, backoff, nap, last_msg, ping>>
      /\ UNCHANGED <<books, last_ts, rollovers>>
  BY DEF Connect, network, state
<1>2. line = <<>> /\ ~down /\ last_ts = Never /\ last_msg = 0 /\ ping = 0
  BY DEF BInv, QuietOK
<1>3. TaskOK'
  BY <1>1, Constants DEF BInv, TaskOK, Pcs
<1>4. LineOK'
  BY <1>1, <1>2, Constants, EmptySeq DEF LineOK
<1>5. SubscribedOK' /\ QuietOK' /\ SilenceOK' /\ HeldOK' /\ CloseOK'
  BY <1>1, <1>2, Constants
     DEF BInv, SubscribedOK, QuietOK, SilenceOK, HeldOK, CloseOK
<1>6. BooksOK'
  <2>1. ASSUME NEW t \in Tokens, t[1] > announced PROVE books[t] = "none"
    <3>1. t[1] > market
      BY <2>1, Constants DEF BInv, TaskOK, Tokens
    <3>. QED
      BY <3>1 DEF BInv, BooksOK
  <2>. QED
    BY <1>1, <2>1 DEF BooksOK
<1>. QED
  BY <1>3, <1>4, <1>5, <1>6 DEF BInv

(* The beginnings of an attempt.                                            *)
LEMMA BeginFits == BInv /\ (Boot \/ Unpark \/ Wake) => BInv'
<1>. SUFFICES ASSUME BInv, Boot \/ Unpark \/ Wake PROVE BInv'
  OBVIOUS
<1>1. CASE Boot /\ announced = None
  <2>1. /\ pc' = "parked" /\ pc = "boot"
        /\ UNCHANGED <<announced, unseen, line, down, market, backoff, nap, last_msg, ping>>
        /\ UNCHANGED <<books, last_ts, rollovers>>
    BY <1>1 DEF Boot, channel, network, state
  <2>2. TaskOK'
    BY <2>1 DEF BInv, TaskOK, Pcs
  <2>3. LineOK' /\ SubscribedOK' /\ QuietOK' /\ SilenceOK' /\ HeldOK' /\ CloseOK'
    BY <2>1 DEF BInv, LineOK, SubscribedOK, QuietOK, SilenceOK, HeldOK, CloseOK
  <2>4. BooksOK'
    BY <2>1 DEF BInv, BooksOK
  <2>. QED
    BY <2>2, <2>3, <2>4 DEF BInv
<1>2. CASE Boot /\ announced # None
  BY <1>2, ConnectFits DEF Boot, channel, BInv, TaskOK
<1>3. CASE Unpark
  BY <1>3, ConnectFits DEF Unpark, BInv, TaskOK, SubscribedOK
<1>4. CASE Wake
  <2>1. announced # None
    BY <1>4, Constants DEF Wake, BInv, TaskOK, SubscribedOK
  <2>. QED
    BY <1>4, <2>1, ConnectFits DEF Wake, channel, BInv, TaskOK
<1>. QED
  BY <1>1, <1>2, <1>3, <1>4

(* The next market is announced.                                            *)
LEMMA AnnounceFits == BInv /\ Announce => BInv'
<1>. SUFFICES ASSUME BInv, Announce PROVE BInv'
  OBVIOUS
<1>1. /\ announced < Markets /\ announced' = announced + 1 /\ unseen' = TRUE /\ rollovers' = 0
      /\ UNCHANGED <<line, down, pc, market, backoff, nap, last_msg, ping, books, last_ts>>
  BY DEF Announce, network, task, state
<1>2. TaskOK'
  <2>1. announced' \in None .. Markets /\ market' \in None .. announced' /\ rollovers' \in Nat
    BY <1>1, Constants DEF BInv, TaskOK
  <2>. QED
    BY <1>1, <2>1 DEF BInv, TaskOK
<1>3. SubscribedOK'
  BY <1>1, Constants DEF BInv, TaskOK, SubscribedOK
<1>4. LineOK' /\ QuietOK' /\ SilenceOK' /\ HeldOK' /\ CloseOK'
  BY <1>1 DEF BInv, LineOK, QuietOK, SilenceOK, HeldOK, CloseOK
<1>5. BooksOK'
  BY <1>1 DEF BInv, BooksOK, Coming
<1>. QED
  BY <1>2, <1>3, <1>4, <1>5 DEF BInv

(* Ends of a session that keep the books they end with.                     *)
LEMMA BreakFits == BInv /\ (Broken \/ Closed) => BInv'
<1>. SUFFICES ASSUME BInv, Broken \/ Closed PROVE BInv'
  OBVIOUS
<1>1. PICK clean \in BOOLEAN : End(clean, books)
  BY DEF Broken, Closed
<1>2. /\ pc \in {"connecting", "session"} /\ UNCHANGED <<announced, unseen, market, rollovers>>
  BY DEF Broken, Closed, channel
<1>3. /\ books \in [Tokens -> States] /\ rollovers' \in Nat /\ unseen' \in BOOLEAN
      /\ CloseOK' /\ \A t \in Tokens : t[1] > market => books[t] = "none"
  BY <1>2 DEF BInv, TaskOK, CloseOK, BooksOK
<1>. QED
  BY <1>1, <1>2, <1>3, SessionEnds

(* A market the session has not seen ends it.                               *)
LEMMA RolloverFits == BInv /\ Rollover => BInv'
<1>. SUFFICES ASSUME BInv, Rollover PROVE BInv'
  OBVIOUS
<1>. DEFINE bs == [t \in Tokens |-> IF t[1] = announced THEN books[t] ELSE "none"]
<1>1. /\ pc = "session" /\ unseen /\ unseen' = FALSE /\ rollovers' = rollovers + 1
      /\ End(TRUE, bs) /\ UNCHANGED <<announced, market>>
  BY DEF Rollover
<1>2. bs \in [Tokens -> States] /\ \A t \in Tokens : t[1] > market => bs[t] = "none"
  BY DEF BInv, TaskOK, BooksOK, States
<1>3. rollovers' = 1
  BY <1>1 DEF BInv, CloseOK
<1>4. CloseOK' /\ rollovers' \in Nat
  BY <1>1, <1>3 DEF CloseOK
<1>. HIDE DEF bs
<1>. QED
  BY <1>1, <1>2, <1>4, SessionEnds

(* The ping's tick: the end of a silent session, or another wait for one.   *)
LEMMA PingFits == BInv /\ Ping => BInv'
<1>. SUFFICES ASSUME BInv, Ping PROVE BInv'
  OBVIOUS
<1>1. pc = "session" /\ ping = PingEvery /\ UNCHANGED <<announced, unseen, rollovers>>
  BY DEF Ping, channel
<1>2. CASE last_msg > Zombie
  <2>1. End(FALSE, books) /\ UNCHANGED market
    BY <1>2 DEF Ping
  <2>2. /\ books \in [Tokens -> States] /\ rollovers' \in Nat /\ unseen' \in BOOLEAN
        /\ CloseOK' /\ \A t \in Tokens : t[1] > market => books[t] = "none"
    BY <1>1 DEF BInv, TaskOK, CloseOK, BooksOK
  <2>. QED
    BY <1>1, <2>1, <2>2, SessionEnds
<1>3. CASE ~(last_msg > Zombie)
  <2>1. /\ ping' = 0 /\ last_msg' = (IF down THEN last_msg ELSE 0)
        /\ UNCHANGED <<line, down, pc, market, backoff, nap, books, last_ts>>
    BY <1>3 DEF Ping, network, state
  <2>2. TaskOK'
    BY <1>1, <2>1, Constants DEF BInv, TaskOK
  <2>3. SilenceOK'
    BY <1>3, <2>1, Constants DEF BInv, TaskOK, SilenceOK
  <2>4. LineOK' /\ SubscribedOK' /\ QuietOK' /\ HeldOK' /\ CloseOK'
    BY <1>1, <2>1 DEF BInv, LineOK, SubscribedOK, QuietOK, HeldOK, CloseOK
  <2>5. BooksOK'
    BY <2>1 DEF BInv, BooksOK, Coming
  <2>. QED
    BY <2>2, <2>3, <2>4, <2>5 DEF BInv
<1>. QED
  BY <1>2, <1>3

(* A session begins, with the two snapshots on the line.                    *)
LEMMA ConnectedFits == BInv /\ Connected => BInv'
<1>. SUFFICES ASSUME BInv, Connected PROVE BInv'
  OBVIOUS
<1>1. PICK first \in Sides : \E second \in Sides \ {first} :
          line' = <<Event("book", first), Event("book", second)>>
  BY DEF Connected
<1>2. PICK second \in Sides \ {first} :
          line' = <<Event("book", first), Event("book", second)>>
  BY <1>1
<1>3. /\ pc = "connecting" /\ pc' = "session" /\ last_msg' = 0 /\ ping' = 0
      /\ UNCHANGED <<announced, unseen, down, market, backoff, nap>>
      /\ UNCHANGED <<books, last_ts, rollovers>>
  BY DEF Connected, channel, state
<1>4. market # None /\ ~down
  BY <1>3 DEF BInv, SubscribedOK, QuietOK
<1>5. /\ Event("book", first) \in Events /\ Event("book", second) \in Events
      /\ Event("book", first).token = <<market, first>>
      /\ Event("book", second).token = <<market, second>>
      /\ Event("book", first).token[1] = market /\ Event("book", second).token[1] = market
      /\ Event("book", first).kind = "book" /\ Event("book", second).kind = "book"
  BY <1>4, EventIs DEF BInv
<1>. DEFINE e == Event("book", first)
            f == Event("book", second)
<1>. HIDE DEF e, f
<1>6. line' = <<e, f>> /\ e \in Events /\ f \in Events
  BY <1>2, <1>5 DEF e, f
<1>7. line' \in Seq(Events) /\ Len(line') = 2 /\ DOMAIN line' = 1 .. 2
      /\ line'[1] = e /\ line'[2] = f
  BY <1>6
<1>8. LineOK'
  <2>1. \A i \in DOMAIN line' : line'[i].token[1] = market
    BY <1>5, <1>7 DEF e, f
  <2>2. 2 <= MaxFlight
    BY Constants
  <2>. QED
    BY <1>3, <1>7, <2>1, <2>2 DEF LineOK
<1>9. TaskOK'
  <2>1. last_msg' \in Nat /\ ping' \in 0 .. PingEvery
    BY <1>3, Constants
  <2>. QED
    BY <1>3, <2>1 DEF BInv, TaskOK, Pcs
<1>10. SubscribedOK' /\ QuietOK' /\ SilenceOK' /\ HeldOK' /\ CloseOK'
  BY <1>3, <1>4, Constants
     DEF BInv, SubscribedOK, QuietOK, SilenceOK, HeldOK, CloseOK
<1>11. BooksOK'
  <2>1. ASSUME NEW t \in Tokens, t[1] = market PROVE Coming(t)'
    <3>1. t = <<market, first>> \/ t = <<market, second>>
      BY <2>1 DEF Tokens, Sides
    <3>. QED
      BY <1>5, <1>7, <3>1 DEF Coming, e, f
  <2>. QED
    BY <1>3, <2>1 DEF BInv, BooksOK
<1>. QED
  BY <1>8, <1>9, <1>10, <1>11 DEF BInv

(* A change takes its place at the end of the line.                         *)
LEMMA ChangeFits == BInv /\ Change => BInv'
<1>. SUFFICES ASSUME BInv, Change PROVE BInv'
  OBVIOUS
<1>1. PICK kind \in {"book", "price_change"}, side \in Sides :
          line' = Append(line, Event(kind, side))
  BY DEF Change
<1>2. /\ pc = "session" /\ Len(line) < MaxFlight
      /\ UNCHANGED <<announced, unseen, down, pc, market, backoff, nap, last_msg, ping>>
      /\ UNCHANGED <<books, last_ts, rollovers>>
  BY DEF Change, channel, task, state
<1>. DEFINE e == Event(kind, side)
<1>3. /\ e \in Events /\ e.token[1] = market /\ e.age = 0
  BY <1>2, EventIs DEF BInv, SubscribedOK
<1>. HIDE DEF e
<1>4. /\ line' \in Seq(Events) /\ Len(line') = Len(line) + 1 /\ Len(line) \in Nat
      /\ DOMAIN line' = 1 .. Len(line) + 1 /\ DOMAIN line = 1 .. Len(line)
      /\ \A i \in 1 .. Len(line) : line'[i] = line[i]
      /\ line'[Len(line) + 1] = e
  BY <1>1, <1>3, LineAppend DEF BInv, LineOK, e
<1>5. \A i \in DOMAIN line' : i \in DOMAIN line \/ line'[i] = e
  BY <1>4
<1>6. LineOK'
  <2>1. Len(line') <= MaxFlight
    BY <1>2, <1>4, Constants
  <2>2. \A i \in DOMAIN line' : line'[i].token[1] = market'
    BY <1>2, <1>3, <1>4, <1>5 DEF BInv, LineOK
  <2>. QED
    BY <1>4, <2>1, <2>2 DEF LineOK
<1>7. HeldOK'
  <2>1. 0 <= last_msg /\ 0 <= last_ts
    BY Constants DEF BInv, TaskOK
  <2>. QED
    BY <1>2, <1>3, <1>4, <1>5, <2>1 DEF BInv, HeldOK
<1>8. TaskOK' /\ SubscribedOK' /\ QuietOK' /\ SilenceOK' /\ CloseOK'
  BY <1>2 DEF BInv, TaskOK, SubscribedOK, QuietOK, SilenceOK, CloseOK
<1>9. BooksOK'
  <2>1. ASSUME NEW t \in Tokens, Coming(t) PROVE Coming(t)'
    <3>1. PICK i \in DOMAIN line : line[i].token = t /\ line[i].kind = "book"
      BY <2>1 DEF Coming
    <3>2. i \in DOMAIN line' /\ line'[i] = line[i]
      BY <1>4
    <3>. QED
      BY <3>1, <3>2 DEF Coming
  <2>. QED
    BY <1>2, <2>1 DEF BInv, BooksOK
<1>. QED
  BY <1>6, <1>7, <1>8, <1>9 DEF BInv

(* The line goes down, and comes up again.                                  *)
LEMMA DownUpFits == BInv /\ (LineDown \/ LineUp) => BInv'
<1>. SUFFICES ASSUME BInv, LineDown \/ LineUp PROVE BInv'
  OBVIOUS
<1>1. /\ UNCHANGED <<announced, unseen, line, pc, market, backoff, nap, ping>>
      /\ UNCHANGED <<books, last_ts, rollovers>>
      /\ down' \in BOOLEAN /\ last_msg' \in {0, last_msg}
      /\ down' => pc = "session"
      /\ pc # "session" => last_msg' = 0
  BY DEF LineDown, LineUp, channel, task, state, BInv, QuietOK
<1>2. TaskOK'
  <2>1. last_msg' \in Nat
    BY <1>1 DEF BInv, TaskOK
  <2>. QED
    BY <1>1, <2>1 DEF BInv, TaskOK
<1>3. LineOK' /\ SubscribedOK' /\ QuietOK' /\ CloseOK'
  BY <1>1 DEF BInv, LineOK, SubscribedOK, QuietOK, CloseOK
<1>4. SilenceOK'
  BY <1>1, Constants DEF BInv, TaskOK, SilenceOK
<1>5. HeldOK'
  <2>1. CASE LineDown
    <3>1. \A i \in DOMAIN line : line[i].age = 0
      BY <2>1 DEF LineDown
    <3>2. 0 <= last_msg' /\ 0 <= last_ts
      BY <1>1, Constants DEF BInv, TaskOK
    <3>. QED
      BY <1>1, <3>1, <3>2 DEF HeldOK
  <2>2. CASE LineUp
    BY <2>2 DEF LineUp, HeldOK
  <2>. QED
    BY <2>1, <2>2
<1>6. BooksOK'
  BY <1>1 DEF BInv, BooksOK, Coming
<1>. QED
  BY <1>2, <1>3, <1>4, <1>5, <1>6 DEF BInv

(* Time passes: over a line that is up, there is nothing to grow old.       *)
LEMMA AdvanceFits == BInv /\ Advance => BInv'
<1>. SUFFICES ASSUME BInv, Advance PROVE BInv'
  OBVIOUS
<1>1. /\ UNCHANGED <<announced, unseen, down, pc, market, backoff, books, rollovers>>
      /\ nap' = (IF nap > 0 THEN nap - 1 ELSE 0) /\ last_ts' = Lesser(last_ts + 1, Never)
      /\ line' = [i \in DOMAIN line |-> [line[i] EXCEPT !.age = @ + 1]]
  BY DEF Advance, channel
<1>2. /\ pc = "session" => last_msg' = last_msg + 1 /\ ping' = ping + 1
      /\ pc # "session" => last_msg' = last_msg /\ ping' = ping
      /\ pc = "session" => ping # PingEvery /\ (down \/ line = <<>>)
  BY DEF Advance, Ready
<1>3. TaskOK'
  <2>1. nap' \in 0 .. MaxBackoff /\ last_ts' \in 0 .. Never
    BY <1>1, Constants DEF BInv, TaskOK, Lesser
  <2>2. last_msg' \in Nat /\ ping' \in 0 .. PingEvery
    <3>1. last_msg \in Nat /\ ping \in 0 .. PingEvery
      BY DEF BInv, TaskOK
    <3>. QED
      BY <1>2, <3>1, Constants
  <2>. QED
    BY <1>1, <2>1, <2>2 DEF BInv, TaskOK
<1>4. SilenceOK'
  <2>1. last_msg \in Nat /\ ping \in Nat /\ last_msg <= Zombie + ping
    BY Constants DEF BInv, TaskOK, SilenceOK
  <2>. QED
    BY <1>2, <2>1, Constants DEF SilenceOK
<1>5. CASE line = <<>>
  <2>1. line' = <<>>
    BY <1>1, <1>5
  <2>2. LineOK' /\ HeldOK'
    BY <1>5, <2>1 DEF BInv, LineOK, HeldOK
  <2>3. SubscribedOK' /\ QuietOK' /\ CloseOK'
    BY <1>1, <1>2, <2>1, Constants
       DEF BInv, SubscribedOK, QuietOK, CloseOK, TaskOK, Lesser
  <2>4. BooksOK'
    BY <1>1, <1>5, <2>1 DEF BInv, BooksOK, Coming
  <2>. QED
    BY <1>3, <1>4, <2>2, <2>3, <2>4 DEF BInv
<1>6. CASE line # <<>>
  <2>1. pc = "session" /\ down /\ ping < PingEvery
    BY <1>2, <1>6, Constants DEF BInv, QuietOK, TaskOK
  <2>2. /\ DOMAIN line' = DOMAIN line
        /\ DOMAIN line = 1 .. Len(line) /\ Len(line) \in Nat
    BY <1>1, LenProperties DEF BInv, LineOK
  <2>3. ASSUME NEW i \in DOMAIN line
        PROVE  /\ line'[i] \in Events /\ line'[i].age = line[i].age + 1
               /\ line'[i].token = line[i].token /\ line'[i].kind = line[i].kind
               /\ line[i].age + 1 <= last_msg'
               /\ line[i].age + 1 <= last_ts' \/ last_ts' = Never
    <3>1. line[i] \in Events /\ line[i].age \in 0 .. Silence
      BY LineTypes DEF BInv
    <3>2. line'[i] = [line[i] EXCEPT !.age = @ + 1]
      BY <1>1
    <3>3. line[i].age <= last_msg /\ (line[i].age <= last_ts \/ last_ts = Never)
      BY <2>1 DEF BInv, HeldOK
    <3>4. /\ last_msg \in Nat /\ last_msg <= Zombie + ping /\ ping \in Nat
          /\ last_ts \in 0 .. Never
      BY Constants DEF BInv, TaskOK, SilenceOK
    <3>5. line[i].age + 1 \in 0 .. Silence
      BY <2>1, <3>1, <3>3, <3>4, Constants
    <3>6. line'[i] \in Events /\ line'[i].age = line[i].age + 1
          /\ line'[i].token = line[i].token /\ line'[i].kind = line[i].kind
      BY <3>1, <3>2, <3>5 DEF Events
    <3>7. line[i].age + 1 <= last_msg'
      BY <1>2, <2>1, <3>1, <3>3, <3>4
    <3>8. line[i].age + 1 <= last_ts' \/ last_ts' = Never
      BY <1>1, <3>1, <3>3, <3>4, Constants DEF Lesser
    <3>. QED
      BY <3>6, <3>7, <3>8
  <2>4. line' \in Seq(Events) /\ Len(line') = Len(line)
    <3>. DEFINE n == Len(line)
    <3>1. n \in Nat /\ DOMAIN line' = 1 .. n /\ \A i \in 1 .. n : line'[i] \in Events
      BY <2>2, <2>3
    <3>2. line' = [i \in 1 .. n |-> line'[i]]
      BY <1>1, <2>2
    <3>. HIDE DEF n
    <3>3. line' \in [1 .. n -> Events]
      BY <3>1, <3>2
    <3>4. line' \in Seq(Events)
      BY <3>1, <3>3, SeqDef
    <3>5. Len(line') \in Nat /\ DOMAIN line' = 1 .. Len(line')
      BY <3>4, LenProperties
    <3>6. 1 .. Len(line') = 1 .. n
      BY <3>1, <3>5
    <3>7. Len(line') = n
      BY <3>1, <3>5, <3>6
    <3>. QED
      BY <3>4, <3>7 DEF n
  <2>5. LineOK'
    BY <1>1, <2>2, <2>3, <2>4 DEF BInv, LineOK
  <2>6. HeldOK'
    BY <2>2, <2>3 DEF HeldOK
  <2>7. SubscribedOK' /\ QuietOK' /\ CloseOK'
    BY <1>1, <2>1 DEF BInv, SubscribedOK, QuietOK, CloseOK
  <2>8. BooksOK'
    <3>1. ASSUME NEW t \in Tokens, Coming(t) PROVE Coming(t)'
      <4>1. PICK i \in DOMAIN line : line[i].token = t /\ line[i].kind = "book"
        BY <3>1 DEF Coming
      <4>2. i \in DOMAIN line' /\ line'[i].token = t /\ line'[i].kind = "book"
        BY <2>2, <2>3, <4>1
      <4>. QED
        BY <4>2 DEF Coming
    <3>. QED
      BY <1>1, <3>1 DEF BInv, BooksOK
  <2>. QED
    BY <1>3, <1>4, <2>5, <2>6, <2>7, <2>8 DEF BInv
<1>. QED
  BY <1>5, <1>6

(* The first event on the line is applied to its book.                      *)
LEMMA ReceiveFits == BInv /\ Receive => BInv'
<1>. SUFFICES ASSUME BInv, Receive PROVE BInv'
  OBVIOUS
<1>1. /\ pc = "session" /\ ~down /\ line # <<>> /\ line' = Tail(line)
      /\ books' = Apply(books, Head(line)) /\ last_ts' = 0 /\ last_msg' = 0
      /\ UNCHANGED <<announced, unseen, down, pc, market, backoff, nap, ping, rollovers>>
  BY DEF Receive, channel
<1>. DEFINE e == line[1]
<1>2. /\ Head(line) = e /\ e \in Events
      /\ line' \in Seq(Events) /\ Len(line') = Len(line) - 1 /\ Len(line) \in Nat \ {0}
      /\ DOMAIN line' = 1 .. Len(line) - 1 /\ DOMAIN line = 1 .. Len(line)
      /\ \A i \in 1 .. Len(line) - 1 : line'[i] = line[i + 1]
  BY <1>1, LineTail DEF BInv, LineOK
<1>3. e.token \in Tokens /\ e.token[1] = market
  BY <1>2, LineTypes DEF BInv, LineOK
<1>4. LineOK'
  <2>1. Len(line') <= MaxFlight
    BY <1>2, Constants DEF BInv, LineOK
  <2>2. ASSUME NEW i \in DOMAIN line' PROVE line'[i].token[1] = market'
    <3>1. i + 1 \in DOMAIN line /\ line'[i] = line[i + 1]
      BY <1>2
    <3>. QED
      BY <1>1, <3>1 DEF BInv, LineOK
  <2>. QED
    BY <1>2, <2>1, <2>2 DEF LineOK
<1>5. /\ books' \in [Tokens -> States]
      /\ \A t \in Tokens : books'[t] = books[t] \/ (t = e.token /\ books'[t] = "session")
      /\ e.kind = "book" => books'[e.token] = "session"
  BY <1>1, <1>2, <1>3 DEF BInv, TaskOK, Apply, States
<1>6. TaskOK'
  <2>1. last_msg' \in Nat /\ last_ts' \in 0 .. Never
    BY <1>1, Constants
  <2>. QED
    BY <1>1, <1>5, <2>1 DEF BInv, TaskOK
<1>7. SubscribedOK' /\ QuietOK' /\ HeldOK' /\ CloseOK'
  BY <1>1 DEF BInv, SubscribedOK, QuietOK, HeldOK, CloseOK
<1>8. SilenceOK'
  BY <1>1, Constants DEF BInv, TaskOK, SilenceOK
<1>9. BooksOK'
  <2>1. ASSUME NEW t \in Tokens, t[1] > market PROVE books'[t] = "none"
    <3>1. t # e.token
      BY <1>3, <2>1, Constants DEF BInv, TaskOK
    <3>. QED
      BY <1>5, <2>1, <3>1 DEF BInv, BooksOK
  <2>2. ASSUME NEW t \in Tokens, t[1] = market, books'[t] # "session" PROVE Coming(t)'
    <3>1. books[t] # "session"
      BY <1>5, <2>2
    <3>2. PICK i \in DOMAIN line : line[i].token = t /\ line[i].kind = "book"
      BY <1>1, <2>2, <3>1 DEF BInv, BooksOK, Coming
    <3>3. i # 1
      BY <1>5, <2>2, <3>2
    <3>4. i - 1 \in 1 .. Len(line) - 1 /\ (i - 1) + 1 = i
      BY <1>2, <3>3
    <3>5. i - 1 \in DOMAIN line' /\ line'[i - 1] = line[i]
      BY <1>2, <3>4
    <3>. QED
      BY <3>2, <3>5 DEF Coming
  <2>. QED
    BY <1>1, <2>1, <2>2 DEF BooksOK
<1>. QED
  BY <1>4, <1>6, <1>7, <1>8, <1>9 DEF BInv

-----------------------------------------------------------------------------
(* The task begins with nothing.                                            *)
LEMMA InitBInv == Init => BInv
<1>. SUFFICES ASSUME Init PROVE BInv
  OBVIOUS
<1>. USE DEF Init
<1>1. TaskOK
  <2>1. announced \in None .. Markets /\ market \in None .. announced
    BY Constants
  <2>2. backoff \in 1 .. MaxBackoff /\ nap \in 0 .. MaxBackoff
    BY Constants
  <2>3. last_msg \in Nat /\ ping \in 0 .. PingEvery /\ last_ts \in 0 .. Never /\ rollovers \in Nat
    BY Constants
  <2>4. unseen \in BOOLEAN /\ down \in BOOLEAN /\ pc \in Pcs /\ books \in [Tokens -> States]
    BY DEF Pcs, States
  <2>. QED
    BY <2>1, <2>2, <2>3, <2>4 DEF TaskOK
<1>2. LineOK
  BY EmptySeq, Constants DEF LineOK
<1>3. SubscribedOK /\ QuietOK /\ SilenceOK /\ HeldOK /\ CloseOK
  BY Constants DEF SubscribedOK, QuietOK, SilenceOK, HeldOK, CloseOK
<1>4. BooksOK
  BY DEF BooksOK
<1>. QED
  BY <1>1, <1>2, <1>3, <1>4 DEF BInv

(* No step of the loop, the line or the task leaves the invariant.          *)
LEMMA NextBInv == BInv /\ [Next]_vars => BInv'
<1>. SUFFICES ASSUME BInv, [Next]_vars PROVE BInv'
  OBVIOUS
<1>1. CASE UNCHANGED vars
  <2>1. /\ UNCHANGED <<announced, unseen, line, down, pc, market, backoff, nap>>
        /\ UNCHANGED <<last_msg, ping, books, last_ts, rollovers>>
    BY <1>1 DEF vars, channel, network, task, state
  <2>. QED
    BY <2>1 DEF BInv, TaskOK, LineOK, SubscribedOK, QuietOK, SilenceOK, HeldOK,
                BooksOK, Coming, CloseOK
<1>2. CASE Announce \/ Advance \/ Change \/ LineDown \/ LineUp
  BY <1>2, AnnounceFits, AdvanceFits, ChangeFits, DownUpFits
<1>3. CASE Boot \/ Unpark \/ Wake \/ Connected \/ Broken \/ Closed
  BY <1>3, BeginFits, ConnectedFits, BreakFits
<1>4. CASE Receive \/ Ping \/ Rollover
  BY <1>4, ReceiveFits, PingFits, RolloverFits
<1>. QED
  BY <1>1, <1>2, <1>3, <1>4 DEF Next

(* The invariant of the books, whatever the line does.                      *)
THEOREM BInvHolds == Spec => []BInv
BY InitBInv, NextBInv, PTL DEF Spec

(* The types; among them, run_session() never holds a session silent for    *)
(* longer than its ping's next look, and the line is that of one market.    *)
THEOREM FeedTypeCorrect == Spec => []TypeOK
<1>1. BInv => TypeOK
  <2>. SUFFICES ASSUME BInv PROVE TypeOK
    OBVIOUS
  <2>1. last_msg \in 0 .. Silence
    BY Constants DEF BInv, TaskOK, SilenceOK
  <2>. QED
    BY <2>1 DEF BInv, TaskOK, LineOK, TypeOK, Pcs, States
<1>. QED
  BY <1>1, BInvHolds, PTL

(* best_book() is served a book of a past session only while the session's  *)
(* own snapshot of it is on its way.                                        *)
THEOREM PastIsReplacedHolds == Spec => []PastIsReplaced
<1>1. BInv => PastIsReplaced
  <2>. SUFFICES ASSUME BInv, NEW t \in Tokens, Served(t), books[t] = "past"
                PROVE  pc = "session" /\ \E i \in Pending(t) : line[i].kind = "book"
    BY DEF PastIsReplaced
  <2>1. t[1] = announced /\ last_ts <= MaxAge
    BY DEF Served, FreshBook
  <2>2. pc = "session"
    BY <2>1, Constants DEF BInv, QuietOK
  <2>3. ~(t[1] > market)
    BY DEF BInv, BooksOK
  <2>4. t[1] = market
    BY <2>1, <2>3, Constants DEF BInv, TaskOK
  <2>5. Coming(t)
    BY <2>2, <2>4 DEF BInv, BooksOK
  <2>. QED
    BY <2>2, <2>5 DEF Coming, Pending
<1>. QED
  BY <1>1, BInvHolds, PTL

(* How far behind the book served by fresh_book() may be.                   *)
THEOREM ServedLagHolds == Spec => []ServedLag
<1>1. BInv => ServedLag
  <2>. SUFFICES ASSUME BInv, NEW t \in Tokens, Served(t), NEW i \in Pending(t)
                PROVE  line[i].age <= IF down THEN MaxAge ELSE Silence
    BY DEF ServedLag
  <2>1. i \in DOMAIN line /\ last_ts <= MaxAge
    BY DEF Pending, Served, FreshBook
  <2>2. line[i].age \in 0 .. Silence
    BY <2>1, LineTypes DEF BInv
  <2>3. CASE down
    <3>1. line[i].age <= last_ts \/ last_ts = Never
      BY <2>1, <2>3 DEF BInv, HeldOK
    <3>2. last_ts \in 0 .. Never
      BY DEF BInv, TaskOK
    <3>. QED
      BY <2>1, <2>2, <2>3, <3>1, <3>2, Constants
  <2>4. CASE ~down
    BY <2>2, <2>4, Constants
  <2>. QED
    BY <2>3, <2>4
<1>. QED
  BY <1>1, BInvHolds, PTL

(* A market announced in the watch channel closes one session at most.      *)
THEOREM OneCloseEachHolds == Spec => []OneCloseEach
<1>1. BInv => OneCloseEach
  BY DEF BInv, CloseOK, OneCloseEach
<1>. QED
  BY <1>1, BInvHolds, PTL
=============================================================================
