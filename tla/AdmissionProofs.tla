-------------------------- MODULE AdmissionProofs --------------------------
(***************************************************************************)
(* Proofs about what a client must have to connect: a challenge            *)
(* (Challenge), for any clients, size of the table and length of a         *)
(* timestamp, and an address that is not banned (Bans), for any addresses, *)
(* spellings and size of the list; and about the protocol by which it then *)
(* enters the world of a map (ClientProtocol), for any losses, maps and    *)
(* restarts, chat and length of a download.                                *)
(*                                                                         *)
(* The table: an entry only holds a challenge sent to its address          *)
(* (OnlyAnswered), so that a connect that does not find one cannot double  *)
(* it (NoDuplicates).  The window: every challenge of this server was made *)
(* with the key of the cvar and the timestamp of its time (Followed), and  *)
(* the parity tells which of the last two timestamps that was.  The order: *)
(* the entry followed is there with its time, or was replaced by a younger *)
(* one while the others were not older (Queued).                           *)
(*                                                                         *)
(* The bans: what AddIP does to a list (Adds), then to the end of a file   *)
(* that is read (ListRead, ListGrows) or written (LinesOf), by induction   *)
(* on its lines.  A list that fits has room for each of its filters        *)
(* (RoomForAll): it would otherwise be full of other ones, all different.  *)
(*                                                                         *)
(* The protocol: all that a client has ever said is a text T, in the order *)
(* that its code speaks (Grammar).  What was not acknowledged, what is in  *)
(* a message, and what the server has run are places in that text          *)
(* (Counts); so that the state of the server follows from what it has run  *)
(* (Follows), and the state of the client from what it said last           *)
(* (ClientGoesOn).  The rest relates the two: the map of a message         *)
(* (Maps, Answers), the block that is awaited (Downloads, SaidSince) and   *)
(* the checksums (Checksums, Moves).  Known is all of it.                  *)
(***************************************************************************)
EXTENDS Challenge, MCBans, Arithmetic, FiniteSetTheorems, SequenceTheorems,
        MCClientProtocol, TLAPS

-----------------------------------------------------------------------------
(* Types *)

\* What Admit does to the table: nothing, or one entry made.
Makes(c, from, i) ==
    /\ ~Found(c, from) /\ Oldest(i)
    /\ table' = [table EXCEPT ![i] = [adr |-> from, challenge |-> c, time |-> time]]
    /\ c.adr = from
    /\ watch' = Noted(c, from, "new")

\* A verified challenge is the one of the address.
LEMMA VerifyFacts ==
    ASSUME NEW k, NEW c, NEW from, Verify(k, c, from)
    PROVE  c.adr = from /\ c.key = k
  BY DEF Verify, Create

LEMMA AdmitCases ==
    ASSUME NEW c, NEW from, Admit(c, from)
    PROVE  \/ UNCHANGED table /\ Found(c, from) /\ watch' = Noted(c, from, "known")
           \/ UNCHANGED table /\ ~Found(c, from) /\ watch' = Noted(c, from, "refused")
           \/ \E i \in Slots : Makes(c, from, i)
  BY VerifyFacts DEF Admit, Makes

LEMMA NotedType ==
    ASSUME TypeOK, NEW c, NEW from, NEW verdict \in {"new", "known", "refused"}
    PROVE  LET w == Noted(c, from, verdict) IN
           /\ w \in WatchType
           /\ w.challenge = watch.challenge /\ w.at = watch.at
           /\ w.made # watch.made => w.made = time
           /\ w # watch => /\ c = watch.challenge /\ from = c.adr /\ w.verdict = verdict
                           /\ w.made = IF verdict = "new" THEN time ELSE watch.made
<1> DEFINE w == Noted(c, from, verdict)
<1>1. watch \in WatchType /\ time \in Nat
  BY DEF TypeOK
<1>2. CASE c # watch.challenge \/ from # c.adr
  BY <1>1, <1>2 DEF Noted
<1>3. CASE ~(c # watch.challenge \/ from # c.adr)
  <2> DEFINE made == IF verdict = "new" THEN time ELSE watch.made
  <2>1. w = [watch EXCEPT !.verdict = verdict, !.made = made]
    BY <1>3 DEF Noted
  <2>2. made \in Nat
    BY <1>1 DEF WatchType
  <2> HIDE DEF w
  <2>3. /\ w \in WatchType
        /\ w.challenge = watch.challenge /\ w.at = watch.at
        /\ w.made = made /\ w.verdict = verdict
    BY <1>1, <2>1, <2>2 DEF WatchType
  <2>4. QED
    BY <1>3, <2>3 DEF w
<1>4. QED
  BY <1>2, <1>3

LEMMA LoadKeyType ==
    ASSUME NEW k, LoadKey(k), keyCvar \in Keys \cup {NoKey}
    PROVE  k \in Keys /\ key' \in Keys /\ keyCvar' \in Keys \cup {NoKey}
  BY DEF LoadKey

LEMMA TypeStep == TypeOK /\ [Next]_vars => TypeOK'
<1> SUFFICES ASSUME TypeOK, [Next]_vars PROVE TypeOK'
  OBVIOUS
<1>0. /\ time \in Nat \ {0} /\ Span \in Nat \ {0} /\ FirstTime \in Nat \ {0}
      /\ NoAddr \notin Addrs
      /\ issued \subseteq Challenges
  BY ChallengeAssumption DEF TypeOK
<1>1. ASSUME NEW a \in Addrs, Answer(a) PROVE TypeOK'
  <2>1. PICK k \in Keys :
          /\ LoadKey(k)
          /\ issued' = issued \cup {Create(k, Timestamp, a)}
          /\ \/ UNCHANGED watch
             \/ watch' = [NotWatching EXCEPT !.challenge = Create(k, Timestamp, a), !.at = time]
          /\ UNCHANGED <<time, table>>
    BY <1>1 DEF Answer
  <2>2. Create(k, Timestamp, a) \in Challenges
    <3>1. Timestamp \in Int
      BY <1>0 DEF Timestamp
    <3>2. QED
      BY <3>1 DEF Create, Challenges
  <2>3. watch' \in WatchType
    <3>1. CASE UNCHANGED watch
      BY <3>1 DEF TypeOK
    <3>2. CASE watch' = [NotWatching EXCEPT !.challenge = Create(k, Timestamp, a), !.at = time]
      BY <1>0, <2>2, <3>2 DEF NotWatching, WatchType
    <3>3. QED
      BY <2>1, <3>1, <3>2
  <2>4. key' \in Keys /\ keyCvar' \in Keys \cup {NoKey}
    BY <2>1, LoadKeyType DEF TypeOK
  <2>5. QED
    BY <2>1, <2>2, <2>3, <2>4 DEF TypeOK
<1>2. ASSUME NEW a \in Addrs, Connect(a) PROVE TypeOK'
  <2>1. PICK c \in issued : Admit(c, a)
    BY <1>2 DEF Connect
  <2>2. UNCHANGED <<time, issued>>
    BY <1>2 DEF Connect
  <2>3. watch' \in WatchType
    BY <2>1, AdmitCases, NotedType DEF Makes
  <2>4. table' \in [Slots -> EntryType]
    <3>1. ASSUME NEW i \in Slots, Makes(c, a, i) PROVE table' \in [Slots -> EntryType]
      <4>1. [adr |-> a, challenge |-> c, time |-> time] \in EntryType
        BY <1>0, <2>1 DEF EntryType
      <4>2. QED
        BY <3>1, <4>1 DEF Makes, TypeOK
    <3>2. QED
      BY <2>1, <3>1, AdmitCases DEF TypeOK
  <2>5. key' \in Keys \cup {NoKey} /\ keyCvar' \in Keys \cup {NoKey}
    BY <2>1, LoadKeyType DEF Admit, TypeOK
  <2>6. QED
    BY <2>2, <2>3, <2>4, <2>5 DEF TypeOK
<1>3. CASE Tick
  <2>1. watch' \in WatchType /\ time' \in Nat \ {0}
    BY <1>3 DEF Tick, TypeOK, WatchType
  <2>2. QED
    BY <1>3, <2>1 DEF Tick, TypeOK
<1>4. CASE MapChange
  BY <1>4 DEF MapChange, TypeOK
<1>5. CASE KillServer
  <2>1. watch' \in WatchType
    BY <1>5 DEF KillServer, NotWatching, WatchType
  <2>2. table' \in [Slots -> EntryType]
    BY <1>5 DEF KillServer, EntryType
  <2>3. QED
    BY <1>0, <1>5, <2>1, <2>2 DEF KillServer, TypeOK
<1>6. CASE UNCHANGED vars
  BY <1>6 DEF vars, TypeOK
<1>7. QED
  BY <1>1, <1>2, <1>3, <1>4, <1>5, <1>6 DEF Next

\* Every variable keeps its type.
THEOREM TypeCorrect == Spec => []TypeOK
<1>1. Init => TypeOK
  <2> SUFFICES ASSUME Init PROVE TypeOK
    OBVIOUS
  <2>1. watch \in WatchType /\ table \in [Slots -> EntryType] /\ time \in Nat \ {0}
    BY ChallengeAssumption DEF Init, NotWatching, WatchType, EntryType
  <2>2. QED
    BY <2>1 DEF Init, TypeOK
<1>2. QED
  BY <1>1, TypeStep, PTL DEF Spec

-----------------------------------------------------------------------------
(* The table *)

LEMMA AnsweredStep == TypeOK /\ OnlyAnswered /\ [Next]_vars => OnlyAnswered'
<1> SUFFICES ASSUME TypeOK, OnlyAnswered, [Next]_vars,
                    NEW i \in Slots, table'[i] # EmptyEntry
             PROVE  table'[i].challenge \in issued' /\ table'[i].challenge.adr = table'[i].adr
  BY DEF OnlyAnswered, EmptyEntry
<1>1. ASSUME NEW a \in Addrs, Answer(a)
      PROVE  table'[i].challenge \in issued' /\ table'[i].challenge.adr = table'[i].adr
  BY <1>1 DEF Answer, OnlyAnswered
<1>2. ASSUME NEW a \in Addrs, Connect(a)
      PROVE  table'[i].challenge \in issued' /\ table'[i].challenge.adr = table'[i].adr
  <2>1. PICK c \in issued : Admit(c, a) /\ UNCHANGED issued
    BY <1>2 DEF Connect
  <2>2. CASE UNCHANGED table
    BY <2>1, <2>2 DEF OnlyAnswered
  <2>3. ASSUME NEW j \in Slots, Makes(c, a, j)
        PROVE  table'[i].challenge \in issued' /\ table'[i].challenge.adr = table'[i].adr
    BY <2>1, <2>3 DEF Makes, OnlyAnswered, TypeOK
  <2>4. QED
    BY <2>1, <2>2, <2>3, AdmitCases
<1>3. CASE Tick \/ MapChange \/ UNCHANGED vars
  BY <1>3 DEF Tick, MapChange, vars, OnlyAnswered
<1>4. CASE KillServer
  BY <1>4 DEF KillServer
<1>5. QED
  BY <1>1, <1>2, <1>3, <1>4 DEF Next

\* The table only holds addresses that answered.
THEOREM EntriesAnswered == Spec => []OnlyAnswered
<1>1. Init => OnlyAnswered
  BY DEF Init, OnlyAnswered
<1>2. QED
  BY <1>1, TypeCorrect, AnsweredStep, PTL DEF Spec

LEMMA DuplicatesStep ==
    TypeOK /\ OnlyAnswered /\ NoDuplicates /\ [Next]_vars => NoDuplicates'
<1> SUFFICES ASSUME TypeOK, OnlyAnswered, NoDuplicates, [Next]_vars
             PROVE  NoDuplicates'
  OBVIOUS
<1>1. ASSUME NEW a \in Addrs, Connect(a) PROVE NoDuplicates'
  <2>1. PICK c \in issued : Admit(c, a)
    BY <1>1 DEF Connect
  <2>2. CASE UNCHANGED table
    BY <2>2 DEF NoDuplicates
  <2>3. ASSUME NEW j \in Slots, Makes(c, a, j) PROVE NoDuplicates'
    <3>1. /\ table'[j] = [adr |-> a, challenge |-> c, time |-> time]
          /\ \A i \in Slots \ {j} : table'[i] = table[i]
      BY <2>3 DEF Makes, TypeOK
    <3>2. c # NoChallenge /\ EmptyEntry.challenge = NoChallenge
      BY <2>1, NoChallengeAssumption DEF TypeOK, EmptyEntry
    <3>3. ASSUME NEW i \in Slots PROVE table[i].challenge # c
      <4>1. CASE table[i] = EmptyEntry
        BY <3>2, <4>1
      <4>2. CASE table[i] # EmptyEntry
        <5>1. ~Matches(i, c, a) /\ c.adr = a
          BY <2>3 DEF Makes, Found
        <5>2. table[i].challenge.adr = table[i].adr
          BY <4>2 DEF OnlyAnswered
        <5>3. QED
          BY <5>1, <5>2 DEF Matches
      <4>3. QED
        BY <4>1, <4>2
    <3>4. QED
      BY <3>1, <3>3 DEF NoDuplicates
  <2>4. QED
    BY <2>1, <2>2, <2>3, AdmitCases
<1>2. CASE (\E a \in Addrs : Answer(a)) \/ Tick \/ MapChange \/ UNCHANGED vars
  <2>1. UNCHANGED table
    BY <1>2 DEF Answer, Tick, MapChange, vars
  <2>2. QED
    BY <2>1 DEF NoDuplicates
<1>3. CASE KillServer
  BY <1>3 DEF KillServer, NoDuplicates
<1>4. QED
  BY <1>1, <1>2, <1>3 DEF Next

\* A connect sent again takes no other entry.
THEOREM RetriesShareAnEntry == Spec => []NoDuplicates
<1>1. Init => NoDuplicates
  BY DEF Init, NoDuplicates
<1>2. QED
  BY <1>1, TypeCorrect, EntriesAnswered, DuplicatesStep, PTL DEF Spec

-----------------------------------------------------------------------------
(* The window *)

\* The parity tells the last two timestamps apart.
LEMMA ParityFacts ==
    ASSUME NEW t \in Int, NEW s \in Int
    PROVE  LET u == t - ((t + (s % 2)) % 2) IN
           /\ u \in {t - 1, t}
           /\ s \in {t - 1, t} => s = u
<1>1. /\ t % 2 \in {0, 1} /\ s % 2 \in {0, 1}
      /\ (t + (s % 2)) % 2 \in {0, 1}
  BY SMT
<1>2. s = t => (t + (s % 2)) % 2 = 0
  BY SMT
<1>3. s = t - 1 => (t + (s % 2)) % 2 = 1
  BY SMT
<1>4. QED
  BY <1>1, <1>2, <1>3

\* A challenge made at "at" is verified for a timestamp at least, for less than
\* two.
LEMMA VerifyWindow ==
    ASSUME TypeOK, NEW k, NEW from, NEW at \in Nat, at <= time
    PROVE  LET c == Create(k, at \div Span, from) IN
           /\ Verify(k, c, from) => time - at < 2 * Span
           /\ ~Verify(k, c, from) => time - at >= Span
<1> DEFINE t == time \div Span
           s == at \div Span
           u == t - ((t + (s % 2)) % 2)
           c == Create(k, s, from)
<1>1. Span \in Nat \ {0} /\ time \in Nat
  BY ChallengeAssumption DEF TypeOK
<1>2. t \in Nat /\ time % Span \in 0..(Span - 1) /\ time = Span * t + (time % Span)
  BY <1>1, Division
<1>3. s \in Nat /\ at % Span \in 0..(Span - 1) /\ at = Span * s + (at % Span)
  BY <1>1, Division
<1>4. Verify(k, c, from) <=> s = u
  BY DEF Verify, Create, Parity, Timestamp
<1> HIDE DEF t, s
<1>5. u \in {t - 1, t} /\ (s \in {t - 1, t} => s = u)
  BY <1>2, <1>3, ParityFacts
<1> HIDE DEF u
<1>6. Span * s \in Int /\ Span * t \in Int
  BY <1>1, <1>2, <1>3
<1>7. s <= t
  <2>1. s > t => Span * s >= Span * t + Span
    BY <1>1, <1>2, <1>3, Times
  <2>2. QED
    BY <1>1, <1>2, <1>3, <1>6, <2>1
<1>8. s = u => time - at < 2 * Span
  <2>1. s = t - 1 => Span * s = Span * t - Span
    BY <1>1, <1>2, SMT
  <2>2. QED
    BY <1>1, <1>2, <1>3, <1>5, <1>6, <2>1
<1>9. s # u => time - at >= Span
  <2>1. s # u => t - 1 > s
    BY <1>2, <1>3, <1>5, <1>7
  <2>2. t - 1 > s => Span * (t - 1) >= Span * s + Span
    BY <1>1, <1>2, <1>3, Times
  <2>3. Span * (t - 1) = Span * t - Span
    BY <1>1, <1>2, SMT
  <2>4. QED
    BY <1>1, <1>2, <1>3, <1>6, <2>1, <2>2, <2>3
<1>10. QED
  BY <1>4, <1>8, <1>9 DEF s

\* The challenge that is followed was made by this server, with the key that
\* the next load will read, and the timestamp of its time.
Followed ==
    /\ key # NoKey => key = keyCvar
    /\ watch.challenge = NoChallenge => watch.verdict = "none"
    /\ watch.challenge # NoChallenge =>
         /\ watch.at <= time
         /\ keyCvar # NoKey
         /\ watch.challenge = Create(keyCvar, watch.at \div Span, watch.challenge.adr)

LEMMA LoadKeyFacts ==
    ASSUME NEW k, LoadKey(k), key # NoKey => key = keyCvar, TypeOK
    PROVE  key' = k /\ keyCvar' = k /\ k # NoKey /\ (keyCvar # NoKey => k = keyCvar)
  BY ChallengeAssumption DEF LoadKey, TypeOK

LEMMA WindowStep ==
    TypeOK /\ TypeOK' /\ Followed /\ Window /\ [Next]_vars => Followed' /\ Window'
<1> SUFFICES ASSUME TypeOK, TypeOK', Followed, Window, [Next]_vars
             PROVE  Followed' /\ Window'
  OBVIOUS
<1>0. /\ time \in Nat /\ Span \in Nat \ {0} /\ watch \in WatchType /\ watch.at \in Nat
      /\ NoKey \notin Keys
  BY ChallengeAssumption DEF TypeOK, WatchType
<1>1. ASSUME NEW a \in Addrs, Answer(a) PROVE Followed' /\ Window'
  <2>1. PICK k \in Keys :
          /\ LoadKey(k)
          /\ issued' = issued \cup {Create(k, Timestamp, a)}
          /\ \/ UNCHANGED watch
             \/ watch' = [NotWatching EXCEPT !.challenge = Create(k, Timestamp, a), !.at = time]
          /\ UNCHANGED <<time, table>>
    BY <1>1 DEF Answer
  <2>2. key' = k /\ keyCvar' = k /\ k # NoKey /\ (keyCvar # NoKey => k = keyCvar)
    BY <2>1, LoadKeyFacts DEF Followed
  <2>3. CASE UNCHANGED watch
    BY <2>1, <2>2, <2>3 DEF Followed, Window
  <2>4. CASE watch' = [NotWatching EXCEPT !.challenge = Create(k, Timestamp, a), !.at = time]
    <3>1. watch'.challenge = Create(k, Timestamp, a) /\ watch'.at = time /\ watch'.verdict = "none"
      BY <2>4 DEF NotWatching
    <3>2. Create(k, Timestamp, a).adr = a
      BY DEF Create
    <3>3. QED
      BY <1>0, <2>1, <2>2, <3>1, <3>2 DEF Followed, Window, Timestamp
  <2>5. QED
    BY <2>1, <2>3, <2>4
<1>2. ASSUME NEW a \in Addrs, Connect(a) PROVE Followed' /\ Window'
  <2>1. PICK c \in issued : Admit(c, a)
    BY <1>2 DEF Connect
  <2>2. time' = time /\ c # NoChallenge
    BY <1>2, <2>1, NoChallengeAssumption DEF Connect, TypeOK
  <2>3. \/ UNCHANGED <<key, keyCvar>> /\ watch' = Noted(c, a, "known")
        \/ \E k \in Keys :
             LoadKey(k) /\ watch' = Noted(c, a, IF Verify(k, c, a) THEN "new" ELSE "refused")
    BY <2>1 DEF Admit
  <2>4. PICK verdict \in {"known", "new", "refused"} :
          /\ watch' = Noted(c, a, verdict)
          /\ \/ UNCHANGED <<key, keyCvar>> /\ verdict = "known"
             \/ \E k \in Keys :
                  LoadKey(k) /\ verdict = IF Verify(k, c, a) THEN "new" ELSE "refused"
    <3>1. CASE UNCHANGED <<key, keyCvar>> /\ watch' = Noted(c, a, "known")
      BY <3>1
    <3>2. ASSUME NEW k \in Keys, LoadKey(k),
                 watch' = Noted(c, a, IF Verify(k, c, a) THEN "new" ELSE "refused")
          PROVE  \E verdict \in {"new", "refused"} :
                   /\ watch' = Noted(c, a, verdict)
                   /\ verdict = IF Verify(k, c, a) THEN "new" ELSE "refused"
      BY <3>2
    <3>3. QED
      BY <2>3, <3>1, <3>2
  <2>5. /\ key' # NoKey => key' = keyCvar'
        /\ keyCvar # NoKey => keyCvar' = keyCvar
    BY <2>4, LoadKeyFacts DEF Followed
  <2>6. watch'.challenge = watch.challenge /\ watch'.at = watch.at
    BY <2>4, NotedType
  <2>7. CASE watch' = watch
    BY <2>2, <2>5, <2>7 DEF Followed, Window
  <2>8. CASE watch' # watch
    <3>1. c = watch.challenge /\ a = c.adr /\ watch'.verdict = verdict
      BY <2>4, <2>8, NotedType
    <3>2. /\ watch.at <= time /\ keyCvar # NoKey
          /\ c = Create(keyCvar, watch.at \div Span, a)
      BY <2>2, <3>1 DEF Followed
    <3>3. Followed'
      BY <2>2, <2>5, <2>6, <3>1, <3>2 DEF Followed
    <3>4. CASE verdict = "known"
      BY <3>1, <3>3, <3>4 DEF Window
    <3>5. ASSUME NEW k \in Keys, LoadKey(k),
                 verdict = IF Verify(k, c, a) THEN "new" ELSE "refused"
          PROVE  Window'
      <4>1. k = keyCvar
        BY <3>2, <3>5, LoadKeyFacts DEF Followed
      <4>2. watch'.verdict = IF Verify(k, c, a) THEN "new" ELSE "refused"
        BY <3>1, <3>5
      <4>3. /\ Verify(k, c, a) => time - watch.at < 2 * Span
            /\ ~Verify(k, c, a) => time - watch.at >= Span
        BY <1>0, <3>2, <4>1, VerifyWindow
      <4>4. QED
        BY <2>2, <2>6, <4>2, <4>3 DEF Window
    <3>6. QED
      BY <2>4, <3>3, <3>4, <3>5
  <2>9. QED
    BY <2>7, <2>8
<1>3. CASE Tick
  <2>1. /\ watch'.challenge = watch.challenge /\ watch'.at = watch.at /\ watch'.verdict = "none"
        /\ time' = time + 1 /\ UNCHANGED <<key, keyCvar>>
    BY <1>0, <1>3 DEF Tick, WatchType
  <2>2. QED
    BY <1>0, <2>1 DEF Followed, Window
<1>4. CASE MapChange
  BY <1>4 DEF MapChange, Followed, Window
<1>5. CASE KillServer
  BY <1>5 DEF KillServer, NotWatching, Followed, Window
<1>6. CASE UNCHANGED vars
  BY <1>6 DEF vars, Followed, Window
<1>7. QED
  BY <1>1, <1>2, <1>3, <1>4, <1>5, <1>6 DEF Next

\* A challenge is good for a timestamp at least and for less than two, across
\* map changes.
THEOREM WindowHolds == Spec => []Window
<1>1. Init => Followed /\ Window
  BY DEF Init, Followed, Window, NotWatching
<1>2. QED
  BY <1>1, TypeCorrect, WindowStep, PTL DEF Spec

-----------------------------------------------------------------------------
(* The order *)

\* No entry is of the future; the one followed is there with its time, or no
\* entry is older.
Queued ==
    /\ \A i \in Slots : table[i].time <= time
    /\ watch.made <= time
    /\ watch.made # 0 =>
         \/ \E i \in Slots : /\ Matches(i, watch.challenge, watch.challenge.adr)
                             /\ table[i].time = watch.made
         \/ \A i \in Slots : table[i].time >= watch.made

LEMMA QueuedStep == TypeOK /\ TypeOK' /\ Queued /\ [Next]_vars => Queued'
<1> SUFFICES ASSUME TypeOK, TypeOK', Queued, [Next]_vars PROVE Queued'
  OBVIOUS
<1>0. /\ time \in Nat \ {0} /\ watch \in WatchType /\ watch.made \in Nat
      /\ \A i \in Slots : table[i].time \in Nat
      /\ FirstTime \in Nat
  BY ChallengeAssumption DEF TypeOK, WatchType, EntryType, EmptyEntry
<1>1. ASSUME NEW a \in Addrs, Answer(a) PROVE Queued'
  <2>1. UNCHANGED <<time, table>> /\ (watch' = watch \/ watch'.made = 0)
    BY <1>1 DEF Answer, NotWatching
  <2>2. QED
    BY <1>0, <2>1 DEF Queued, Matches
<1>2. ASSUME NEW a \in Addrs, Connect(a) PROVE Queued'
  <2>1. PICK c \in issued : Admit(c, a)
    BY <1>2 DEF Connect
  <2>2. time' = time
    BY <1>2 DEF Connect
  <2>3. ASSUME UNCHANGED table, NEW verdict \in {"known", "refused"}, watch' = Noted(c, a, verdict)
        PROVE  Queued'
    <3>1. watch'.made = watch.made /\ watch'.challenge = watch.challenge
      BY <2>3, NotedType
    <3>2. QED
      BY <2>2, <2>3, <3>1 DEF Queued, Matches
  <2>4. ASSUME NEW j \in Slots, Makes(c, a, j) PROVE Queued'
    <3>1. /\ table'[j] = [adr |-> a, challenge |-> c, time |-> time]
          /\ \A i \in Slots \ {j} : table'[i] = table[i]
          /\ watch' = Noted(c, a, "new") /\ c.adr = a
      BY <2>4 DEF Makes, TypeOK
    <3>2. \A i \in Slots : table[j].time <= table[i].time
      BY <1>0, <2>4 DEF Makes, Oldest
    <3>3. table'[j].time = time /\ \A i \in Slots : table'[i].time <= time'
      BY <1>0, <2>2, <3>1 DEF Queued
    <3>4. CASE watch' = watch
      <4>1. ASSUME NEW i \in Slots, Matches(i, watch.challenge, watch.challenge.adr),
                   table[i].time = watch.made
            PROVE  \/ \E n \in Slots : /\ Matches(n, watch.challenge, watch.challenge.adr)'
                                       /\ table'[n].time = watch.made
                   \/ \A n \in Slots : table'[n].time >= watch.made
        <5>1. CASE i # j
          BY <3>1, <3>4, <4>1, <5>1 DEF Matches
        <5>2. CASE i = j
          BY <1>0, <3>1, <3>2, <3>3, <4>1, <5>2 DEF Queued
        <5>3. QED
          BY <5>1, <5>2
      <4>2. ASSUME \A i \in Slots : table[i].time >= watch.made
            PROVE  \A i \in Slots : table'[i].time >= watch.made
        BY <1>0, <3>1, <3>3, <4>2 DEF Queued
      <4>3. QED
        BY <2>2, <3>3, <3>4, <4>1, <4>2 DEF Queued
    <3>5. CASE watch' # watch
      <4>1. c = watch.challenge /\ watch'.challenge = c /\ watch'.made = time
        BY <3>1, <3>5, NotedType
      <4>2. Matches(j, watch.challenge, watch.challenge.adr)'
        BY <3>1, <4>1 DEF Matches
      <4>3. QED
        BY <1>0, <2>2, <3>3, <4>1, <4>2 DEF Queued
    <3>6. QED
      BY <3>4, <3>5
  <2>5. QED
    BY <2>1, <2>3, <2>4, AdmitCases
<1>3. CASE Tick
  <2>1. /\ time' = time + 1 /\ table' = table
        /\ watch'.challenge = watch.challenge /\ watch'.made = watch.made
    BY <1>0, <1>3 DEF Tick, WatchType
  <2>2. \A i \in Slots : table'[i].time <= time'
    BY <1>0, <2>1 DEF Queued
  <2>3. watch'.made <= time'
    BY <1>0, <2>1 DEF Queued
  <2>4. QED
    BY <2>1, <2>2, <2>3 DEF Queued, Matches
<1>4. CASE MapChange \/ UNCHANGED vars
  BY <1>4 DEF MapChange, vars, Queued, Matches
<1>5. CASE KillServer
  BY <1>0, <1>5 DEF KillServer, NotWatching, EmptyEntry, Queued
<1>6. QED
  BY <1>1, <1>2, <1>3, <1>4, <1>5 DEF Next

\* An entry is replaced only once no entry left is older.
THEOREM OldestLeavesFirst == Spec => []OnlyOldestLeave
<1>1. Init => Queued
  BY ChallengeAssumption DEF Init, Queued, NotWatching, EmptyEntry
<1>2. Queued => OnlyOldestLeave
  BY DEF Queued, OnlyOldestLeave, Found
<1>3. QED
  BY <1>1, <1>2, TypeCorrect, QueuedStep, PTL DEF Spec

\* Both: retries share an entry, and the entries leave in their order.
THEOREM EntriesKept == Spec => []OneEntryUntilOldest
<1>1. QED
  BY RetriesShareAnEntry, OldestLeavesFirst, PTL DEF OneEntryUntilOldest

-----------------------------------------------------------------------------
(* Bans: the list *)

Bans == B!Filters \cup {Hole}
Lists == Seq(Bans)
Spelled == B!Spellings \cup {Bad}

LEMMA BansLimits ==
    /\ Places \in Nat \ {0} /\ MaxIpFilters \in Nat
    /\ Wildcard \notin Octets /\ Octets \subseteq 0..255
    /\ Hole \notin B!Filters
    /\ B!Filters \subseteq B!Spellings
    /\ Bad \notin B!Spellings
    /\ Words \subseteq Spelled /\ FileSizes \subseteq Nat
<1>1. /\ Places \in Nat \ {0} /\ MaxIpFilters \in Nat
      /\ 0 \in Octets /\ Octets \subseteq 0..255 /\ Wildcard \notin Octets
      /\ Hole \notin B!Spellings /\ Bad \notin B!Spellings
      /\ Words \subseteq B!Spellings \cup {Bad}
      /\ FileSizes \subseteq Nat
    BY BansAssumption DEF BansAssumption, B!BansConstants
<1>2. B!Filters \subseteq B!Spellings
    <2>1. Places \in 1..Places
        BY <1>1
    <2> QED
        BY <2>1 DEF B!Filters, B!Spellings
<1> QED
    BY <1>1, <1>2 DEF Spelled

\* The members of a list.
LEMMA Members ==
    ASSUME NEW S, NEW l \in Seq(S)
    PROVE  /\ DOMAIN l = 1..Len(l)
           /\ \A f : f \in B!ToSet(l) <=> \E n \in 1..Len(l) : l[n] = f
           /\ B!ToSet(l) \subseteq S
<1>1. DOMAIN l = 1..Len(l)
    OBVIOUS
<1> QED
    BY <1>1 DEF B!ToSet

\* A spelling makes a filter, and a filter spells itself.
LEMMA FilterOf ==
    ASSUME NEW s \in B!Spellings, NEW legacy \in BOOLEAN
    PROVE  /\ B!StringToFilter(s, legacy) \in B!Filters
           /\ s \in B!Filters => B!StringToFilter(s, FALSE) = s
<1>1. PICK n \in 1..Places : s \in [1..n -> Octets \cup {Wildcard}]
    BY DEF B!Spellings
<1>2. n \in Nat /\ Places \in Nat
    BY BansLimits
<1>3. Len(s) = n
    BY <1>1, <1>2
<1>4. B!StringToFilter(s, legacy) \in B!Filters
    BY <1>1, <1>2, <1>3 DEF B!StringToFilter, B!Filters
<1>5. ASSUME s \in B!Filters PROVE B!StringToFilter(s, FALSE) = s
    <2>1. s \in [1..Places -> Octets \cup {Wildcard}]
        BY <1>5 DEF B!Filters
    <2>2. Len(s) = Places
        BY <1>2, <2>1
    <2>3. B!StringToFilter(s, FALSE) = [j \in 1..Places |-> s[j]]
        BY <1>2, <2>2 DEF B!StringToFilter
    <2> QED
        BY <2>1, <2>3
<1> QED
    BY <1>4, <1>5

\* A ban is in a list once.
Once(l) == \A j, k \in DOMAIN l : j # k /\ l[j] # Hole => l[j] # l[k]

GoodLists == {l \in Lists : Len(l) <= MaxIpFilters /\ Once(l)}

\* What AddIP does to a list.
Adds(l, f, r) ==
    \/ B!Used(r) = B!Used(l) \cup {f} /\ f \in B!ToSet(r)
    \/ r = l /\ f \notin B!ToSet(l) /\ Hole \notin B!ToSet(l) /\ Len(l) = MaxIpFilters

LEMMA FilterAdded ==
    ASSUME NEW l \in GoodLists, NEW s \in B!Spellings, NEW legacy \in BOOLEAN
    PROVE  /\ B!AddIP(l, s, legacy) \in GoodLists
           /\ Adds(l, B!StringToFilter(s, legacy), B!AddIP(l, s, legacy))
           /\ Hole \notin B!ToSet(l) => Hole \notin B!ToSet(B!AddIP(l, s, legacy))
<1>1. l \in Lists /\ Once(l) /\ Len(l) <= MaxIpFilters /\ DOMAIN l = 1..Len(l)
    BY DEF GoodLists, Lists
<1>2. PICK k \in Nat : k = Len(l)
    <2>1. l \in Seq(Bans)
        BY DEF GoodLists, Lists
    <2> QED
        BY <2>1
<1>3. PICK f \in B!Filters : f = B!StringToFilter(s, legacy)
    BY FilterOf
<1>4. f # Hole /\ s # Bad /\ f \in Bans
    BY BansLimits DEF Bans
<1>5. PICK r : r = B!AddIP(l, s, legacy)
    OBVIOUS
<1>6. r = IF f \in B!ToSet(l) THEN l
          ELSE IF Hole \in B!ToSet(l) THEN [l EXCEPT ![B!First(B!IndexOf(l, Hole))] = f]
          ELSE IF B!HasRoom(l) THEN Append(l, f) ELSE l
    BY <1>3, <1>4, <1>5, Zenon DEF B!AddIP
<1>7. \A g : g \in B!ToSet(l) <=> \E n \in 1..k : l[n] = g
    BY <1>1, <1>2, Members DEF Lists
<1>8. CASE f \in B!ToSet(l)
    <2>1. r = l
        BY <1>6, <1>8
    <2>2. B!Used(l) = B!Used(l) \cup {f}
        BY <1>4, <1>8 DEF B!Used
    <2> QED
        BY <1>3, <1>5, <1>8, <2>1, <2>2 DEF Adds
<1>9. CASE f \notin B!ToSet(l) /\ Hole \in B!ToSet(l)
    <2>1. PICK x \in 1..k : x = B!First(B!IndexOf(l, Hole)) /\ l[x] = Hole
        <3>1. B!IndexOf(l, Hole) \in SUBSET Nat /\ B!IndexOf(l, Hole) # {}
            BY <1>1, <1>2, <1>7, <1>9 DEF B!IndexOf
        <3>2. \E n \in B!IndexOf(l, Hole) : \A m \in B!IndexOf(l, Hole) : n <= m
            BY <3>1, LowestNumber
        <3>3. B!First(B!IndexOf(l, Hole)) \in B!IndexOf(l, Hole)
            BY <3>2 DEF B!First
        <3> QED
            BY <1>1, <1>2, <3>3 DEF B!IndexOf
    <2>2. r = [l EXCEPT ![x] = f]
        BY <1>6, <1>9, <2>1
    <2>3. l \in [1..k -> Bans] /\ k = Len(l)
        BY <1>1, <1>2 DEF Lists
    <2>4. r \in [1..k -> Bans] /\ r[x] = f /\ \A n \in 1..k : n # x => r[n] = l[n]
        BY <1>4, <2>2, <2>3
    <2>5. r \in Lists /\ Len(r) = k
        BY <2>4 DEF Lists
    <2>6. \A g : g \in B!ToSet(r) <=> \E n \in 1..k : r[n] = g
        BY <2>5, Members DEF Lists
    <2>7. \A n \in 1..k : l[n] # f
        BY <1>7, <1>9
    <2>8. Once(r)
        <3>1. DOMAIN r = 1..k
            BY <2>4
        <3> QED
            BY <1>1, <1>2, <2>4, <2>7, <3>1 DEF Once
    <2>9. f \in B!ToSet(r)
        BY <2>4, <2>6
    <2>10. ASSUME NEW g, g # Hole PROVE g \in B!ToSet(r) <=> g \in B!ToSet(l) \/ g = f
        <3>1. ASSUME g \in B!ToSet(r) PROVE g \in B!ToSet(l) \/ g = f
            BY <1>7, <2>4, <2>6, <3>1
        <3>2. ASSUME g \in B!ToSet(l) PROVE g \in B!ToSet(r)
            <4>1. PICK n \in 1..k : l[n] = g
                BY <1>7, <3>2
            <4>2. n # x
                BY <2>1, <2>10, <4>1
            <4> QED
                BY <2>4, <2>6, <4>1, <4>2
        <3> QED
            BY <2>9, <3>1, <3>2
    <2>11. B!Used(r) = B!Used(l) \cup {f}
        BY <1>4, <2>10 DEF B!Used
    <2>12. r \in GoodLists
        BY <1>1, <1>2, <2>5, <2>8 DEF GoodLists
    <2> QED
        BY <1>3, <1>5, <1>9, <2>9, <2>11, <2>12 DEF Adds
<1>10. CASE f \notin B!ToSet(l) /\ Hole \notin B!ToSet(l) /\ B!HasRoom(l)
    <2>1. r = Append(l, f)
        BY <1>6, <1>10, Zenon
    <2>2. r \in Seq(Bans) /\ Len(r) = k + 1 /\ r[k + 1] = f
          /\ \A n \in 1..k : r[n] = l[n]
        BY <1>1, <1>2, <1>4, <2>1 DEF Lists
    <2>3. \A g : g \in B!ToSet(r) <=> \E n \in 1..(k + 1) : r[n] = g
        BY <2>2, Members
    <2>4. \A n \in 1..(k + 1) : n = k + 1 \/ n \in 1..k
        OBVIOUS
    <2>5. \A g : g \in B!ToSet(r) <=> g \in B!ToSet(l) \/ g = f
        <3>1. k + 1 \in 1..(k + 1) /\ \A n \in 1..k : n \in 1..(k + 1)
            OBVIOUS
        <3> QED
            BY <1>7, <2>2, <2>3, <2>4, <3>1
    <2>6. \A n \in 1..k : l[n] # f
        BY <1>7, <1>10
    <2>7. Once(r)
        <3>1. DOMAIN r = 1..(k + 1)
            BY <2>2
        <3>2. ASSUME NEW n \in 1..(k + 1), NEW m \in 1..(k + 1), n # m, r[n] # Hole
              PROVE  r[n] # r[m]
            <4>1. CASE n = k + 1
                BY <2>2, <2>4, <2>6, <3>2, <4>1
            <4>2. CASE m = k + 1
                BY <2>2, <2>4, <2>6, <3>2, <4>2
            <4>3. CASE n # k + 1 /\ m # k + 1
                <5>1. n \in 1..k /\ m \in 1..k
                    BY <2>4, <4>3
                <5> QED
                    BY <1>1, <1>2, <2>2, <3>2, <5>1 DEF Once
            <4> QED
                BY <4>1, <4>2, <4>3
        <3> QED
            BY <3>1, <3>2 DEF Once
    <2>8. k + 1 <= MaxIpFilters
        BY <1>2, <1>10, BansLimits DEF B!HasRoom
    <2>9. r \in GoodLists
        BY <2>2, <2>7, <2>8 DEF GoodLists, Lists
    <2>10. B!Used(r) = B!Used(l) \cup {f} /\ f \in B!ToSet(r) /\ Hole \notin B!ToSet(r)
        BY <1>4, <1>10, <2>5 DEF B!Used
    <2> QED
        BY <1>3, <1>5, <2>9, <2>10 DEF Adds
<1>11. CASE f \notin B!ToSet(l) /\ Hole \notin B!ToSet(l) /\ ~B!HasRoom(l)
    <2>1. r = l
        BY <1>6, <1>11, Zenon
    <2>2. Len(l) = MaxIpFilters
        <3>1. ~(k < MaxIpFilters) /\ k <= MaxIpFilters /\ MaxIpFilters \in Nat
            BY <1>1, <1>2, <1>11, BansLimits DEF B!HasRoom
        <3>2. k = MaxIpFilters
            BY <3>1
        <3> QED
            BY <1>2, <3>2
    <2> QED
        BY Zenon, <1>3, <1>5, <1>11, <2>1, <2>2 DEF Adds
<1> QED
    BY <1>8, <1>9, <1>10, <1>11

LEMMA BadAdded == \A l, legacy : B!AddIP(l, Bad, legacy) = l
BY DEF B!AddIP

\* A list that is read, one spelling after the other.
Reads(h, l, words, legacy) ==
    /\ h \in [0..Len(words) -> GoodLists] /\ h[0] = l
    /\ \A n \in 1..Len(words) : h[n] = B!AddIP(h[n - 1], words[n], legacy)

LEMMA SpellingAdded ==
    ASSUME NEW l \in GoodLists, NEW s \in Spelled, NEW legacy \in BOOLEAN
    PROVE  B!AddIP(l, s, legacy) \in GoodLists
BY BadAdded, FilterAdded DEF Spelled

LEMMA ListRead ==
    ASSUME NEW l \in GoodLists, NEW words \in Seq(Spelled), NEW legacy \in BOOLEAN
    PROVE  \E h : Reads(h, l, words, legacy) /\ B!AddIPList(l, words, legacy) = h[Len(words)]
<1> DEFINE Step(x) ==
        [n \in 0..Len(words) |-> IF n = 0 THEN l ELSE B!AddIP(x[n - 1], words[n], legacy)]
<1>1. PICK k \in Nat : k = Len(words)
    OBVIOUS
<1>2. \A n \in 1..k : words[n] \in Spelled
    BY <1>1
<1>3. PICK step : step = [n \in 1..k |-> [x \in GoodLists |-> B!AddIP(x, words[n], legacy)]]
    OBVIOUS
<1>4. \A n \in 1..k, x \in GoodLists : /\ step[n][x] = B!AddIP(x, words[n], legacy)
                                       /\ B!AddIP(x, words[n], legacy) \in GoodLists
    BY <1>2, <1>3, SpellingAdded
<1>5. step \in [1..k -> [GoodLists -> GoodLists]]
    <2>1. \A n \in 1..k, x \in GoodLists : B!AddIP(x, words[n], legacy) \in GoodLists
        BY <1>2, SpellingAdded
    <2> QED
        BY <1>3, <2>1
<1>6. PICK h \in [0..k -> GoodLists] : h[0] = l /\ \A n \in 1..k : h[n] = step[n][h[n - 1]]
    <2>1. PICK S : S = GoodLists
        OBVIOUS
    <2>2. l \in S /\ k \in Nat /\ step \in [1..k -> [S -> S]]
        BY <1>5, <2>1
    <2>3. \E h \in [0..k -> S] : h[0] = l /\ \A n \in 1..k : h[n] = step[n][h[n - 1]]
        BY SMTT(60), <2>2, Iterated
    <2> QED
        BY <2>1, <2>3
<1>7. \A n \in 1..k : h[n] = B!AddIP(h[n - 1], words[n], legacy)
    <2> TAKE n \in 1..k
    <2>1. n - 1 \in 0..k
        OBVIOUS
    <2> QED
        BY <1>4, <1>6, <2>1
<1>8. h = Step(h)
    <2>1. ASSUME NEW n \in 0..k
          PROVE  h[n] = IF n = 0 THEN l ELSE B!AddIP(h[n - 1], words[n], legacy)
        <3>1. n = 0 \/ n \in 1..k
            OBVIOUS
        <3> QED
            BY <1>6, <1>7, <3>1
    <2> QED
        BY <1>1, <1>6, <2>1
<1> DEFINE g == CHOOSE x : x = Step(x)
<1>9. g = Step(g)
    BY <1>8
<1>10. B!AddIPList(l, words, legacy) = g[k]
    BY <1>1 DEF B!AddIPList
<1> HIDE DEF g
<1>11. /\ DOMAIN g = 0..k /\ g = [n \in 0..k |-> g[n]] /\ g[0] = l
       /\ \A n \in 1..k : g[n] = B!AddIP(g[n - 1], words[n], legacy)
    <2>1. PICK x : x = g
        OBVIOUS
    <2>2. /\ DOMAIN x = 0..k /\ x = [n \in 0..k |-> x[n]]
          /\ \A n \in 0..k : x[n] = IF n = 0 THEN l ELSE B!AddIP(x[n - 1], words[n], legacy)
        BY <1>1, <1>9, <2>1
    <2>3. 0 \in 0..k /\ \A n \in 1..k : n \in 0..k /\ n # 0
        OBVIOUS
    <2> QED
        BY <2>1, <2>2, <2>3
<1> DEFINE Good == {n \in Nat : n <= k => g[n] \in GoodLists}
<1>12. Nat \subseteq Good
    <2>1. 0 \in Good
        BY <1>11
    <2>2. ASSUME NEW n \in Nat, n \in Good PROVE n + 1 \in Good
        <3>1. SUFFICES ASSUME n + 1 <= k PROVE g[n + 1] \in GoodLists
            OBVIOUS
        <3>2. n + 1 \in 1..k /\ (n + 1) - 1 = n /\ g[n] \in GoodLists
            BY <2>2, <3>1
        <3>3. PICK x \in GoodLists, m \in 1..k : x = g[n] /\ m = n + 1
            BY <3>2
        <3>4. g[m] = B!AddIP(g[m - 1], words[m], legacy) /\ m - 1 = n
            BY <1>11, <3>2, <3>3
        <3>5. g[m] = B!AddIP(x, words[m], legacy)
            BY <3>3, <3>4
        <3> QED
            BY <1>4, <3>3, <3>5
    <2> HIDE DEF Good
    <2> QED
        BY <2>1, <2>2, Induction
<1>13. g \in [0..k -> GoodLists]
    <2>1. \A n \in 0..k : g[n] \in GoodLists
        BY <1>12
    <2>2. [n \in 0..k |-> g[n]] \in [0..k -> GoodLists]
        BY <2>1
    <2> QED
        BY Zenon, <1>11, <2>2
<1> QED
    BY <1>1, <1>10, <1>11, <1>13 DEF Reads

\* What the spellings that were read make of the list.
LEMMA ListGrows ==
    ASSUME NEW l \in GoodLists, NEW words \in Seq(Spelled), NEW legacy \in BOOLEAN, NEW all
    PROVE  LET r == B!AddIPList(l, words, legacy)
           IN  /\ r \in GoodLists
               /\ Hole \notin B!ToSet(l) => Hole \notin B!ToSet(r)
               /\ B!Used(l) \subseteq all /\ B!FiltersOf(words, legacy) \subseteq all
                    => B!Used(r) \subseteq all
               /\ B!Used(l) \subseteq B!Used(r)
               /\ \/ B!FiltersOf(words, legacy) \subseteq B!Used(r)
                  \/ \E u \in GoodLists, f \in B!FiltersOf(words, legacy) :
                        /\ f \notin B!ToSet(u) /\ Hole \notin B!ToSet(u) /\ Len(u) = MaxIpFilters
                        /\ B!Used(l) \subseteq all /\ B!FiltersOf(words, legacy) \subseteq all
                              => B!Used(u) \subseteq all
<1>1. PICK k \in Nat : k = Len(words)
    OBVIOUS
<1>2. PICK h : Reads(h, l, words, legacy) /\ B!AddIPList(l, words, legacy) = h[k]
    BY <1>1, ListRead
<1>3. /\ \A n \in 0..k : h[n] \in GoodLists
      /\ h[0] = l /\ \A n \in 1..k : h[n] = B!AddIP(h[n - 1], words[n], legacy)
    BY <1>1, <1>2 DEF Reads
<1>4. PICK fs : fs = B!FiltersOf(words, legacy)
    OBVIOUS
<1>5. /\ \A n \in 1..k : words[n] \in Spelled
      /\ \A n \in 1..k : words[n] # Bad => B!StringToFilter(words[n], legacy) \in fs
      /\ \A f \in fs : \E n \in 1..k : words[n] # Bad /\ f = B!StringToFilter(words[n], legacy)
    <2>1. \A s : s \in B!ToSet(words) <=> \E n \in 1..k : words[n] = s
        BY <1>1, Members
    <2> QED
        BY <1>1, <1>4, <2>1 DEF B!FiltersOf
<1> DEFINE Fails(n) == \E u \in GoodLists, f \in fs :
                          /\ f \notin B!ToSet(u) /\ Hole \notin B!ToSet(u) /\ Len(u) = MaxIpFilters
                          /\ B!Used(l) \subseteq all /\ fs \subseteq all => B!Used(u) \subseteq all
           Read(n) == \A m \in 1..n : words[m] # Bad =>
                          B!StringToFilter(words[m], legacy) \in B!Used(h[n])
           So(n) == /\ Hole \notin B!ToSet(l) => Hole \notin B!ToSet(h[n])
                    /\ B!Used(l) \subseteq all /\ fs \subseteq all => B!Used(h[n]) \subseteq all
                    /\ B!Used(l) \subseteq B!Used(h[n])
                    /\ Fails(n) \/ Read(n)
           All == {n \in Nat : n <= k => So(n)}
<1>6. 0 \in All
    <2>1. So(0)
        BY <1>3
    <2> QED
        BY <2>1
<1>7. ASSUME NEW n \in Nat, n \in All PROVE n + 1 \in All
    <2>1. SUFFICES ASSUME n + 1 <= k PROVE So(n + 1)
        OBVIOUS
    <2>2. n + 1 \in 1..k /\ (n + 1) - 1 = n /\ n \in 0..k /\ So(n)
        BY <1>7, <2>1
    <2>3. PICK u \in GoodLists, r \in GoodLists, s \in Spelled :
              u = h[n] /\ r = h[n + 1] /\ s = words[n + 1]
        <3>1. n + 1 \in 0..k
            BY <2>2
        <3> QED
            BY <1>3, <1>5, <2>2, <3>1
    <2>4. r = B!AddIP(u, s, legacy)
        BY <1>3, <2>2, <2>3
    <2>5. \A m \in 1..(n + 1) : m = n + 1 \/ m \in 1..n
        OBVIOUS
    <2>6. CASE s = Bad
        <3>1. r = u
            BY <2>4, <2>6, BadAdded
        <3>2. Read(n) => Read(n + 1)
            BY <2>3, <2>5, <2>6, <3>1
        <3>3. Fails(n) => Fails(n + 1)
            OBVIOUS
        <3> HIDE DEF Fails, Read
        <3> QED
            BY <2>2, <2>3, <3>1, <3>2, <3>3
    <2>7. CASE s # Bad
        <3>1. s \in B!Spellings
            BY <2>7 DEF Spelled
        <3>2. PICK f \in fs : f = B!StringToFilter(s, legacy)
            BY <1>5, <2>2, <2>3, <2>7
        <3>3. Adds(u, f, r) /\ (Hole \notin B!ToSet(u) => Hole \notin B!ToSet(r))
            BY <2>4, <3>1, <3>2, FilterAdded
        <3>4. CASE B!Used(r) = B!Used(u) \cup {f} /\ f \in B!ToSet(r)
            <4>1. Read(n) => Read(n + 1)
                BY <2>3, <2>5, <3>2, <3>4
            <4>2. Fails(n) => Fails(n + 1)
                OBVIOUS
            <4> HIDE DEF Fails, Read
            <4> QED
                BY <2>2, <2>3, <3>2, <3>3, <3>4, <4>1, <4>2
        <3>5. CASE r = u /\ f \notin B!ToSet(u) /\ Hole \notin B!ToSet(u) /\ Len(u) = MaxIpFilters
            <4>1. Fails(n + 1)
                BY <2>2, <2>3, <3>2, <3>5
            <4> HIDE DEF Fails, Read
            <4> QED
                BY <2>2, <2>3, <3>5, <4>1
        <3> QED
            BY <3>3, <3>4, <3>5 DEF Adds
    <2> QED
        BY <2>6, <2>7
<1> HIDE DEF All
<1>8. k \in All
    BY <1>6, <1>7, Induction
<1>9. So(k)
    BY <1>8 DEF All
<1>10. Read(k) => fs \subseteq B!Used(h[k])
    BY <1>5
<1>11. h[k] \in GoodLists
    BY <1>3
<1> QED
    BY <1>2, <1>4, <1>9, <1>10, <1>11

\* A list of bans that fit has room for them all.
LEMMA RoomForAll ==
    ASSUME NEW u \in GoodLists, Hole \notin B!ToSet(u), Len(u) = MaxIpFilters,
           NEW all, IsFiniteSet(all), Cardinality(all) <= MaxIpFilters,
           B!Used(u) \subseteq all, NEW f \in all, f \notin B!ToSet(u)
    PROVE  FALSE
<1>1. PICK k \in Nat : k = MaxIpFilters
    BY BansLimits
<1>2. u \in Seq(Bans) /\ Once(u)
    BY DEF GoodLists, Lists
<1>3. DOMAIN u = 1..k /\ \A n \in 1..k : u[n] \in B!ToSet(u)
    BY <1>1, <1>2, Members
<1>4. \A n \in 1..k : u[n] \in all /\ u[n] # Hole
    BY <1>3 DEF B!Used
<1>5. PICK g : g = [n \in 0..k |-> IF n = 0 THEN f ELSE u[n]]
    OBVIOUS
<1>6. \A n \in 0..k : n = 0 \/ n \in 1..k
    OBVIOUS
<1>7. g \in [0..k -> all]
    BY <1>4, <1>5, <1>6
<1>8. IsFiniteSet(0..k) /\ Cardinality(0..k) = k + 1
    <2>1. IsFiniteSet(0..k) /\ Cardinality(0..k) = IF 0 > k THEN 0 ELSE k - 0 + 1
        BY FS_Interval
    <2> QED
        BY <2>1
<1>9. Cardinality(all) < Cardinality(0..k)
    <2>1. Cardinality(all) \in Nat
        BY FS_CardinalityType
    <2> QED
        BY <1>1, <1>8, <2>1
<1>10. PICK x \in 0..k, y \in 0..k : x # y /\ g[x] = g[y]
    BY <1>7, <1>8, <1>9, FS_PigeonHole
<1>11. CASE x = 0 \/ y = 0
    BY <1>3, <1>5, <1>6, <1>10, <1>11
<1>12. CASE x # 0 /\ y # 0
    <2>1. x \in 1..k /\ y \in 1..k /\ u[x] = u[y]
        BY <1>5, <1>6, <1>10, <1>12
    <2> QED
        BY <1>2, <1>3, <1>4, <1>10, <2>1 DEF Once
<1> QED
    BY <1>11, <1>12

\* What is read from a list has an end.
LEMMA FiltersFinite ==
    ASSUME NEW words \in Seq(Spelled), NEW legacy \in BOOLEAN
    PROVE  IsFiniteSet(B!FiltersOf(words, legacy))
<1>1. PICK k \in Nat : k = Len(words)
    OBVIOUS
<1>2. PICK f : f = [n \in 1..k |-> B!StringToFilter(words[n], legacy)]
    OBVIOUS
<1>3. PICK image : image = {f[n] : n \in 1..k}
    OBVIOUS
<1>4. f \in Surjection(1..k, image)
    BY <1>2, <1>3 DEF Surjection
<1>5. IsFiniteSet(1..k)
    BY FS_Interval
<1>6. IsFiniteSet(image)
    BY <1>4, <1>5, FS_Surjection
<1>7. B!FiltersOf(words, legacy) \in SUBSET image
    <2>1. \A s : s \in B!ToSet(words) <=> \E n \in 1..k : words[n] = s
        BY <1>1, Members
    <2> QED
        BY <1>2, <1>3, <2>1 DEF B!FiltersOf
<1> QED
    BY <1>6, <1>7, FS_Subset

\* The lines that are written of a list are its bans.
LEMMA LinesOf ==
    ASSUME NEW l \in Lists
    PROVE  B!Lines(l) \in Seq(B!Filters) /\ B!ToSet(B!Lines(l)) = B!Used(l)
<1> DEFINE Step(x) ==
        [n \in 0..Len(l) |-> IF n = 0 THEN <<>>
                             ELSE IF l[n] = Hole THEN x[n - 1] ELSE Append(x[n - 1], l[n])]
           Write(x, f) == IF f = Hole THEN x ELSE Append(x, f)
<1>1. PICK k \in Nat : k = Len(l)
    <2>1. l \in Seq(Bans)
        BY DEF Lists
    <2> QED
        BY <2>1
<1>2. \A n \in 1..k : l[n] \in Bans
    <2>1. l \in Seq(Bans)
        BY DEF Lists
    <2> QED
        BY <1>1, <2>1
<1>3. PICK S : S = Seq(B!Filters)
    OBVIOUS
<1>4. \A x \in S, f \in Bans : Write(x, f) \in S
    BY <1>3 DEF Bans
<1>5. PICK step : step = [n \in 1..k |-> [x \in S |-> Write(x, l[n])]]
    OBVIOUS
<1>6. \A n \in 1..k, x \in S : step[n][x] = Write(x, l[n]) /\ Write(x, l[n]) \in S
    BY <1>2, <1>4, <1>5
<1>7. step \in [1..k -> [S -> S]]
    <2>1. \A n \in 1..k, x \in S : Write(x, l[n]) \in S
        BY <1>6
    <2> HIDE DEF Write
    <2> QED
        BY <1>5, <2>1
<1>8. <<>> \in S
    BY <1>3
<1>9. PICK h \in [0..k -> S] : h[0] = <<>> /\ \A n \in 1..k : h[n] = step[n][h[n - 1]]
    BY SMTT(60), <1>7, <1>8, Iterated
<1>10. \A n \in 1..k : h[n] = Write(h[n - 1], l[n])
    <2> TAKE n \in 1..k
    <2>1. n - 1 \in 0..k
        OBVIOUS
    <2> QED
        BY <1>6, <1>9, <2>1
<1>11. h = Step(h)
    <2>1. ASSUME NEW n \in 0..k
          PROVE  h[n] = IF n = 0 THEN <<>> ELSE Write(h[n - 1], l[n])
        <3>1. n = 0 \/ n \in 1..k
            OBVIOUS
        <3> QED
            BY <1>9, <1>10, <3>1
    <2> QED
        BY <1>1, <1>9, <2>1
<1> DEFINE g == CHOOSE x : x = Step(x)
<1>12. g = Step(g)
    BY <1>11
<1>13. B!Lines(l) = g[k]
    BY <1>1 DEF B!Lines
<1> HIDE DEF g
<1>14. g[0] = <<>> /\ \A n \in 1..k : g[n] = Write(g[n - 1], l[n])
    <2>1. PICK x : x = g
        OBVIOUS
    <2>2. \A n \in 0..k : x[n] = IF n = 0 THEN <<>> ELSE Write(x[n - 1], l[n])
        BY <1>1, <1>12, <2>1
    <2>3. 0 \in 0..k /\ \A n \in 1..k : n \in 0..k /\ n # 0
        OBVIOUS
    <2> QED
        BY <2>1, <2>2, <2>3
<1> DEFINE Good == {n \in Nat : n <= k =>
                      g[n] \in S /\ \A f : f \in B!ToSet(g[n]) <=> f # Hole /\ \E m \in 1..n : l[m] = f}
<1>15. 0 \in Good
    <2>1. \A f : f \notin B!ToSet(<<>>)
        BY DEF B!ToSet
    <2> QED
        BY <1>8, <1>14, <2>1
<1>16. ASSUME NEW n \in Nat, n \in Good PROVE n + 1 \in Good
    <2>1. SUFFICES ASSUME n + 1 <= k
                   PROVE  /\ g[n + 1] \in S
                          /\ \A f : f \in B!ToSet(g[n + 1]) <=> f # Hole /\ \E m \in 1..(n + 1) : l[m] = f
        OBVIOUS
    <2>2. n + 1 \in 1..k /\ (n + 1) - 1 = n
        BY <2>1
    <2>3. PICK x \in S, j \in 1..k, b \in Bans : x = g[n] /\ j = n + 1 /\ b = l[n + 1]
        BY <1>2, <1>16, <2>1, <2>2
    <2>4. \A f : f \in B!ToSet(x) <=> f # Hole /\ \E m \in 1..n : l[m] = f
        BY <1>16, <2>1, <2>3
    <2>5. g[j] = Write(g[j - 1], l[j]) /\ j - 1 = n
        BY <1>14, <2>2, <2>3
    <2>6. g[j] = Write(x, b)
        BY <2>3, <2>5
    <2>7. \A m \in 1..(n + 1) : m = n + 1 \/ m \in 1..n
        OBVIOUS
    <2>8. n + 1 \in 1..(n + 1) /\ \A m \in 1..n : m \in 1..(n + 1)
        OBVIOUS
    <2>9. \A f : (\E m \in 1..(n + 1) : l[m] = f) <=> f = b \/ \E m \in 1..n : l[m] = f
        BY <2>3, <2>7, <2>8
    <2>10. CASE b = Hole
        <3>1. g[j] = x
            BY <2>6, <2>10
        <3> QED
            BY <2>3, <2>4, <2>9, <2>10, <3>1
    <2>11. CASE b # Hole
        <3>1. PICK y : y = Append(x, b)
            OBVIOUS
        <3>2. b \in B!Filters /\ x \in Seq(B!Filters)
            BY <1>3, <2>11 DEF Bans
        <3>3. PICK c \in Nat : c = Len(x)
            BY <3>2
        <3>4. y \in Seq(B!Filters) /\ Len(y) = c + 1 /\ y[c + 1] = b /\ \A m \in 1..c : y[m] = x[m]
            BY <3>1, <3>2, <3>3
        <3>5. \A f : f \in B!ToSet(y) <=> \E m \in 1..(c + 1) : y[m] = f
            BY <3>4, Members
        <3>6. \A f : f \in B!ToSet(x) <=> \E m \in 1..c : x[m] = f
            BY <3>2, <3>3, Members
        <3>7. c + 1 \in 1..(c + 1) /\ (\A m \in 1..(c + 1) : m = c + 1 \/ m \in 1..c)
              /\ \A m \in 1..c : m \in 1..(c + 1)
            OBVIOUS
        <3>8. \A f : f \in B!ToSet(y) <=> f \in B!ToSet(x) \/ f = b
            BY <3>4, <3>5, <3>6, <3>7
        <3>9. g[j] = y
            BY <2>6, <2>11, <3>1
        <3> QED
            BY <1>3, <2>3, <2>4, <2>9, <2>11, <3>4, <3>8, <3>9
    <2> QED
        BY <2>10, <2>11
<1> HIDE DEF Good
<1>17. k \in Good
    BY <1>15, <1>16, Induction
<1>18. g[k] \in S /\ \A f : f \in B!ToSet(g[k]) <=> f # Hole /\ \E m \in 1..k : l[m] = f
    BY <1>17 DEF Good
<1>19. \A f : f \in B!ToSet(l) <=> \E m \in 1..k : l[m] = f
    <2>1. l \in Seq(Bans)
        BY DEF Lists
    <2> QED
        BY <1>1, <2>1, Members
<1> QED
    BY <1>3, <1>13, <1>18, <1>19 DEF B!Used

\* What a load reads back of those lines.
LEMMA LinesRead ==
    ASSUME NEW l \in Lists
    PROVE  B!Lines(l) \in Seq(Spelled) /\ B!FiltersOf(B!Lines(l), FALSE) = B!Used(l)
<1>1. B!Lines(l) \in Seq(B!Filters) /\ B!ToSet(B!Lines(l)) = B!Used(l)
    BY LinesOf
<1>2. B!Filters \subseteq Spelled /\ B!Filters \subseteq B!Spellings /\ Bad \notin B!Filters
    BY BansLimits DEF Spelled
<1>3. B!Used(l) \subseteq B!Filters
    <2>1. l \in Seq(Bans)
        BY DEF Lists
    <2> QED
        BY <2>1, Members DEF B!Used, Bans
<1>4. \A f \in B!Used(l) : f # Bad /\ B!StringToFilter(f, FALSE) = f
    BY <1>2, <1>3, FilterOf
<1>5. B!FiltersOf(B!Lines(l), FALSE) = B!Used(l)
    BY <1>1, <1>4 DEF B!FiltersOf
<1>6. B!Lines(l) \in Seq(Spelled)
    <2>1. PICK y : y = B!Lines(l)
        OBVIOUS
    <2>2. y \in Seq(B!Filters)
        BY <1>1, <2>1
    <2>3. y \in Seq(Spelled)
        BY <1>2, <2>2
    <2> QED
        BY <2>1, <2>3
<1> QED
    BY <1>5, <1>6

LEMMA NoLines == B!FiltersOf(<<>>, TRUE) = {} /\ <<>> \in GoodLists /\ Hole \notin B!ToSet(<<>>)
                 /\ B!Used(<<>>) = {}
<1>1. B!ToSet(<<>>) = {}
    BY DEF B!ToSet
<1>2. <<>> \in Seq(Bans) /\ Len(<<>>) = 0 /\ DOMAIN <<>> = {}
    OBVIOUS
<1>3. 0 <= MaxIpFilters
    BY BansLimits
<1>4. Once(<<>>)
    BY <1>2 DEF Once
<1> QED
    BY <1>1, <1>2, <1>3, <1>4 DEF B!FiltersOf, B!Used, GoodLists, Lists

\* What a load makes of the file and of the list of the game: when all of it
\* fits, the bans are what was read.
LEMMA LoadedList ==
    ASSUME NEW a \in Seq(Spelled), NEW b \in Seq(Spelled)
    PROVE  LET r == B!AddIPList(B!AddIPList(<<>>, a, FALSE), b, TRUE)
               all == B!FiltersOf(a, FALSE) \cup B!FiltersOf(b, TRUE)
           IN  r \in GoodLists /\ (Cardinality(all) <= MaxIpFilters => B!Used(r) = all)
<1>1. PICK all : all = B!FiltersOf(a, FALSE) \cup B!FiltersOf(b, TRUE)
    OBVIOUS
<1>2. PICK l : l = B!AddIPList(<<>>, a, FALSE)
    OBVIOUS
<1>3. PICK r : r = B!AddIPList(l, b, TRUE)
    OBVIOUS
<1>4. PICK none : none = <<>>
    OBVIOUS
<1>5. none \in GoodLists /\ Hole \notin B!ToSet(none) /\ B!Used(none) = {} /\ B!Used(none) \subseteq all
    BY <1>4, NoLines
<1>6. B!FiltersOf(a, FALSE) \subseteq all /\ B!FiltersOf(b, TRUE) \subseteq all
    BY <1>1
<1>7. l = B!AddIPList(none, a, FALSE)
    BY <1>2, <1>4
<1> DEFINE Full(fs) == \E u \in GoodLists, f \in fs :
                         /\ f \notin B!ToSet(u) /\ Hole \notin B!ToSet(u) /\ Len(u) = MaxIpFilters
                         /\ B!Used(u) \subseteq all
<1>8. /\ l \in GoodLists /\ Hole \notin B!ToSet(l) /\ B!Used(l) \subseteq all
      /\ B!FiltersOf(a, FALSE) \subseteq B!Used(l) \/ Full(B!FiltersOf(a, FALSE))
    <2>1. PICK fs : fs = B!FiltersOf(a, FALSE)
        OBVIOUS
    <2>2. fs \subseteq all
        BY <1>6, <2>1
    <2>3. /\ l \in GoodLists /\ Hole \notin B!ToSet(l) /\ B!Used(l) \subseteq all
          /\ \/ fs \subseteq B!Used(l)
             \/ \E u \in GoodLists, f \in fs :
                   /\ f \notin B!ToSet(u) /\ Hole \notin B!ToSet(u) /\ Len(u) = MaxIpFilters
                   /\ B!Used(none) \subseteq all /\ fs \subseteq all => B!Used(u) \subseteq all
        BY ZenonT(60), <1>5, <1>7, <2>1, <2>2, ListGrows
    <2> QED
        BY <1>5, <2>1, <2>2, <2>3
<1>9. /\ r \in GoodLists /\ Hole \notin B!ToSet(r) /\ B!Used(r) \subseteq all
      /\ B!Used(l) \subseteq B!Used(r)
      /\ B!FiltersOf(b, TRUE) \subseteq B!Used(r) \/ Full(B!FiltersOf(b, TRUE))
    <2>1. PICK fs : fs = B!FiltersOf(b, TRUE)
        OBVIOUS
    <2>2. fs \subseteq all /\ l \in GoodLists /\ Hole \notin B!ToSet(l) /\ B!Used(l) \subseteq all
        BY <1>6, <1>8, <2>1
    <2>3. /\ r \in GoodLists /\ Hole \notin B!ToSet(r) /\ B!Used(r) \subseteq all
          /\ B!Used(l) \subseteq B!Used(r)
          /\ \/ fs \subseteq B!Used(r)
             \/ \E u \in GoodLists, f \in fs :
                   /\ f \notin B!ToSet(u) /\ Hole \notin B!ToSet(u) /\ Len(u) = MaxIpFilters
                   /\ B!Used(l) \subseteq all /\ fs \subseteq all => B!Used(u) \subseteq all
        BY <1>3, <2>1, <2>2, ListGrows
    <2> QED
        BY <2>1, <2>2, <2>3
<1>10. IsFiniteSet(all)
    BY <1>1, FiltersFinite, FS_Union
<1>11. ASSUME Cardinality(all) <= MaxIpFilters, NEW fs, fs \subseteq all PROVE ~Full(fs)
    BY <1>10, <1>11, RoomForAll
<1>12. Cardinality(all) <= MaxIpFilters => B!Used(r) = all
    BY <1>1, <1>6, <1>8, <1>9, <1>11
<1> QED
    BY <1>1, <1>2, <1>3, <1>9, <1>12

\* A ban that is removed leaves a hole.
LEMMA FilterRemoved ==
    ASSUME NEW l \in GoodLists, NEW n \in DOMAIN l
    PROVE  [l EXCEPT ![n] = Hole] \in GoodLists
<1>1. PICK k \in Nat : k = Len(l)
    <2>1. l \in Seq(Bans)
        BY DEF GoodLists, Lists
    <2> QED
        BY <2>1
<1>2. l \in [1..k -> Bans] /\ n \in 1..k /\ k <= MaxIpFilters /\ Once(l)
    BY <1>1 DEF GoodLists, Lists
<1>3. PICK r : r = [l EXCEPT ![n] = Hole]
    OBVIOUS
<1>4. r \in [1..k -> Bans] /\ r[n] = Hole /\ \A m \in 1..k : m # n => r[m] = l[m]
    BY <1>2, <1>3 DEF Bans
<1>5. r \in Seq(Bans) /\ Len(r) = k /\ DOMAIN r = 1..k /\ DOMAIN l = 1..k
    BY <1>2, <1>4
<1>6. Once(r)
    BY <1>2, <1>4, <1>5 DEF Once
<1> QED
    BY <1>2, <1>3, <1>5, <1>6 DEF GoodLists, Lists

-----------------------------------------------------------------------------
(* Bans: the steps *)

BansInv ==
    /\ active \in BOOLEAN /\ filterBan \in BOOLEAN /\ saved \in BOOLEAN
    /\ list \in GoodLists
    /\ file \in Seq(Spelled) /\ banIPs \in Seq(Spelled)
    /\ ~active => list = <<>>
    /\ B!FileIsList

\* The file, once the list is written or the write has failed.
LEMMA ListWritten ==
    ASSUME NEW l \in GoodLists, BansInv, B!UpdateIPBans(l)
    PROVE  /\ saved' \in BOOLEAN /\ file' \in Seq(Spelled)
           /\ saved' => B!FiltersOf(file', FALSE) = B!Used(l)
<1>1. l \in Lists
    BY DEF GoodLists
<1>2. CASE file' = B!Lines(l) /\ saved' = TRUE
    BY <1>1, <1>2, LinesRead
<1>3. CASE UNCHANGED file /\ saved' = FALSE
    BY <1>3 DEF BansInv
<1> QED
    BY <1>2, <1>3 DEF B!UpdateIPBans

\* The instance counts as this module does.
LEMMA CountsAlike == ASSUME NEW all PROVE B!Cardinality(all) = Cardinality(all)
BY DEF B!Cardinality, Cardinality

\* Whether what is read fits in the list.
LEMMA WhatFits ==
    ASSUME file \in Seq(Spelled), banIPs \in Seq(Spelled)
    PROVE  /\ B!Fits \in BOOLEAN
           /\ B!Fits <=> Cardinality(B!FiltersOf(file, FALSE) \cup B!FiltersOf(banIPs, TRUE))
                           <= MaxIpFilters
<1>1. PICK a \in Seq(Spelled), b \in Seq(Spelled) : a = file /\ b = banIPs
    OBVIOUS
<1>2. PICK all : all = B!FiltersOf(a, FALSE) \cup B!FiltersOf(b, TRUE)
    OBVIOUS
<1>3. PICK c \in Nat : c = Cardinality(all)
    <2>1. IsFiniteSet(all)
        BY <1>2, FiltersFinite, FS_Union
    <2> QED
        BY <2>1, FS_CardinalityType
<1>4. B!Fits = (c <= MaxIpFilters)
    BY Zenon, <1>1, <1>2, <1>3, CountsAlike DEF B!Fits
<1>5. (c <= MaxIpFilters) \in BOOLEAN
    BY BansLimits
<1>6. B!Fits \in BOOLEAN
    BY Zenon, <1>4, <1>5
<1> QED
    BY Zenon, <1>1, <1>2, <1>3, <1>4, <1>6

\* The spellings that are typed, and the addresses of players.
LEMMA Typed == Words \cup B!Addresses \subseteq Spelled
<1>1. B!Addresses \subseteq B!Filters
    BY DEF B!Addresses, B!Filters
<1> QED
    BY <1>1, BansLimits DEF Spelled

\* A load: the bans are the file's and the game's, when they fit.
LEMMA LoadKeeps ==
    ASSUME BansInv, B!Load, filterBan' \in BOOLEAN
    PROVE  /\ BansInv'
           /\ filterBan /\ B!Fits =>
                 B!Used(list') = B!FiltersOf(file, FALSE) \cup B!FiltersOf(banIPs, TRUE)
<1>1. file \in Seq(Spelled) /\ banIPs \in Seq(Spelled) /\ filterBan \in BOOLEAN
    BY DEF BansInv
<1>2. CASE ~filterBan
    <2>1. active' = FALSE /\ list' = <<>> /\ saved' = FALSE /\ file' = file /\ banIPs' = banIPs
        BY <1>1, <1>2 DEF B!Load
    <2> QED
        BY <1>1, <1>2, <2>1, NoLines DEF BansInv, B!FileIsList
<1>3. CASE filterBan
    <2>1. PICK r : r = B!AddIPList(B!AddIPList(<<>>, file, FALSE), banIPs, TRUE)
        OBVIOUS
    <2>2. /\ r \in GoodLists
          /\ B!Fits => B!Used(r) = B!FiltersOf(file, FALSE) \cup B!FiltersOf(banIPs, TRUE)
        <3>1. PICK a \in Seq(Spelled), b \in Seq(Spelled) : a = file /\ b = banIPs
            BY <1>1
        <3> QED
            BY <1>1, <2>1, <3>1, LoadedList, WhatFits
    <2>3. active' = filterBan /\ list' = r /\ banIPs' = <<>>
        BY <1>3, <2>1 DEF B!Load
    <2>4. IF banIPs = <<>> THEN UNCHANGED file /\ saved' = B!Fits ELSE B!UpdateIPBans(r)
        BY <1>3, <2>1 DEF B!Load
    <2>5. saved' \in BOOLEAN /\ file' \in Seq(Spelled)
          /\ (saved' => B!FiltersOf(file', FALSE) = B!Used(r))
        <3>1. CASE banIPs = <<>>
            <4>1. B!FiltersOf(banIPs, TRUE) = {}
                BY <3>1, NoLines
            <4>2. B!Fits \in BOOLEAN
                BY <1>1, WhatFits
            <4>3. file' = file /\ saved' = B!Fits
                BY Zenon, <2>4, <3>1
            <4>4. saved' => B!FiltersOf(file, FALSE) = B!Used(r)
                BY <2>2, <4>1, <4>3
            <4>5. saved' \in BOOLEAN
                BY Zenon, <4>2, <4>3
            <4> QED
                BY Zenon, <1>1, <4>3, <4>4, <4>5
        <3>2. CASE banIPs # <<>>
            <4>1. B!UpdateIPBans(r)
                BY Zenon, <2>4, <3>2
            <4> QED
                BY <2>2, <4>1, ListWritten
        <3> QED
            BY <3>1, <3>2
    <2>6. <<>> \in Seq(Spelled)
        OBVIOUS
    
    <2> QED
        BY <1>1, <1>3, <2>2, <2>3, <2>5, <2>6 DEF BansInv, B!FileIsList
<1> QED
    BY <1>1, <1>2, <1>3

\* addip and ban: the list and what the commands answer.
LEMMA AddKeeps ==
    ASSUME BansInv, NEW s \in Spelled, B!AddAndSave(s)
    PROVE  /\ BansInv' /\ active /\ active'
           /\ s # Bad => Adds(list, B!StringToFilter(s, FALSE), list')
<1>1. PICK l \in GoodLists : l = list
    BY DEF BansInv
<1>2. PICK r \in GoodLists : r = B!AddIP(l, s, FALSE)
    BY SpellingAdded
<1>3. active /\ active' = active /\ filterBan' = filterBan /\ banIPs' = banIPs /\ list' = r
    BY <1>1, <1>2 DEF B!AddAndSave
<1>4. IF B!Accepted(l, s) THEN B!UpdateIPBans(r) ELSE UNCHANGED <<file, saved>>
    BY <1>1, <1>2, <1>3 DEF B!AddAndSave
<1>5. s # Bad => Adds(l, B!StringToFilter(s, FALSE), r)
    <2>1. s # Bad => s \in B!Spellings
        BY DEF Spelled
    <2> QED
        BY <1>2, <2>1, FilterAdded
<1>6. saved' \in BOOLEAN /\ file' \in Seq(Spelled) /\ (saved' => B!FiltersOf(file', FALSE) = B!Used(r))
    <2>1. CASE B!Accepted(l, s)
        BY <1>4, <2>1, ListWritten
    <2>2. CASE ~B!Accepted(l, s)
        <3>1. s = Bad \/ B!StringToFilter(s, FALSE) \notin B!ToSet(r)
            BY <1>2, <2>2 DEF B!Accepted
        <3>2. r = l
            BY <1>2, <1>5, <3>1, BadAdded DEF Adds
        <3> QED
            BY <1>1, <1>3, <1>4, <2>2, <3>2 DEF BansInv, B!FileIsList
    <2> QED
        BY <2>1, <2>2
<1>7. BansInv'
    BY <1>3, <1>6 DEF BansInv, B!FileIsList
<1> QED
    BY <1>1, <1>3, <1>5, <1>7

\* removeip and unban.
LEMMA RemoveKeeps ==
    ASSUME BansInv, NEW s \in Spelled, B!RemoveIP(s)
    PROVE  BansInv'
<1>1. PICK l \in GoodLists : l = list
    BY DEF BansInv
<1>2. PICK found : found = B!IndexOf(l, B!StringToFilter(s, FALSE)) \cup B!IndexOf(l, B!StringToFilter(s, TRUE))
    OBVIOUS
<1>3. active /\ active' = active /\ filterBan' = filterBan /\ banIPs' = banIPs
      /\ IF found = {} THEN UNCHANGED <<list, file, saved>>
         ELSE list' = [l EXCEPT ![B!First(found)] = Hole] /\ B!UpdateIPBans(list')
    BY <1>1, <1>2 DEF B!RemoveIP
<1>4. CASE found = {}
    BY <1>3, <1>4 DEF BansInv, B!FileIsList
<1>5. CASE found # {}
    <2>1. found \subseteq DOMAIN l
        BY <1>2 DEF B!IndexOf
    <2>2. DOMAIN l \subseteq Nat
        <3>1. l \in Seq(Bans)
            BY DEF GoodLists, Lists
        <3> QED
            BY <3>1
    <2>3. B!First(found) \in found
        <3>1. \E n \in found : \A m \in found : n <= m
            BY <1>5, <2>1, <2>2, LowestNumber
        <3> QED
            BY <3>1 DEF B!First
    <2>4. PICK n \in DOMAIN l : n = B!First(found)
        BY <2>1, <2>3
    <2>5. PICK r \in GoodLists : r = [l EXCEPT ![n] = Hole]
        BY FilterRemoved
    <2>6. list' = r /\ B!UpdateIPBans(r)
        BY <1>3, <1>5, <2>4, <2>5
    <2>7. saved' \in BOOLEAN /\ file' \in Seq(Spelled) /\ (saved' => B!FiltersOf(file', FALSE) = B!Used(r))
        BY <2>6, ListWritten
    <2> QED
        BY <1>3, <2>6, <2>7 DEF BansInv, B!FileIsList
<1> QED
    BY <1>4, <1>5

LEMMA BansStart == B!Init => BansInv
<1>1. <<>> \in Seq(Spelled)
    OBVIOUS
<1> QED
    BY <1>1, NoLines DEF B!Init, BansInv, B!FileIsList

LEMMA BansStep == BansInv /\ [B!Next]_B!vars => BansInv'
<1> SUFFICES ASSUME BansInv, [B!Next]_B!vars PROVE BansInv'
    OBVIOUS
<1>1. ASSUME B!MapChange PROVE BansInv'
    <2>1. filterBan' \in BOOLEAN
        BY <1>1 DEF B!MapChange, BansInv
    <2> QED
        BY <1>1, <2>1, LoadKeeps DEF B!MapChange
<1>2. ASSUME NEW s \in Words \cup B!Addresses, B!AddAndSave(s) \/ B!RemoveIP(s) PROVE BansInv'
    <2>1. s \in Spelled
        BY Typed
    <2> QED
        BY <1>2, <2>1, AddKeeps, RemoveKeeps
<1>3. ASSUME B!AddIPCommand \/ B!RemoveIPCommand PROVE BansInv'
    BY <1>2, <1>3 DEF B!AddIPCommand, B!RemoveIPCommand
<1>4. ASSUME NEW a \in B!Addresses, B!BanCommand(a) \/ B!UnbanCommand(a) PROVE BansInv'
    BY <1>2, <1>4 DEF B!BanCommand, B!UnbanCommand
<1>5. ASSUME B!EditFile PROVE BansInv'
    <2>1. PICK n \in FileSizes : file' \in [1..n -> Words]
        BY <1>5 DEF B!EditFile
    <2>2. n \in Nat /\ Words \subseteq Spelled
        BY BansLimits
    <2>3. file' \in Seq(Spelled)
        BY <2>1, <2>2
    <2> QED
        BY <1>5, <2>3 DEF B!EditFile, BansInv, B!FileIsList
<1>6. ASSUME B!SetBanIPs PROVE BansInv'
    <2>1. PICK s \in Words : banIPs' = <<s>>
        BY <1>6 DEF B!SetBanIPs
    <2>2. s \in Spelled
        BY BansLimits
    <2> QED
        <3>1. banIPs' \in Seq(Spelled)
            BY <2>1, <2>2
        <3> QED
            BY <1>6, <3>1 DEF B!SetBanIPs, BansInv, B!FileIsList
<1>7. ASSUME B!SetFilterBan PROVE BansInv'
    BY <1>7 DEF B!SetFilterBan, BansInv, B!FileIsList
<1>8. ASSUME UNCHANGED B!vars PROVE BansInv'
    BY <1>8 DEF B!vars, BansInv, B!FileIsList
<1> QED
    BY <1>1, <1>3, <1>4, <1>5, <1>6, <1>7, <1>8 DEF B!Next

LEMMA BansAlways == BansSpec => []BansInv
BY BansStart, BansStep, PTL DEF BansSpec, B!Spec

\* No ban is twice in the list, whatever the holes, the lines of the file, the
\* imports and the spellings (AddIP).
THEOREM BansAreOnce == BansSpec => []BannedOnce
<1>1. BansInv => BannedOnce
    BY DEF BansInv, GoodLists, Once, BannedOnce, B!NoDuplicates
<1> QED
    BY <1>1, BansAlways, PTL

\* The next load finds the bans of this one, unless a write failed or the file
\* was edited (UpdateIPBans).
THEOREM FileKeepsTheBans == BansSpec => []FileIsList
<1>1. BansInv => FileIsList
    BY DEF BansInv, FileIsList
<1> QED
    BY <1>1, BansAlways, PTL

LEMMA MapChangeRefuses ==
    BansInv /\ [B!Next]_B!vars =>
        (B!MapChange /\ active /\ active' /\ saved /\ B!Fits
            => B!Refused' = B!Refused \cup B!Covered(B!FiltersOf(banIPs, TRUE)))
<1> SUFFICES ASSUME BansInv, B!MapChange, active, active', saved, B!Fits
             PROVE  B!Refused' = B!Refused \cup B!Covered(B!FiltersOf(banIPs, TRUE))
    OBVIOUS
<1>1. filterBan /\ filterBan' \in BOOLEAN /\ B!Load
    <2>1. B!Load /\ filterBan' = filterBan /\ active' = filterBan
        BY DEF B!MapChange, B!Load
    <2> QED
        BY <2>1 DEF BansInv
<1>2. B!Used(list') = B!FiltersOf(file, FALSE) \cup B!FiltersOf(banIPs, TRUE)
    BY <1>1, LoadKeeps
<1>3. B!FiltersOf(file, FALSE) = B!Used(list)
    BY DEF BansInv, B!FileIsList
<1>4. B!Refused' = B!Covered(B!Used(list'))
    BY DEF B!Refused
<1>5. B!Refused = B!Covered(B!Used(list))
    BY DEF B!Refused
<1> QED
    BY <1>2, <1>3, <1>4, <1>5 DEF B!Covered

LEMMA SpellingIsBanned ==
    BansInv /\ [B!Next]_B!vars =>
        \A s \in (Words \cup B!Addresses) \ {Bad} : B!AddAndSave(s) =>
            \/ B!Refused' = B!Refused \cup {a \in B!Addresses : B!Spells(s, a)}
            \/ B!Refused' = B!Refused /\ Len(list) = MaxIpFilters
<1> SUFFICES ASSUME BansInv, NEW s \in (Words \cup B!Addresses) \ {Bad}, B!AddAndSave(s)
             PROVE  \/ B!Refused' = B!Refused \cup {a \in B!Addresses : B!Spells(s, a)}
                    \/ B!Refused' = B!Refused /\ Len(list) = MaxIpFilters
    OBVIOUS
<1>1. s \in Spelled /\ s \in B!Spellings
    BY Typed DEF Spelled
<1>2. PICK f : f = B!StringToFilter(s, FALSE)
    OBVIOUS
<1>3. active /\ active' /\ Adds(list, f, list')
    BY <1>1, <1>2, AddKeeps
<1>4. B!Refused' = B!Covered(B!Used(list')) /\ B!Refused = B!Covered(B!Used(list))
    BY <1>3 DEF B!Refused
<1>5. \A a \in B!Addresses : B!Covers(f, a) <=> B!Spells(s, a)
    <2>1. PICK n \in 1..Places : s \in [1..n -> Octets \cup {Wildcard}]
        BY <1>1 DEF B!Spellings
    <2>2. n \in Nat /\ Places \in Nat
        BY BansLimits
    <2>3. Len(s) = n
        BY <2>1, <2>2
    <2>4. \A j \in 1..Places : f[j] = IF j > n THEN Wildcard ELSE s[j]
        BY <1>2, <2>3 DEF B!StringToFilter
    <2>5. \A j \in 1..Places : (j > n /\ j \notin 1..n) \/ (~(j > n) /\ j \in 1..n)
        BY <2>2
    <2>6. \A j \in 1..n : j \in 1..Places
        BY <2>2
    <2>7. \A j \in 1..Places : f[j] = Wildcard \/ j \in 1..n
        BY <2>4, <2>5
    <2>8. \A j \in 1..n : f[j] = s[j]
        BY <2>4, <2>5, <2>6
    <2> QED
        BY <2>3, <2>6, <2>7, <2>8 DEF B!Covers, B!Spells
<1>6. CASE B!Used(list') = B!Used(list) \cup {f}
    BY <1>4, <1>5, <1>6 DEF B!Covered
<1>7. CASE list' = list /\ Len(list) = MaxIpFilters
    BY <1>4, <1>7
<1> QED
    BY <1>3, <1>6, <1>7 DEF Adds

\* What is banned is what was spelled, on this map and on the next: a ban
\* refuses the addresses it spells and no other one, unless the list is full,
\* and a map change refuses what was refused and the list of the game
\* (StringToFilter, BeforeGameInit).
THEOREM BansAreAsSpelled == BansSpec => BansAsSpelled
<1>1. B!MapChangeKeepsBans /\ B!AddBansItsSpelling => BansAsSpelled
    BY DEF BansAsSpelled, B!BansAsSpelled
<1>2. BansSpec => B!MapChangeKeepsBans
    BY BansAlways, MapChangeRefuses, PTL DEF BansSpec, B!Spec, B!MapChangeKeepsBans
<1>3. BansSpec => B!AddBansItsSpelling
    BY BansAlways, SpellingIsBanned, PTL DEF BansSpec, B!Spec, B!AddBansItsSpelling
<1> QED
    BY <1>1, <1>2, <1>3, PTL

-----------------------------------------------------------------------------
(* The protocol: what the client has said *)

\* All that the client has ever said is a text; what it is not acknowledged is the
\* end of it.  The commands of its download, then those of its play.
Early == {"download", "nextdl", "stopdl", "donedl"}
Impure == {"vdr", "donedl"}

IsText(T, s) == s \in Nat /\ T \in [1..s -> C!Commands]

\* The client acknowledges a block after the one before it, asks for the gamestate
\* after the last one or after it stopped, and only then plays.
BlocksInOrder(T, s) ==
    \A n \in 1..s : T[n].do = "nextdl" =>
        /\ n > 1
        /\ T[n].block = 0 => T[n - 1].do = "download"
        /\ T[n].block > 0 => T[n - 1].do = "nextdl" /\ T[n - 1].block = T[n].block - 1

DoneAfterDownload(T, s) ==
    \A n \in 1..s : T[n].do = "donedl" =>
        /\ n > 1
        /\ T[n - 1].do = "stopdl" \/ (T[n - 1].do = "nextdl" /\ T[n - 1].block = Blocks)

EarlyFirst(T, s) ==
    \A n \in 1..s : T[n].do \in Early => \A m \in 1..n : T[m].do \in Early

PlayAfterDone(T, s) ==
    \A n \in 2..s : T[n].do \notin Early => T[n - 1].do \notin Early \ {"donedl"}

NothingAfterDone(T, s) ==
    \A n \in 1..s : T[n].do = "donedl" => \A m \in (n + 1)..s : T[m].do \notin Early

Grammar(T, s) ==
    /\ BlocksInOrder(T, s) /\ DoneAfterDownload(T, s)
    /\ EarlyFirst(T, s) /\ PlayAfterDone(T, s) /\ NothingAfterDone(T, s)

\* Nothing that makes the server forget the checksums.
Quiet(T, from, to) == \A n \in from..to : T[n].do \notin Impure

\* The checksums were sent, and nothing after them that makes the server forget them.
PureBetween(T, from, to) == \E m \in from..to : T[m].do = "cp" /\ Quiet(T, m + 1, to)
PureAt(T, n) == PureBetween(T, 1, n)

-----------------------------------------------------------------------------
(* The protocol: what the server has made of it *)

Reasons == {"none", "disconnected", "broken download", "Cannot validate pure client!",
            "Lost reliable commands"}

Server ==
    [state : {"connected", "primed", "active", "zombie"}, gamestates : Nat,
     lastCommand : Nat, nextdl : BOOLEAN, dl : {"none", "named", "open"}, block : Nat,
     pure : BOOLEAN, reason : Reasons]

\* The download goes on after the n-th command.
Downloading(T, n) ==
    n > 0 /\ (T[n].do = "download" \/ (T[n].do = "nextdl" /\ T[n].block < Blocks))

\* The server's download is what the last command has made of it.
DownloadIs(T, c) ==
    LET last == T[c.lastCommand]
    IN  /\ c.dl # "none" <=> Downloading(T, c.lastCommand)
        /\ c.lastCommand > 0 /\ last.do = "download" /\ c.dl = "open" => c.block = 0
        /\ c.lastCommand > 0 /\ last.do = "nextdl" /\ last.block < Blocks =>
               c.dl = "open" /\ c.block = last.block + 1
        /\ c.nextdl <=> c.lastCommand > 0 /\ last.do \in {"nextdl", "chat nextdl"}

\* A first block that is acknowledged is of the download that is open.
FirstBlock(T, s, c) ==
    \A n \in (c.lastCommand + 1)..s : T[n].do = "nextdl" /\ T[n].block = 0 =>
        n = c.lastCommand + 1 /\ c.dl = "open"

Follows(T, s, c) ==
    /\ c \in Server /\ c.state # "zombie" /\ c.lastCommand <= s
    /\ DownloadIs(T, c) /\ FirstBlock(T, s, c)
    /\ c.state = "active" => \E n \in 1..c.lastCommand : T[n].do = "cp"

\* The next command.
Ran(c, cmd) == C!ClientCommand(c, [n |-> c.lastCommand + 1, cmd |-> cmd])

\* The limits of ProtocolConstants.
LEMMA ProtocolLimits == Blocks \in Nat /\ Pure \in BOOLEAN /\ MaxId \in Nat \ {0}
BY ProtocolAssumption DEF ProtocolAssumption, C!ProtocolConstants

\* The commands that a client says, and the blocks that it asks for.
LEMMA CommandsAre ==
    ASSUME NEW cmd \in C!Commands
    PROVE  /\ cmd.do \in Early \cup {"cp", "vdr", "disconnect", "chat", "chat nextdl"}
           /\ cmd.do = "nextdl" => cmd.block \in 0..Blocks
BY DEF C!Commands, Early

\* A membership is a truth value.
LEMMA MemberIsBoolean ==
    ASSUME NEW x, NEW set PROVE (x \in set) \in BOOLEAN
OBVIOUS

\* What a command does to each part of the server's client.
LEMMA CommandRuns ==
    ASSUME NEW c \in Server, c.state # "zombie", NEW cmd \in C!Commands
    PROVE  LET r == Ran(c, cmd)
           IN  /\ r \in Server
               /\ r.lastCommand = c.lastCommand + 1
               /\ r.nextdl = (cmd.do \in {"nextdl", "chat nextdl"})
               /\ cmd.do \notin {"donedl", "disconnect", "nextdl"} => r.state = c.state
               /\ cmd.do # "donedl" => r.gamestates = c.gamestates
               /\ cmd.do \notin Impure /\ c.pure => r.pure
               /\ cmd.do = "cp" /\ Pure => r.pure = TRUE
               /\ cmd.do \notin Early => r.dl = c.dl /\ r.block = c.block
               /\ cmd.do = "disconnect" => r.state = "zombie" /\ r.reason = "disconnected"
               /\ cmd.do = "download" /\ c.state # "active" => r.dl = "named"
               /\ cmd.do = "stopdl" /\ c.state # "active" => r.dl = "none"
               /\ cmd.do = "donedl" =>
                     /\ r.dl = c.dl
                     /\ r.state = IF c.state = "connected" THEN "primed" ELSE c.state
                     /\ c.state # "active" => r.gamestates = c.gamestates + 1
               /\ cmd.do = "nextdl" /\ c.state # "active" /\ cmd.block = c.block =>
                     /\ r.state = c.state
                     /\ c.block = Blocks => r.dl = "none"
                     /\ c.block # Blocks => r.dl = c.dl /\ r.block = c.block + 1
<1>1. c.lastCommand \in Nat
    BY DEF Server
<1>2. PICK x : x = C!ExecuteClientCommand(c, cmd)
    OBVIOUS
<1>3. PICK says \in BOOLEAN : says = (cmd.do \in {"nextdl", "chat nextdl"})
    BY ZenonT(60), MemberIsBoolean
<1>4. Ran(c, cmd) = [x EXCEPT !.lastCommand = c.lastCommand + 1, !.nextdl = says]
    <2>1. PICK m : m = [n |-> c.lastCommand + 1, cmd |-> cmd]
        OBVIOUS
    <2>2. m.n = c.lastCommand + 1 /\ m.cmd = cmd
        BY <2>1
    <2>3. ~(m.n <= c.lastCommand) /\ ~(m.n > c.lastCommand + 1)
        BY <1>1, <2>2
    <2>4. C!ClientCommand(c, m) =
              [C!ExecuteClientCommand(c, m.cmd) EXCEPT
                  !.lastCommand = m.n, !.nextdl = m.cmd.do \in {"nextdl", "chat nextdl"}]
        BY Zenon, <2>3 DEF C!ClientCommand
    <2> QED
        BY Zenon, <1>2, <1>3, <2>1, <2>2, <2>4 DEF Ran
<1>5. /\ x \in Server /\ x.lastCommand = c.lastCommand
      /\ cmd.do \notin {"donedl", "disconnect", "nextdl"} => x.state = c.state
      /\ cmd.do # "donedl" => x.gamestates = c.gamestates
      /\ cmd.do \notin Impure /\ c.pure => x.pure
      /\ cmd.do = "cp" /\ Pure => x.pure = TRUE
      /\ cmd.do \notin Early => x.dl = c.dl /\ x.block = c.block
      /\ cmd.do = "disconnect" => x.state = "zombie" /\ x.reason = "disconnected"
      /\ cmd.do = "download" /\ c.state # "active" => x.dl = "named"
      /\ cmd.do = "stopdl" /\ c.state # "active" => x.dl = "none"
      /\ cmd.do = "donedl" =>
            /\ x.dl = c.dl
            /\ x.state = IF c.state = "connected" THEN "primed" ELSE c.state
            /\ c.state # "active" => x.gamestates = c.gamestates + 1
      /\ cmd.do = "nextdl" /\ c.state # "active" /\ cmd.block = c.block =>
            /\ x.state = c.state
            /\ c.block = Blocks => x.dl = "none"
            /\ c.block # Blocks => x.dl = c.dl /\ x.block = c.block + 1
    <2>1. CASE cmd.do = "download"
        <3>1. x = IF c.state = "active" THEN c ELSE [c EXCEPT !.dl = "named"]
            BY <1>2, <2>1 DEF C!ExecuteClientCommand
        <3> QED
            BY <2>1, <3>1 DEF Server, Early, Impure
    <2>2. CASE cmd.do = "nextdl"
        <3>1. x = C!NextDownload(c, cmd.block)
            BY <1>2, <2>2 DEF C!ExecuteClientCommand
        <3>2. CASE c.state = "active"
            BY <2>2, <3>1, <3>2 DEF Server, Early, Impure, C!NextDownload
        <3>3. CASE c.state # "active" /\ cmd.block # c.block
            <4>1. x = [c EXCEPT !.state = "zombie", !.reason = "broken download"]
                BY <3>1, <3>3 DEF C!NextDownload, C!Drop
            <4> QED
                BY <2>2, <3>3, <4>1 DEF Server, Early, Impure, Reasons
        <3>4. CASE c.state # "active" /\ cmd.block = c.block /\ c.block = Blocks
            <4>1. x = [c EXCEPT !.dl = "none"]
                BY <3>1, <3>4 DEF C!NextDownload, C!CloseDownload
            <4> QED
                BY <2>2, <3>4, <4>1 DEF Server, Early, Impure
        <3>5. CASE c.state # "active" /\ cmd.block = c.block /\ c.block # Blocks
            <4>1. x = [c EXCEPT !.block = c.block + 1]
                BY <3>1, <3>5 DEF C!NextDownload
            <4> QED
                BY <2>2, <3>5, <4>1 DEF Server, Early, Impure
        <3> QED
            BY <3>2, <3>3, <3>4, <3>5
    <2>3. CASE cmd.do = "stopdl"
        <3>1. x = IF c.state = "active" THEN c ELSE [c EXCEPT !.dl = "none"]
            BY <1>2, <2>3 DEF C!ExecuteClientCommand, C!CloseDownload
        <3> QED
            BY <2>3, <3>1 DEF Server, Early, Impure
    <2>4. CASE cmd.do = "donedl"
        <3>1. x = C!DoneDownload(c)
            BY <1>2, <2>4 DEF C!ExecuteClientCommand
        <3>2. CASE c.state = "active"
            BY <2>4, <3>1, <3>2 DEF Server, Early, Impure, C!DoneDownload
        <3>3. CASE c.state # "active"
            <4>1. PICK state : state = IF c.state = "connected" THEN "primed" ELSE c.state
                OBVIOUS
            <4>2. x = [c EXCEPT !.state = state, !.pure = FALSE, !.gamestates = c.gamestates + 1]
                BY <3>1, <3>3, <4>1 DEF C!DoneDownload, C!SendClientGameState
            <4>3. state \in {"connected", "primed", "active", "zombie"}
                BY <4>1 DEF Server
            <4> QED
                <5>1. c.gamestates \in Nat /\ c.gamestates + 1 \in Nat
                    BY DEF Server
                <5>2. /\ x \in Server /\ x.lastCommand = c.lastCommand /\ x.state = state
                      /\ x.gamestates = c.gamestates + 1 /\ x.dl = c.dl
                    BY <4>2, <4>3, <5>1 DEF Server
                <5> QED
                    BY <2>4, <3>3, <4>1, <5>2 DEF Early, Impure
        <3> QED
            BY <3>2, <3>3
    <2>5. CASE cmd.do = "cp"
        <3>1. x = IF Pure THEN [c EXCEPT !.pure = TRUE] ELSE c
            BY <1>2, <2>5 DEF C!ExecuteClientCommand
        <3> QED
            BY <2>5, <3>1 DEF Server, Early, Impure
    <2>6. CASE cmd.do = "vdr"
        <3>1. x = [c EXCEPT !.pure = FALSE]
            BY <1>2, <2>6 DEF C!ExecuteClientCommand
        <3> QED
            BY <2>6, <3>1 DEF Server, Early, Impure
    <2>7. CASE cmd.do = "disconnect"
        <3>1. x = [c EXCEPT !.state = "zombie", !.reason = "disconnected"]
            BY <1>2, <2>7 DEF C!ExecuteClientCommand, C!Drop
        <3> QED
            BY <2>7, <3>1 DEF Server, Early, Impure, Reasons
    <2>8. CASE cmd.do \in {"chat", "chat nextdl"}
        <3>1. x = c
            BY <1>2, <2>8 DEF C!ExecuteClientCommand
        <3> QED
            BY <2>8, <3>1 DEF Early, Impure
    <2> QED
        BY <2>1, <2>2, <2>3, <2>4, <2>5, <2>6, <2>7, <2>8, CommandsAre DEF Early
<1>6. PICK next \in Nat : next = c.lastCommand + 1
    BY <1>1
<1>7. PICK r : r = [x EXCEPT !.lastCommand = next, !.nextdl = says]
    OBVIOUS
<1>8. /\ r \in Server /\ r.lastCommand = next /\ r.nextdl = says
      /\ r.state = x.state /\ r.gamestates = x.gamestates /\ r.dl = x.dl /\ r.block = x.block
      /\ r.pure = x.pure /\ r.reason = x.reason
    <2>1. x \in Server
        BY <1>5
    <2> QED
        BY <1>7, <2>1 DEF Server
<1> QED
    BY ZenonT(60), <1>3, <1>4, <1>5, <1>6, <1>7, <1>8

\* The server stays with what the client has said, command by command.
FollowsNext(T, s, c, n, r) ==
    /\ T[n] \in C!Commands /\ r \in Server /\ r.lastCommand = n
    /\ \/ r.gamestates = c.gamestates
       \/ /\ T[n].do = "donedl" /\ c.state # "active" /\ r.state # "connected"
          /\ r.gamestates = c.gamestates + 1
    /\ T[n].do \notin Impure /\ c.pure => r.pure
    /\ T[n].do = "cp" /\ Pure => r.pure = TRUE
    /\ \/ T[n].do = "disconnect" /\ r.state = "zombie" /\ r.reason = "disconnected"
       \/ /\ Follows(T, s, r)
          /\ \/ r.state = c.state
             \/ c.state = "connected" /\ r.state = "primed" /\ r.gamestates # c.gamestates

\* The server runs the next command of a text, or the client leaves by it.
LEMMA CommandFollows ==
    ASSUME NEW s, NEW T, IsText(T, s), Grammar(T, s),
           NEW c, Follows(T, s, c), NEW n \in Nat, n = c.lastCommand + 1, n <= s,
           NEW r, r = Ran(c, T[n])
    PROVE  FollowsNext(T, s, c, n, r)
<1>1. /\ c \in Server /\ c.state # "zombie" /\ c.lastCommand \in Nat /\ n \in 1..s /\ s \in Nat
      /\ c.gamestates \in Nat /\ c.block \in Nat
    BY DEF Follows, Server, IsText
<1>2. PICK cmd \in C!Commands : cmd = T[n]
    BY <1>1 DEF IsText
<1>3. c.state = "active" => cmd.do \notin Early
    <2>1. SUFFICES ASSUME c.state = "active", T[n].do \in Early PROVE FALSE
        BY <1>2
    <2>2. PICK m \in 1..c.lastCommand : T[m].do = "cp"
        BY <2>1 DEF Follows
    <2>3. T[m].do \in Early
        BY <1>1, <2>1, <2>2 DEF Grammar, EarlyFirst
    <2> QED
        BY <2>2, <2>3 DEF Early
<1>4. cmd.do = "nextdl" =>
          /\ c.state # "active" /\ cmd.block = c.block /\ cmd.block \in 0..Blocks
          /\ n > 1 /\ c.dl = "open"
    <2>1. SUFFICES ASSUME cmd.do = "nextdl"
                   PROVE  cmd.block = c.block /\ n > 1 /\ c.dl = "open" /\ cmd.block \in 0..Blocks
        BY <1>3 DEF Early
    <2>2. cmd.block \in 0..Blocks
        BY <2>1, CommandsAre
    <2>3. /\ n > 1
          /\ cmd.block = 0 => T[n - 1].do = "download"
          /\ cmd.block > 0 => T[n - 1].do = "nextdl" /\ T[n - 1].block = cmd.block - 1
        BY <1>1, <1>2, <2>1 DEF Grammar, BlocksInOrder
    <2>4. c.lastCommand = n - 1 /\ c.lastCommand > 0
        BY <1>1, <2>3
    <2>5. CASE cmd.block = 0
        <3>1. c.dl = "open"
            BY <1>1, <1>2, <2>1, <2>5 DEF Follows, FirstBlock
        <3> QED
            BY <2>2, <2>3, <2>4, <2>5, <3>1 DEF Follows, DownloadIs
    <2>6. CASE cmd.block > 0
        <3>1. T[c.lastCommand].do = "nextdl" /\ T[c.lastCommand].block = cmd.block - 1
            BY <2>3, <2>4, <2>6
        <3>2. cmd.block - 1 < Blocks /\ (cmd.block - 1) + 1 = cmd.block
            BY <2>2, <2>6, ProtocolLimits
        <3> QED
            BY <2>2, <2>3, <2>4, <3>1, <3>2 DEF Follows, DownloadIs
    <2> QED
        BY <2>2, <2>5, <2>6, ProtocolLimits
<1>5. /\ r \in Server /\ r.lastCommand = n
      /\ r.nextdl = (cmd.do \in {"nextdl", "chat nextdl"})
      /\ cmd.do \notin {"donedl", "disconnect", "nextdl"} => r.state = c.state
      /\ cmd.do # "donedl" => r.gamestates = c.gamestates
      /\ cmd.do \notin Impure /\ c.pure => r.pure
      /\ cmd.do = "cp" /\ Pure => r.pure = TRUE
      /\ cmd.do \notin Early => r.dl = c.dl /\ r.block = c.block
      /\ cmd.do = "disconnect" => r.state = "zombie" /\ r.reason = "disconnected"
      /\ cmd.do = "download" => r.dl = "named"
      /\ cmd.do = "stopdl" => r.dl = "none"
      /\ cmd.do = "donedl" =>
            /\ r.dl = c.dl /\ c.state # "active"
            /\ r.state = IF c.state = "connected" THEN "primed" ELSE c.state
            /\ r.gamestates = c.gamestates + 1
      /\ cmd.do = "nextdl" =>
            /\ r.state = c.state
            /\ c.block = Blocks => r.dl = "none"
            /\ c.block # Blocks => r.dl = c.dl /\ r.block = c.block + 1
    BY ZenonT(60), <1>1, <1>2, <1>3, <1>4, CommandRuns DEF Early
<1> HIDE DEF Early, Impure
<1>6. \/ r.gamestates = c.gamestates
      \/ /\ cmd.do = "donedl" /\ c.state # "active" /\ r.state # "connected"
         /\ r.gamestates = c.gamestates + 1
    BY <1>5
<1>7. CASE cmd.do = "disconnect"
    BY <1>2, <1>5, <1>6, <1>7 DEF FollowsNext
<1>8. CASE cmd.do # "disconnect"
    <2>2. \/ r.state = c.state
          \/ c.state = "connected" /\ r.state = "primed" /\ r.gamestates # c.gamestates
        <3>1. CASE cmd.do = "donedl"
            BY <1>1, <1>5, <3>1
        <3>2. CASE cmd.do = "nextdl"
            BY <1>5, <3>2
        <3>3. CASE cmd.do \notin {"donedl", "disconnect", "nextdl"}
            BY <1>5, <3>3
        <3> QED
            BY <1>8, <3>1, <3>2, <3>3
    <2>1. r.state # "zombie"
        BY <1>1, <2>2
    <2>3. r.state = "active" => \E m \in 1..n : T[m].do = "cp"
        <3>1. r.state = "active" => c.state = "active"
            BY <2>2
        <3> QED
            BY <1>1, <3>1 DEF Follows
    <2>0. r.lastCommand = n
        BY <1>5
    <2>4. FirstBlock(T, s, r)
        <3>1. FirstBlock(T, s, c)
            BY DEF Follows
        <3>2. \A m \in (n + 1)..s : m \in (c.lastCommand + 1)..s /\ m # c.lastCommand + 1
            BY <1>1
        <3> QED
            BY <2>0, <3>1, <3>2 DEF FirstBlock
    <2>5. DownloadIs(T, r)
        <3>1. cmd.do \notin {"download", "nextdl", "stopdl"} => ~Downloading(T, c.lastCommand)
            <4>1. SUFFICES ASSUME cmd.do \notin {"download", "nextdl", "stopdl"}, n > 1
                           PROVE  ~Downloading(T, n - 1)
                BY <1>1 DEF Downloading
            <4>2. CASE cmd.do = "donedl"
                <5>1. T[n - 1].do = "stopdl" \/ (T[n - 1].do = "nextdl" /\ T[n - 1].block = Blocks)
                    BY <1>1, <1>2, <4>2 DEF Grammar, DoneAfterDownload
                <5> QED
                    BY <5>1, ProtocolLimits DEF Downloading
            <4>3. CASE cmd.do # "donedl"
                <5>1. T[n].do \notin Early
                    BY <1>2, <4>1, <4>3 DEF Early
                <5>2. n \in 2..s
                    BY <1>1, <4>1
                <5>3. T[n - 1].do \notin Early \ {"donedl"}
                    BY <5>1, <5>2 DEF Grammar, PlayAfterDone
                <5> QED
                    BY <5>3 DEF Downloading, Early
            <4> QED
                BY <4>2, <4>3
        <3>2. cmd.do = "nextdl" /\ cmd.block < Blocks => r.dl = "open" /\ r.block = cmd.block + 1
            BY <1>4, <1>5, ProtocolLimits
        <3>3. r.dl # "none" <=> Downloading(T, n)
            <4>1. CASE cmd.do = "download"
                BY <1>1, <1>2, <1>5, <4>1 DEF Downloading
            <4>2. CASE cmd.do = "nextdl"
                <5>1. cmd.block = Blocks => r.dl = "none"
                    BY <1>4, <1>5, <4>2
                <5>2. cmd.block < Blocks \/ cmd.block = Blocks
                    BY <1>4, <4>2, ProtocolLimits
                <5> QED
                    BY <1>1, <1>2, <3>2, <4>2, <5>1, <5>2, ProtocolLimits DEF Downloading
            <4>3. CASE cmd.do = "stopdl"
                BY <1>1, <1>2, <1>5, <4>3 DEF Downloading
            <4>4. CASE cmd.do \notin {"download", "nextdl", "stopdl"}
                <5>1. r.dl = c.dl
                    BY <1>5, <4>4 DEF Early
                <5>2. c.dl = "none"
                    BY <3>1, <4>4 DEF Follows, DownloadIs
                <5>3. ~Downloading(T, n)
                    BY <1>2, <4>4 DEF Downloading
                <5> QED
                    BY <5>1, <5>2, <5>3
            <4> QED
                BY <4>1, <4>2, <4>3, <4>4
        <3>4. r.nextdl <=> cmd.do \in {"nextdl", "chat nextdl"}
            BY <1>5
        <3>5. cmd.do = "download" => r.dl # "open"
            BY <1>5
        <3>6. T[r.lastCommand] = cmd /\ n > 0
            BY <1>1, <1>2, <2>0
        <3> QED
            BY <2>0, <3>2, <3>3, <3>4, <3>5, <3>6 DEF DownloadIs
    <2>6. Follows(T, s, r)
        BY <1>1, <1>5, <2>1, <2>3, <2>4, <2>5 DEF Follows
    <2> QED
        BY <1>2, <1>5, <1>6, <2>2, <2>6 DEF FollowsNext
<1> QED
    BY <1>7, <1>8

\* A command is run, skipped or refused: the server still has a client.
LEMMA ClientCommandIsServer ==
    ASSUME NEW c \in Server, NEW m \in C!Numbered
    PROVE  C!ClientCommand(c, m) \in Server
<1>1. m.n \in Nat /\ m.cmd \in C!Commands /\ c.lastCommand \in Nat
    BY DEF Server, C!Numbered
<1>2. CASE c.state = "zombie" \/ m.n <= c.lastCommand
    BY <1>2 DEF C!ClientCommand
<1>3. CASE ~(c.state = "zombie" \/ m.n <= c.lastCommand) /\ m.n > c.lastCommand + 1
    <2>1. C!ClientCommand(c, m) = C!Drop(c, "Lost reliable commands")
        BY Zenon, <1>3 DEF C!ClientCommand
    <2> QED
        BY <2>1 DEF C!Drop, Server, Reasons
<1>4. CASE ~(c.state = "zombie" \/ m.n <= c.lastCommand) /\ ~(m.n > c.lastCommand + 1)
    <2>1. m.n = c.lastCommand + 1
        BY <1>1, <1>4
    <2>2. m = [n |-> c.lastCommand + 1, cmd |-> m.cmd]
        BY <2>1 DEF C!Numbered
    <2>3. C!ClientCommand(c, m) = Ran(c, m.cmd)
        BY Zenon, <2>2 DEF Ran
    <2> QED
        BY <1>1, <1>4, <2>3, CommandRuns
<1> QED
    BY <1>2, <1>3, <1>4

\* Iterated, for states of the server.
LEMMA ServerIterated ==
    ASSUME NEW base \in Server, NEW l \in Nat, NEW step \in [1..l -> [Server -> Server]]
    PROVE  \E h \in [0..l -> Server] : h[0] = base /\ \A n \in 1..l : h[n] = step[n][h[n - 1]]
BY Iterated

\* The commands of a message, one after the other.
LEMMA CommandsRunInOrder ==
    ASSUME NEW c \in Server, NEW ms \in Seq(C!Numbered)
    PROVE  \E g : /\ g[0] = c /\ C!RunCommands(c, ms) = g[Len(ms)]
                  /\ \A n \in 1..Len(ms) : g[n] = C!ClientCommand(g[n - 1], ms[n])
<1> DEFINE Step(x) ==
        [n \in 0..Len(ms) |-> IF n = 0 THEN c ELSE C!ClientCommand(x[n - 1], ms[n])]
<1>1. PICK k \in Nat : k = Len(ms)
    OBVIOUS
<1>2. \A n \in 1..k : ms[n] \in C!Numbered
    BY <1>1
<1>3. PICK step : step = [n \in 1..k |-> [x \in Server |-> C!ClientCommand(x, ms[n])]]
    OBVIOUS
<1>4. \A n \in 1..k, x \in Server : /\ step[n][x] = C!ClientCommand(x, ms[n])
                                    /\ C!ClientCommand(x, ms[n]) \in Server
    BY <1>2, <1>3, ClientCommandIsServer
<1>5. step \in [1..k -> [Server -> Server]]
    <2>1. \A n \in 1..k, x \in Server : C!ClientCommand(x, ms[n]) \in Server
        BY <1>2, ClientCommandIsServer
    <2> QED
        BY <1>3, <2>1
<1>6. PICK h \in [0..k -> Server] : h[0] = c /\ \A n \in 1..k : h[n] = step[n][h[n - 1]]
    BY <1>5, ServerIterated
<1>7. \A n \in 1..k : h[n] = C!ClientCommand(h[n - 1], ms[n])
    <2> TAKE n \in 1..k
    <2>1. n - 1 \in 0..k
        OBVIOUS
    <2> QED
        BY <1>4, <1>6, <2>1
<1>8. h = Step(h)
    <2>1. ASSUME NEW n \in 0..k
          PROVE  h[n] = IF n = 0 THEN c ELSE C!ClientCommand(h[n - 1], ms[n])
        <3>1. n = 0 \/ n \in 1..k
            OBVIOUS
        <3> QED
            BY <1>6, <1>7, <3>1
    <2> QED
        BY <1>1, <1>6, <2>1
<1> DEFINE g == CHOOSE x : x = Step(x)
<1>9. g = Step(g)
    BY <1>8
<1>10. C!RunCommands(c, ms) = g[k]
    BY <1>1 DEF C!RunCommands
<1> HIDE DEF g
<1>11. g[0] = c /\ \A n \in 1..k : g[n] = C!ClientCommand(g[n - 1], ms[n])
    <2>1. PICK x : x = g
        OBVIOUS
    <2>2. \A n \in 0..k : x[n] = IF n = 0 THEN c ELSE C!ClientCommand(x[n - 1], ms[n])
        BY <1>1, <1>9, <2>1
    <2>3. 0 \in 0..k /\ \A n \in 1..k : n \in 0..k /\ n # 0
        OBVIOUS
    <2> QED
        BY <2>1, <2>2, <2>3
<1> QED
    BY <1>1, <1>10, <1>11

\* A gamestate is only sent to a client that is not in the world, and asked for it.
Answered(T, c, r) ==
    \/ r.gamestates = c.gamestates
    \/ /\ r.gamestates > c.gamestates /\ c.state # "active" /\ r.state # "connected"
       /\ \E n \in (c.lastCommand + 1)..r.lastCommand : T[n].do = "donedl"

\* What the commands since the last one make of the server's client c.
Runs(T, s, c, r) ==
    /\ Follows(T, s, r) /\ c.lastCommand <= r.lastCommand
    /\ c.lastCommand = r.lastCommand => r = c
    /\ \/ r.state = c.state
       \/ c.state = "connected" /\ r.state = "primed" /\ r.gamestates # c.gamestates
    /\ Answered(T, c, r)
    /\ Pure /\ PureBetween(T, c.lastCommand + 1, r.lastCommand) => r.pure
    /\ c.pure /\ Quiet(T, c.lastCommand + 1, r.lastCommand) => r.pure

Left(T, s, c, r) ==
    /\ r \in Server /\ r.state = "zombie" /\ r.reason = "disconnected"
    /\ c.lastCommand <= r.lastCommand /\ r.lastCommand <= s /\ Answered(T, c, r)

\* No command was run yet.
LEMMA NothingRun ==
    ASSUME NEW s, NEW T, IsText(T, s), NEW c, Follows(T, s, c)
    PROVE  Runs(T, s, c, c)
<1>1. c \in Server /\ c.lastCommand \in Nat
    BY DEF Follows, Server
<1>2. ~\E m \in (c.lastCommand + 1)..c.lastCommand : TRUE
    BY <1>1
<1>3. ~PureBetween(T, c.lastCommand + 1, c.lastCommand)
    BY <1>2 DEF PureBetween
<1> QED
    BY <1>1, <1>3 DEF Runs, Answered

\* The server has run some commands of a text, and runs the next one.
LEMMA OneMoreRun ==
    ASSUME NEW s, NEW T, IsText(T, s), Grammar(T, s), NEW c, Follows(T, s, c),
           NEW r, Runs(T, s, c, r), NEW n \in Nat, n = r.lastCommand + 1, n <= s,
           NEW q, q = Ran(r, T[n])
    PROVE  q.lastCommand = n /\ (Runs(T, s, c, q) \/ Left(T, s, c, q))
<1>1. /\ c \in Server /\ r \in Server /\ c.lastCommand \in Nat /\ r.lastCommand \in Nat
      /\ c.gamestates \in Nat /\ r.gamestates \in Nat /\ s \in Nat
      /\ c.lastCommand <= r.lastCommand /\ Follows(T, s, r)
    BY DEF Runs, Follows, Server, IsText
<1>0. FollowsNext(T, s, r, n, q)
    BY <1>1, CommandFollows
<1>2. /\ T[n] \in C!Commands /\ q \in Server /\ q.lastCommand = n
      /\ \/ q.gamestates = r.gamestates
         \/ /\ T[n].do = "donedl" /\ r.state # "active" /\ q.state # "connected"
            /\ q.gamestates = r.gamestates + 1
      /\ T[n].do \notin Impure /\ r.pure => q.pure
      /\ T[n].do = "cp" /\ Pure => q.pure
      /\ \/ T[n].do = "disconnect" /\ q.state = "zombie" /\ q.reason = "disconnected"
         \/ /\ Follows(T, s, q)
            /\ \/ q.state = r.state
               \/ /\ r.state = "connected" /\ q.state = "primed"
                  /\ q.gamestates # r.gamestates
    BY <1>0 DEF FollowsNext
<1>3. Answered(T, c, q)
    <2>1. c.state = "active" => r.state = "active"
        BY DEF Runs
    <2>2. /\ n \in (c.lastCommand + 1)..n
          /\ \A m \in (c.lastCommand + 1)..r.lastCommand : m \in (c.lastCommand + 1)..n
        BY <1>1
    <2>3. Answered(T, c, r)
        BY DEF Runs
    <2>4. CASE q.gamestates = r.gamestates
        <3>1. r.state # "connected" => q.state # "connected"
            BY <1>2
        <3> QED
            BY <1>2, <2>2, <2>3, <2>4, <3>1 DEF Answered
    <2>5. CASE /\ T[n].do = "donedl" /\ r.state # "active" /\ q.state # "connected"
               /\ q.gamestates = r.gamestates + 1
        BY <1>1, <1>2, <2>1, <2>2, <2>3, <2>5 DEF Answered
    <2> QED
        BY <1>2, <2>4, <2>5
<1>4. CASE T[n].do = "disconnect" /\ q.state = "zombie" /\ q.reason = "disconnected"
    BY <1>1, <1>2, <1>3, <1>4 DEF Left
<1>5. CASE Follows(T, s, q) /\ \/ q.state = r.state
                               \/ /\ r.state = "connected" /\ q.state = "primed"
                                  /\ q.gamestates # r.gamestates
    <2>1. \A m \in (c.lastCommand + 1)..n : m = n \/ m \in (c.lastCommand + 1)..r.lastCommand
        BY <1>1
    <2>2. Pure /\ PureBetween(T, c.lastCommand + 1, n) => q.pure
        <3>1. SUFFICES ASSUME Pure, NEW m \in (c.lastCommand + 1)..n, T[m].do = "cp", Quiet(T, m + 1, n)
                       PROVE  q.pure
            BY DEF PureBetween
        <3>2. CASE m = n
            BY <1>2, <3>1, <3>2
        <3>3. CASE m # n
            <4>1. m \in (c.lastCommand + 1)..r.lastCommand
                BY <2>1, <3>3
            <4>2. n \in (m + 1)..n /\ \A k \in (m + 1)..r.lastCommand : k \in (m + 1)..n
                BY <1>1, <4>1
            <4>3. T[n].do \notin Impure /\ Quiet(T, m + 1, r.lastCommand)
                BY <3>1, <4>2 DEF Quiet
            <4>4. r.pure
                BY <3>1, <4>1, <4>3 DEF Runs, PureBetween
            <4> QED
                BY <1>2, <3>1, <4>3, <4>4
        <3> QED
            BY <3>2, <3>3
    <2>3. c.pure /\ Quiet(T, c.lastCommand + 1, n) => q.pure
        <3>1. SUFFICES ASSUME c.pure, Quiet(T, c.lastCommand + 1, n) PROVE q.pure
            OBVIOUS
        <3>2. /\ n \in (c.lastCommand + 1)..n
              /\ \A k \in (c.lastCommand + 1)..r.lastCommand : k \in (c.lastCommand + 1)..n
            BY <1>1
        <3>3. T[n].do \notin Impure /\ Quiet(T, c.lastCommand + 1, r.lastCommand)
            BY <3>1, <3>2 DEF Quiet
        <3>4. r.pure
            BY <3>1, <3>3 DEF Runs
        <3> QED
            BY <1>2, <3>3, <3>4
    <2>4. \/ q.state = c.state
          \/ c.state = "connected" /\ q.state = "primed" /\ q.gamestates # c.gamestates
        <3>1. /\ \/ r.state = c.state
                 \/ c.state = "connected" /\ r.state = "primed" /\ r.gamestates # c.gamestates
              /\ r.gamestates >= c.gamestates
            BY <1>1 DEF Runs, Answered
        <3> QED
            BY <1>1, <1>2, <1>5, <3>1
    <2> QED
        BY <1>1, <1>2, <1>3, <1>5, <2>2, <2>3, <2>4 DEF Runs
<1> QED
    BY <1>2, <1>4, <1>5

\* The commands of a message: those that were run are skipped, the others are next.
Says(ms, T, b, e) ==
    /\ ms \in Seq(C!Numbered) /\ b \in Nat /\ e \in Nat /\ b <= e /\ Len(ms) = e - b
    /\ \A i \in 1..(e - b) : ms[i] = [n |-> b + i, cmd |-> T[b + i]]

\* A command that was run is skipped.
LEMMA SaidAgain ==
    ASSUME NEW c \in Server, NEW n \in Nat, n <= c.lastCommand, NEW cmd
    PROVE  C!ClientCommand(c, [n |-> n, cmd |-> cmd]) = c
BY DEF C!ClientCommand

\* The server runs a whole message of the text, or the client leaves within it.
LEMMA AllSaid ==
    ASSUME NEW s, NEW T, IsText(T, s), Grammar(T, s), NEW c, Follows(T, s, c),
           NEW b \in Nat, NEW e \in Nat, b <= c.lastCommand, c.lastCommand <= e, e <= s,
           NEW ms, Says(ms, T, b, e), NEW r, r = C!RunCommands(c, ms)
    PROVE  (Runs(T, s, c, r) /\ r.lastCommand = e) \/ Left(T, e, c, r)
<1>1. c \in Server /\ c.lastCommand \in Nat /\ s \in Nat /\ ms \in Seq(C!Numbered)
    BY DEF Follows, Server, IsText, Says
<1>2. PICK k \in Nat : k = Len(ms) /\ k = e - b /\ b + k = e
    BY DEF Says
<1>3. PICK g : /\ g[0] = c /\ C!RunCommands(c, ms) = g[Len(ms)]
               /\ \A n \in 1..Len(ms) : g[n] = C!ClientCommand(g[n - 1], ms[n])
    BY <1>1, CommandsRunInOrder
<1> DEFINE At(x, j) == \/ Left(T, e, c, x)
                       \/ /\ Runs(T, s, c, x)
                          /\ x.lastCommand = IF b + j <= c.lastCommand THEN c.lastCommand
                                                                       ELSE b + j
           Good == {j \in Nat : j <= k => At(g[j], j)}
<1>4. At(c, 0)
    BY <1>1, NothingRun
<1>5. ASSUME NEW j \in Nat, j + 1 <= k, NEW x, At(x, j), NEW y,
             y = C!ClientCommand(x, [n |-> b + (j + 1), cmd |-> T[b + (j + 1)]])
      PROVE  At(y, j + 1)
    <2>1. CASE Left(T, e, c, x)
        <3>1. x.state = "zombie"
            BY <2>1 DEF Left
        <3>2. y = x
            BY Zenon, <1>5, <3>1 DEF C!ClientCommand
        <3> QED
            BY <2>1, <3>2
    <2>2. CASE ~Left(T, e, c, x)
        <3>1. /\ Runs(T, s, c, x) /\ x \in Server /\ x.lastCommand \in Nat
              /\ x.lastCommand = IF b + j <= c.lastCommand THEN c.lastCommand ELSE b + j
            <4>1. Runs(T, s, c, x)
                BY <1>5, <2>2
            <4> QED
                BY <1>5, <2>2, <4>1 DEF Runs, Follows, Server
        <3>2. PICK n \in Nat : n = b + (j + 1)
            OBVIOUS
        <3>3. CASE n <= c.lastCommand
            <4>1. b + j <= c.lastCommand /\ b + (j + 1) <= c.lastCommand
                BY <1>1, <3>2, <3>3
            <4>2. x.lastCommand = c.lastCommand
                BY <3>1, <4>1
            <4>3. y = x
                BY <1>5, <3>1, <3>2, <3>3, <4>2, SaidAgain
            <4> QED
                BY <3>1, <4>1, <4>2, <4>3
        <3>4. CASE ~(n <= c.lastCommand)
            <4>1. n = x.lastCommand + 1 /\ n <= s /\ n <= e /\ ~(b + (j + 1) <= c.lastCommand)
                BY SMTT(40), <1>1, <1>2, <1>5, <3>1, <3>2, <3>4
            <4>2. y = Ran(x, T[n])
                BY <1>5, <3>2, <4>1 DEF Ran
            <4>3. y.lastCommand = n /\ (Runs(T, s, c, y) \/ Left(T, s, c, y))
                BY <3>1, <4>1, <4>2, OneMoreRun
            <4>4. Left(T, s, c, y) => Left(T, e, c, y)
                BY <4>1, <4>3 DEF Left
            <4> QED
                BY <3>2, <4>1, <4>3, <4>4
        <3> QED
            BY <3>3, <3>4
    <2> QED
        BY <2>1, <2>2
<1>6. Nat \subseteq Good
    <2> HIDE DEF At
    <2>1. 0 \in Good
        BY <1>3, <1>4
    <2>2. ASSUME NEW j \in Nat, j \in Good PROVE j + 1 \in Good
        <3>1. SUFFICES ASSUME j + 1 <= k PROVE At(g[j + 1], j + 1)
            OBVIOUS
        <3>2. j + 1 \in 1..k /\ (j + 1) - 1 = j /\ At(g[j], j)
            BY <2>2, <3>1
        <3>3. ms[j + 1] = [n |-> b + (j + 1), cmd |-> T[b + (j + 1)]]
            BY <1>2, <3>2 DEF Says
        <3>4. g[j + 1] = C!ClientCommand(g[j], [n |-> b + (j + 1), cmd |-> T[b + (j + 1)]])
            BY <1>2, <1>3, <3>2, <3>3
        <3> QED
            BY <1>5, <3>1, <3>2, <3>4
    <2> HIDE DEF Good
    <2> QED
        BY <2>1, <2>2, Induction
<1>7. At(r, k)
    <2>1. r = g[k]
        BY <1>2, <1>3
    <2>2. k \in Good
        BY <1>6
    <2> QED
        BY <2>1, <2>2
<1>8. CASE b + k <= c.lastCommand
    BY <1>1, <1>2, <1>7, <1>8
<1>9. CASE ~(b + k <= c.lastCommand)
    BY <1>1, <1>2, <1>7, <1>9
<1> QED
    BY <1>8, <1>9

-----------------------------------------------------------------------------
(* The protocol: its invariant *)

Clients ==
    [id : Nat, map : Nat, seen : Nat \X BOOLEAN,
     phase : {"idle", "download", "await", "load", "play", "gone"},
     hasFile : BOOLEAN, block : Nat, sent : Nat, pending : Seq(C!Numbered)]
ToServer ==
    [kind : {"message"}, id : Nat, ack : Nat \X BOOLEAN, commands : Seq(C!Numbered),
     move : BOOLEAN]
Gamestates == [kind : {"gamestate"}, id : Nat, map : Nat, number : Nat \X BOOLEAN, ack : Nat]
Snapshots ==
    [kind : {"snapshot"}, number : Nat \X BOOLEAN, id : Nat, map : Nat, block : Nat, ack : Nat]

ProtocolTypes ==
    /\ sv \in [id : Nat, map : Nat] /\ cl \in Server /\ client \in Clients
    /\ up \in ToServer \cup {C!None} /\ down \in Gamestates \cup Snapshots \cup {C!None}

Coming == up # C!None
Gamestate == down # C!None /\ down.kind = "gamestate"
Snapshot == down # C!None /\ down.kind = "snapshot"
Here == client.map = sv.map
NoDownload == cl.dl = "none" /\ ~cl.nextdl

\* What is on its way is from the text: the client keeps it from command a on, the
\* message has it from b to e.
Counts(T, a, b, e) ==
    /\ IsText(T, client.sent)
    /\ Says(client.pending, T, a, client.sent) /\ a <= cl.lastCommand
    /\ Gamestate \/ Snapshot => a <= down.ack /\ down.ack <= cl.lastCommand
    /\ Coming => /\ Says(up.commands, T, b, e)
                 /\ b <= cl.lastCommand /\ cl.lastCommand <= e /\ e <= client.sent

\* What the client does next goes on from what it said last.
ClientGoesOn(T) ==
    LET s == client.sent
    IN  /\ ~client.hasFile =>
               /\ client.phase \in {"idle", "download"}
               /\ \A n \in 1..s : T[n].do = "download" \/ T[n].do = "nextdl"
        /\ client.hasFile /\ s > 0 => T[s].do \notin Early \ {"donedl"}
        /\ client.phase = "idle" => s = 0
        /\ client.phase = "download" =>
               /\ ~client.hasFile /\ s > 0 /\ client.block <= Blocks
               /\ \/ T[s].do = "download" /\ client.block = 0
                  \/ T[s].do = "nextdl" /\ client.block = T[s].block + 1
        /\ client.phase = "await" => s > 0 /\ T[s].do = "donedl"
        /\ client.phase = "play" => PureAt(T, s)

\* Who names the map has its gamestate.
Maps ==
    /\ client.map <= client.id /\ client.id <= sv.id /\ client.map <= sv.map /\ sv.map <= sv.id
    /\ client.id >= sv.map => Here
    /\ Coming => up.id <= sv.id /\ (up.id >= sv.map => Here)
    /\ cl.state = "connected" => client.map < sv.map
    /\ cl.state = "active" => Here
    /\ Gamestate \/ Snapshot =>
           down.id <= sv.id /\ down.map <= sv.map /\ (down.map # sv.map => down.id < sv.map)
    /\ Gamestate => /\ down.map <= down.id
                    /\ cl.state = "connected" => down.map < sv.map
                    /\ cl.state # "connected" => down.map = sv.map

\* Who saw a snapshot after the last gamestate had that gamestate, or lost it.
Answers ==
    /\ client.seen[1] <= cl.gamestates
    /\ Gamestate => down.number = <<cl.gamestates, FALSE>>
    /\ Snapshot => down.number = <<cl.gamestates, TRUE>>
    /\ Gamestate => client.seen # <<cl.gamestates, TRUE>>
    /\ Coming => up.ack[1] <= cl.gamestates
    /\ Coming /\ Gamestate => up.ack # <<cl.gamestates, TRUE>>
    /\ Coming /\ up.ack = <<cl.gamestates, TRUE>> /\ Here => up.id >= sv.map

\* A download that goes on over a map change is over when the client asks for the
\* gamestate again, or starts the next.
Downloads(T) ==
    /\ cl.state = "primed" /\ ~Here => NoDownload
    /\ ~client.hasFile /\ Gamestate => NoDownload /\ ~Here
    /\ client.phase = "download" /\ client.block = 0 /\ Snapshot =>
           (down.block = 0 => cl.lastCommand = client.sent /\ cl.dl = "open")
    /\ \A n \in (cl.lastCommand + 1)..client.sent :
           T[n].do = "download" => NoDownload
    /\ \A n \in (cl.lastCommand + 1)..client.sent :
           T[n].do = "donedl" /\ (n < client.sent \/ client.phase # "await" \/ Gamestate)
               => NoDownload

\* What is said after a message was sent is of a map that the message does not name.
SaidSince(T, e) ==
    Coming =>
        /\ \A n \in (e + 1)..client.sent : T[n].do = "download" => up.id < sv.map
        /\ \A n \in (e + 1)..client.sent :
               T[n].do = "donedl" /\ up.id >= sv.map =>
                   n = client.sent /\ client.phase = "await" /\ ~Gamestate

\* The server has the checksums, or waits for them, or the client for a gamestate.
Checksums(T) ==
    Pure /\ PureAt(T, cl.lastCommand) =>
        \/ cl.pure
        \/ ~Here /\ NoDownload
        \/ client.phase = "load"
        \/ \E n \in (cl.lastCommand + 1)..client.sent : T[n].do = "cp"

\* A move comes after the checksums.
Moves(T, e) ==
    Coming /\ up.move =>
        /\ PureAt(T, e)
        /\ Pure => \/ PureBetween(T, cl.lastCommand + 1, e)
                   \/ cl.pure /\ Quiet(T, cl.lastCommand + 1, e)
                   \/ NoDownload /\ up.id < sv.map

Known(T, a, b, e) ==
    /\ ProtocolTypes /\ Counts(T, a, b, e) /\ Grammar(T, client.sent)
    /\ Follows(T, client.sent, cl) /\ ClientGoesOn(T)
    /\ Maps /\ Answers /\ Downloads(T) /\ SaidSince(T, e) /\ Checksums(T) /\ Moves(T, e)

Kept == \E T, a, b, e : Known(T, a, b, e)

ProtocolInv == (cl.state = "zombie" /\ cl.reason = "disconnected") \/ Kept

\* A message is of one kind, and is not none.
LEMMA MessageKinds ==
    /\ \A m \in ToServer : m # C!None
    /\ \A m \in Gamestates : m # C!None /\ m.kind = "gamestate"
    /\ \A m \in Snapshots : m # C!None /\ m.kind = "snapshot"
BY DEF ToServer, Gamestates, Snapshots, C!None

\* The types of the parts of the state.
LEMMA PartTypes ==
    ASSUME ProtocolTypes
    PROVE  /\ sv.id \in Nat /\ sv.map \in Nat
           /\ cl \in Server /\ cl.gamestates \in Nat /\ cl.lastCommand \in Nat /\ cl.block \in Nat
           /\ client \in Clients /\ client.id \in Nat /\ client.map \in Nat /\ client.sent \in Nat
           /\ client.block \in Nat /\ client.seen \in Nat \X BOOLEAN
           /\ client.pending \in Seq(C!Numbered)
           /\ Coming => /\ up \in ToServer /\ up.id \in Nat /\ up.ack \in Nat \X BOOLEAN
                        /\ up.commands \in Seq(C!Numbered)
           /\ Gamestate => down \in Gamestates
           /\ Snapshot => down \in Snapshots /\ down.block \in Nat
           /\ Gamestate \/ Snapshot => /\ down.id \in Nat /\ down.map \in Nat /\ down.ack \in Nat
                                       /\ down.number \in Nat \X BOOLEAN
           /\ down = C!None \/ Gamestate \/ Snapshot
           /\ ~(Gamestate /\ Snapshot)
<1>1. /\ sv.id \in Nat /\ sv.map \in Nat
      /\ cl \in Server /\ cl.gamestates \in Nat /\ cl.lastCommand \in Nat /\ cl.block \in Nat
    BY DEF ProtocolTypes, Server
<1>2. /\ client \in Clients /\ client.id \in Nat /\ client.map \in Nat /\ client.sent \in Nat
      /\ client.block \in Nat /\ client.seen \in Nat \X BOOLEAN
      /\ client.pending \in Seq(C!Numbered)
    BY DEF ProtocolTypes, Clients
<1>3. Coming => up \in ToServer
    BY DEF ProtocolTypes, Coming
<1>4. \A m \in ToServer : /\ m.id \in Nat /\ m.ack \in Nat \X BOOLEAN
                           /\ m.commands \in Seq(C!Numbered)
    BY DEF ToServer
<1>5. /\ down = C!None \/ Gamestate \/ Snapshot
      /\ Gamestate => down \in Gamestates
      /\ Snapshot => down \in Snapshots
      /\ ~(Gamestate /\ Snapshot)
    BY MessageKinds DEF ProtocolTypes, Gamestate, Snapshot
<1>6. /\ \A m \in Gamestates : /\ m.id \in Nat /\ m.map \in Nat /\ m.ack \in Nat
                               /\ m.number \in Nat \X BOOLEAN
      /\ \A m \in Snapshots : /\ m.id \in Nat /\ m.map \in Nat /\ m.ack \in Nat
                              /\ m.number \in Nat \X BOOLEAN /\ m.block \in Nat
    BY DEF Gamestates, Snapshots
<1> QED
    BY <1>1, <1>2, <1>3, <1>4, <1>5, <1>6

\* Packets are lost, or come to nothing.
LEMMA KnownLost ==
    ASSUME NEW T, NEW a, NEW b, NEW e, Known(T, a, b, e), UNCHANGED <<sv, cl, client>>,
           up' = up \/ up' = C!None, down' = down \/ down' = C!None
    PROVE  Known(T, a, b, e)'
<1>1. /\ UNCHANGED <<sv, cl, client>>
      /\ up' = up \/ up' = C!None
      /\ down' = down \/ down' = C!None
    OBVIOUS
<1>2. /\ Coming' => Coming /\ up' = up
      /\ Gamestate' => Gamestate /\ down' = down
      /\ Snapshot' => Snapshot /\ down' = down
    BY <1>1 DEF Coming, Gamestate, Snapshot
<1>3. Here' = Here /\ NoDownload' = NoDownload
    BY <1>1 DEF Here, NoDownload
<1> QED
    <2>1. ProtocolTypes'
        BY <1>1 DEF Known, ProtocolTypes
    <2>2. Counts(T, a, b, e)'
        BY <1>1, <1>2 DEF Known, Counts
    <2>3. Grammar(T, client.sent)' /\ Follows(T, client.sent, cl)' /\ ClientGoesOn(T)'
        BY <1>1 DEF Known, ClientGoesOn
    <2>4. Maps'
        BY <1>1, <1>2, <1>3 DEF Known, Maps
    <2>5. Answers'
        BY <1>1, <1>2, <1>3 DEF Known, Answers
    <2>6. Downloads(T)'
        BY <1>1, <1>2, <1>3 DEF Known, Downloads
    <2>7. SaidSince(T, e)'
        BY <1>1, <1>2, <1>3 DEF Known, SaidSince
    <2>8. Checksums(T)' /\ Moves(T, e)'
        BY <1>1, <1>2, <1>3 DEF Known, Checksums, Moves
    <2> QED
        BY <2>1, <2>2, <2>3, <2>4, <2>5, <2>6, <2>7, <2>8 DEF Known

\* The map restarts: its name stays.
LEMMA KnownRestarted ==
    ASSUME NEW T, NEW a, NEW b, NEW e, Known(T, a, b, e), C!MapRestart
    PROVE  Known(T, a, b, e)'
<1>1. /\ UNCHANGED <<cl, client, up, down>>
      /\ sv' \in [id : Nat, map : Nat] /\ sv'.map = sv.map /\ sv'.id = sv.id + 1
      /\ sv.id \in Nat /\ sv.map \in Nat
    BY DEF Known, ProtocolTypes, C!MapRestart
<1>2. /\ Coming' = Coming /\ Gamestate' = Gamestate /\ Snapshot' = Snapshot
      /\ Here' = Here /\ NoDownload' = NoDownload
    BY <1>1 DEF Coming, Gamestate, Snapshot, Here, NoDownload
<1> QED
    <2>1. ProtocolTypes'
        BY <1>1 DEF Known, ProtocolTypes
    <2>2. Counts(T, a, b, e)'
        BY <1>1, <1>2 DEF Known, Counts
    <2>3. Grammar(T, client.sent)' /\ Follows(T, client.sent, cl)' /\ ClientGoesOn(T)'
        BY <1>1 DEF Known, ClientGoesOn
    <2>4. Maps'
        <3>1. /\ Maps /\ client.id \in Nat
              /\ Coming => up.id \in Nat
              /\ Gamestate \/ Snapshot => down.id \in Nat
            BY PartTypes DEF Known
        <3> QED
            BY <1>1, <1>2, <3>1 DEF Maps
    <2>5. Answers'
        BY <1>1, <1>2 DEF Known, Answers
    <2>6. Downloads(T)'
        BY <1>1, <1>2 DEF Known, Downloads
    <2>7. SaidSince(T, e)'
        BY <1>1, <1>2 DEF Known, SaidSince
    <2>8. Checksums(T)' /\ Moves(T, e)'
        BY <1>1, <1>2 DEF Known, Checksums, Moves
    <2> QED
        BY <2>1, <2>2, <2>3, <2>4, <2>5, <2>6, <2>7, <2>8 DEF Known

\* The map changes: nobody is in its world, or has its gamestate.
LEMMA KnownMapChanged ==
    ASSUME NEW T, NEW a, NEW b, NEW e, Known(T, a, b, e), C!MapChange
    PROVE  Known(T, a, b, e)'
<1>1. /\ UNCHANGED <<client, up, down>> /\ client \in Clients
      /\ sv' \in [id : Nat, map : Nat] /\ sv'.map = sv.id + 1 /\ sv'.id = sv.id + 1
      /\ sv.id \in Nat /\ sv.map \in Nat
    BY DEF Known, ProtocolTypes, C!MapChange
<1>2. cl \in Server /\ cl.state # "zombie" /\ cl' = [cl EXCEPT !.state = "connected"]
    BY DEF Known, Follows, C!MapChange
<1>3. /\ cl' \in Server /\ cl'.state = "connected" /\ cl'.gamestates = cl.gamestates
      /\ cl'.lastCommand = cl.lastCommand /\ cl'.nextdl = cl.nextdl /\ cl'.dl = cl.dl
      /\ cl'.block = cl.block /\ cl'.pure = cl.pure
    BY <1>2 DEF Server
<1>4. /\ Maps /\ client.id \in Nat /\ client.map \in Nat
      /\ Coming => up.id \in Nat
      /\ Gamestate \/ Snapshot => down.id \in Nat /\ down.map \in Nat
    BY PartTypes DEF Known
<1>5. /\ Coming' = Coming /\ Gamestate' = Gamestate /\ Snapshot' = Snapshot
      /\ NoDownload' = NoDownload
    BY <1>1, <1>3 DEF Coming, Gamestate, Snapshot, NoDownload
<1>6. /\ ~Here'
      /\ Coming => up.id < sv'.map
    BY <1>1, <1>4 DEF Maps, Here
<1> QED
    <2>1. ProtocolTypes'
        BY <1>1, <1>3 DEF Known, ProtocolTypes
    <2>2. Counts(T, a, b, e)'
        BY <1>1, <1>3, <1>5 DEF Known, Counts
    <2>3. Grammar(T, client.sent)' /\ ClientGoesOn(T)'
        BY <1>1 DEF Known, ClientGoesOn
    <2>4. Follows(T, client.sent, cl)'
        BY ZenonT(60), <1>1, <1>3 DEF Known, Follows, DownloadIs, FirstBlock
    <2>5. Maps'
        BY <1>1, <1>3, <1>4, <1>5, <1>6 DEF Maps
    <2>6. Answers'
        BY <1>1, <1>3, <1>5, <1>6 DEF Known, Answers
    <2>7. Downloads(T)'
        BY <1>1, <1>3, <1>5, <1>6 DEF Known, Downloads
    <2>8. SaidSince(T, e)'
        BY <1>1, <1>4, <1>5, <1>6 DEF SaidSince
    <2>9. Checksums(T)'
        BY <1>1, <1>3, <1>5, <1>6 DEF Known, Checksums
    <2>10. Moves(T, e)'
        BY <1>1, <1>3, <1>5, <1>6 DEF Known, Moves
    <2> QED
        BY <2>1, <2>2, <2>3, <2>4, <2>5, <2>6, <2>7, <2>8, <2>9, <2>10 DEF Known

\* Checksums that count at the end of a text were sent before, or since.
LEMMA ChecksumsAt ==
    ASSUME NEW T, NEW n \in Nat, NEW s \in Nat, n <= s, PureAt(T, s)
    PROVE  \/ PureBetween(T, n + 1, s)
           \/ PureAt(T, n) /\ Quiet(T, n + 1, s)
<1>1. PICK m \in 1..s : T[m].do = "cp" /\ Quiet(T, m + 1, s)
    BY DEF PureAt, PureBetween
<1>2. CASE m > n
    BY <1>1, <1>2 DEF PureBetween
<1>3. CASE ~(m > n)
    <2>1. /\ m \in 1..n /\ \A k \in (m + 1)..n : k \in (m + 1)..s
          /\ \A k \in (n + 1)..s : k \in (m + 1)..s
        BY <1>1, <1>3
    <2> QED
        BY <1>1, <2>1 DEF PureAt, PureBetween, Quiet
<1> QED
    BY <1>2, <1>3

\* The client sends what it keeps.
LEMMA KnownSent ==
    ASSUME NEW T, NEW a, NEW b, NEW e, Known(T, a, b, e), C!SendToServer
    PROVE  Known(T, a, a, client.sent)'
<1>1. /\ UNCHANGED <<sv, cl, client, down>>
      /\ up' = [kind |-> "message", id |-> client.id, ack |-> client.seen,
                commands |-> client.pending, move |-> client.phase = "play"]
    BY DEF C!SendToServer
<1>2. PICK moves \in BOOLEAN : moves = (client.phase = "play")
    BY Zenon
<1>3. /\ up' \in ToServer /\ up'.id = client.id /\ up'.ack = client.seen
      /\ up'.commands = client.pending /\ up'.move = moves
    <2>1. /\ client.id \in Nat /\ client.seen \in Nat \X BOOLEAN
          /\ client.pending \in Seq(C!Numbered)
        BY PartTypes DEF Known
    <2> QED
        BY <1>1, <1>2, <2>1 DEF ToServer
<1>4. Gamestate' = Gamestate /\ Snapshot' = Snapshot /\ Here' = Here /\ NoDownload' = NoDownload
    BY <1>1 DEF Gamestate, Snapshot, Here, NoDownload
<1>5. /\ cl.lastCommand \in Nat /\ client.sent \in Nat /\ cl.lastCommand <= client.sent
      /\ client.id \in Nat /\ client.map \in Nat /\ sv.map \in Nat
    BY PartTypes DEF Known, Follows
<1>6. ~\E n \in (client.sent + 1)..client.sent : TRUE
    BY <1>5
<1> QED
    <2>1. ProtocolTypes'
        BY <1>1, <1>3 DEF Known, ProtocolTypes
    <2>2. Counts(T, a, a, client.sent)'
        <3>1. Counts(T, a, b, e)
            BY DEF Known
        <3> QED
            BY <1>1, <1>3, <1>4, <1>5, <3>1 DEF Counts
    <2>3. Grammar(T, client.sent)' /\ Follows(T, client.sent, cl)' /\ ClientGoesOn(T)'
        BY <1>1 DEF Known, ClientGoesOn
    <2>4. Maps'
        BY <1>1, <1>3, <1>4 DEF Known, Maps
    <2>5. Answers'
        <3>1. Answers /\ Maps
            BY DEF Known
        <3>2. Here => client.id >= sv.map
            BY <1>5, <3>1 DEF Maps, Here
        <3> QED
            BY <1>1, <1>3, <1>4, <3>1, <3>2 DEF Answers
    <2>6. Downloads(T)'
        BY <1>1, <1>4 DEF Known, Downloads
    <2>7. SaidSince(T, client.sent)'
        BY <1>1, <1>6 DEF SaidSince
    <2>8. Checksums(T)'
        BY <1>1, <1>4 DEF Known, Checksums
    <2>9. Moves(T, client.sent)'
        <3>1. SUFFICES ASSUME client.phase = "play"
                       PROVE  /\ PureAt(T, client.sent)
                              /\ Pure => \/ PureBetween(T, cl.lastCommand + 1, client.sent)
                                         \/ cl.pure /\ Quiet(T, cl.lastCommand + 1, client.sent)
                                         \/ NoDownload /\ client.id < sv.map
            BY <1>1, <1>2, <1>3, <1>4 DEF Moves
        <3>2. PureAt(T, client.sent)
            BY <3>1 DEF Known, ClientGoesOn
        <3>3. CASE PureBetween(T, cl.lastCommand + 1, client.sent)
            BY <3>2, <3>3
        <3>4. CASE PureAt(T, cl.lastCommand) /\ Quiet(T, cl.lastCommand + 1, client.sent)
            <4>1. SUFFICES ASSUME Pure
                           PROVE  \/ PureBetween(T, cl.lastCommand + 1, client.sent)
                                  \/ cl.pure
                                  \/ NoDownload /\ client.id < sv.map
                BY <3>2, <3>4
            <4>2. \/ cl.pure
                  \/ ~Here /\ NoDownload
                  \/ \E n \in (cl.lastCommand + 1)..client.sent : T[n].do = "cp"
                BY <3>1, <3>4, <4>1 DEF Known, Checksums
            <4>3. CASE ~Here /\ NoDownload
                BY <1>5, <4>3 DEF Known, Maps
            <4>4. CASE \E n \in (cl.lastCommand + 1)..client.sent : T[n].do = "cp"
                <5>1. PICK n \in (cl.lastCommand + 1)..client.sent : T[n].do = "cp"
                    BY <4>4
                <5>2. \A k \in (n + 1)..client.sent : k \in (cl.lastCommand + 1)..client.sent
                    BY <1>5
                <5>3. Quiet(T, n + 1, client.sent)
                    BY <3>4, <5>2 DEF Quiet
                <5> QED
                    BY <5>1, <5>3 DEF PureBetween
            <4> QED
                BY <4>2, <4>3, <4>4
        <3> QED
            BY <1>5, <3>2, <3>3, <3>4, ChecksumsAt
    <2> QED
        BY <2>1, <2>2, <2>3, <2>4, <2>5, <2>6, <2>7, <2>8, <2>9 DEF Known

\* The server sends a snapshot, and opens the file of a new download.
LEMMA KnownAnswered ==
    ASSUME NEW T, NEW a, NEW b, NEW e, Known(T, a, b, e), C!SendClientMessage
    PROVE  Known(T, a, b, e)'
<1>1. /\ UNCHANGED <<sv, client, up>> /\ down = C!None
      /\ cl' = IF cl.dl = "named" THEN [cl EXCEPT !.dl = "open", !.block = 0] ELSE cl
      /\ down' = [kind |-> "snapshot", number |-> <<cl.gamestates, TRUE>>,
                  id |-> IF cl.state = "connected" THEN 0 ELSE sv.id, map |-> sv.map,
                  block |-> IF cl'.dl = "open" THEN cl'.block ELSE Blocks + 1,
                  ack |-> cl.lastCommand]
    BY DEF C!SendClientMessage, C!OpenDownload
<1>0. PICK c : c = cl'
    OBVIOUS
<1>2. /\ sv.id \in Nat /\ sv.map \in Nat /\ cl \in Server /\ cl.gamestates \in Nat
      /\ cl.lastCommand \in Nat /\ client.sent \in Nat /\ cl.lastCommand <= client.sent
      /\ Blocks \in Nat
    BY PartTypes, ProtocolLimits DEF Known, Follows
<1>3. /\ c \in Server /\ c.state = cl.state /\ c.gamestates = cl.gamestates
      /\ c.lastCommand = cl.lastCommand /\ c.nextdl = cl.nextdl /\ c.pure = cl.pure
      /\ cl.dl = "named" => c.dl = "open" /\ c.block = 0
      /\ cl.dl # "named" => c.dl = cl.dl /\ c.block = cl.block
    <2>1. CASE cl.dl = "named"
        BY <1>0, <1>1, <1>2, <2>1 DEF Server
    <2>2. CASE cl.dl # "named"
        BY <1>0, <1>1, <1>2, <2>2
    <2> QED
        BY <2>1, <2>2
<1>4. PICK i \in Nat, k \in Nat : /\ i = IF cl.state = "connected" THEN 0 ELSE sv.id
                                  /\ k = IF c.dl = "open" THEN c.block ELSE Blocks + 1
    <2>1. c.block \in Nat
        BY <1>3 DEF Server
    <2> QED
        BY <1>2, <2>1
<1>8. PICK number \in Nat \X BOOLEAN : number = <<cl.gamestates, TRUE>>
    BY <1>2
<1>5. /\ down' \in Snapshots /\ down'.number = number /\ down'.id = i /\ down'.map = sv.map
      /\ down'.block = k /\ down'.ack = cl.lastCommand
    <2>1. down' = [kind |-> "snapshot", number |-> number, id |-> i, map |-> sv.map,
                   block |-> k, ack |-> cl.lastCommand]
        <3>1. PICK x, y, z : /\ x = <<cl.gamestates, TRUE>>
                             /\ y = IF cl.state = "connected" THEN 0 ELSE sv.id
                             /\ z = IF cl'.dl = "open" THEN cl'.block ELSE Blocks + 1
            OBVIOUS
        <3>2. down' = [kind |-> "snapshot", number |-> x, id |-> y, map |-> sv.map,
                       block |-> z, ack |-> cl.lastCommand]
            BY <1>1, <3>1
        <3>3. x = number
            BY <1>8, <3>1
        <3>4. y = i
            BY <1>4, <3>1
        <3>5. z = k
            BY <1>0, <1>4, <3>1
        <3> QED
            BY <3>2, <3>3, <3>4, <3>5
    <2> QED
        BY <1>2, <2>1 DEF Snapshots
<1>6. ~Gamestate' /\ Snapshot' /\ ~Gamestate /\ ~Snapshot
    BY <1>1, <1>5, MessageKinds DEF Gamestate, Snapshot
<1>7. Coming' = Coming /\ Here' = Here /\ (NoDownload' <=> NoDownload)
    BY <1>0, <1>1, <1>3 DEF Coming, Here, NoDownload
<1> QED
    <2>1. ProtocolTypes'
        BY <1>0, <1>1, <1>3, <1>5 DEF Known, ProtocolTypes
    <2>2. Counts(T, a, b, e)'
        <3>1. Counts(T, a, b, e)
            BY DEF Known
        <3> QED
            BY <1>0, <1>1, <1>2, <1>3, <1>5, <1>6, <1>7, <3>1 DEF Counts
    <2>3. Grammar(T, client.sent)' /\ ClientGoesOn(T)'
        BY <1>1 DEF Known, ClientGoesOn
    <2>4. Follows(T, client.sent, cl)'
        <3>1. Follows(T, client.sent, cl)
            BY DEF Known
        <3>2. DownloadIs(T, c)
            <4>1. DownloadIs(T, cl)
                BY <3>1 DEF Follows
            <4>2. CASE cl.dl = "named"
                <5>1. Downloading(T, cl.lastCommand) /\ T[cl.lastCommand].do # "nextdl"
                    BY <4>1, <4>2 DEF DownloadIs, Downloading
                <5> QED
                    BY <1>3, <4>1, <4>2, <5>1 DEF DownloadIs
            <4>3. CASE cl.dl # "named"
                BY <1>3, <4>1, <4>3 DEF DownloadIs
            <4> QED
                BY <4>2, <4>3
        <3>3. FirstBlock(T, client.sent, c)
            BY <1>3, <3>1 DEF Follows, FirstBlock
        <3> QED
            BY <1>0, <1>1, <1>3, <3>1, <3>2, <3>3 DEF Follows
    <2>5. Maps'
        <3>1. Maps
            BY DEF Known
        <3> QED
            BY <1>0, <1>1, <1>2, <1>3, <1>4, <1>5, <1>6, <1>7, <3>1 DEF Maps
    <2>6. Answers'
        <3>1. Answers
            BY DEF Known
        <3> QED
            BY <1>0, <1>1, <1>3, <1>5, <1>6, <1>7, <1>8, <3>1 DEF Answers
    <2>7. Downloads(T)'
        <3>1. Downloads(T)
            BY DEF Known
        <3>2. client.phase = "download" /\ client.block = 0 /\ k = 0 =>
                  cl.lastCommand = client.sent /\ c.dl = "open"
            <4>1. SUFFICES ASSUME client.phase = "download", client.block = 0, k = 0
                           PROVE  cl.lastCommand = client.sent /\ c.dl = "open"
                OBVIOUS
            <4>2. c.dl = "open"
                BY <1>2, <1>4, <4>1
            <4>3. cl.dl # "none"
                BY <1>3, <4>2
            <4>4. client.sent > 0 /\ T[client.sent].do = "download"
                <5>3. IsText(T, client.sent) /\ client.sent > 0
                    BY <4>1 DEF Known, ClientGoesOn, Counts
                <5>1. client.sent > 0 /\ T[client.sent] \in C!Commands
                    BY <1>2, <5>3 DEF IsText
                <5>2. T[client.sent].do = "nextdl" => T[client.sent].block + 1 > 0
                    <6>1. PICK cmd \in C!Commands : cmd = T[client.sent]
                        BY <5>1
                    <6>2. cmd.do = "nextdl" => cmd.block \in 0..Blocks
                        BY CommandsAre
                    <6> QED
                        BY <1>2, <6>1, <6>2
                <5> QED
                    BY <4>1, <5>1, <5>2 DEF Known, ClientGoesOn
            <4>5. cl.lastCommand = client.sent
                BY <1>2, <3>1, <4>3, <4>4 DEF Downloads, NoDownload
            <4> QED
                BY <4>2, <4>5
        <3> QED
            BY <1>0, <1>1, <1>3, <1>5, <1>6, <1>7, <3>1, <3>2 DEF Downloads
    <2>8. SaidSince(T, e)'
        BY <1>1, <1>6, <1>7 DEF Known, SaidSince
    <2>9. Checksums(T)' /\ Moves(T, e)'
        BY <1>0, <1>1, <1>3, <1>7 DEF Known, Checksums, Moves
    <2> QED
        BY <2>1, <2>2, <2>3, <2>4, <2>5, <2>6, <2>7, <2>8, <2>9 DEF Known

\* The client says more.
Longer(T, s, U, n) ==
    /\ IsText(T, s) /\ IsText(U, n) /\ s <= n
    /\ \A k \in 1..s : U[k] = T[k]

\* A text may be said on with any command.
LEMMA OneLonger ==
    ASSUME NEW T, NEW s, IsText(T, s), NEW cmd \in C!Commands
    PROVE  \E U : Longer(T, s, U, s + 1) /\ U[s + 1] = cmd
<1>1. s \in Nat /\ T \in [1..s -> C!Commands]
    BY DEF IsText
<1>2. PICK U : U = [k \in 1..(s + 1) |-> IF k = s + 1 THEN cmd ELSE T[k]]
    OBVIOUS
<1>3. \A k \in 1..(s + 1) : k = s + 1 \/ k \in 1..s
    BY <1>1
<1>4. U \in [1..(s + 1) -> C!Commands]
    BY <1>1, <1>2, <1>3
<1>5. s + 1 \in Nat /\ s + 1 \in 1..(s + 1) /\ \A k \in 1..s : k \in 1..(s + 1) /\ k # s + 1
    BY <1>1
<1> QED
    BY <1>1, <1>2, <1>4, <1>5 DEF Longer, IsText

\* A text that goes on twice goes on.
LEMMA LongerStill ==
    ASSUME NEW T, NEW s, NEW U, NEW n, NEW V, NEW m, Longer(T, s, U, n), Longer(U, n, V, m)
    PROVE  Longer(T, s, V, m)
<1>1. s \in Nat /\ n \in Nat /\ m \in Nat
    BY DEF Longer, IsText
<1>2. \A k \in 1..s : k \in 1..n
    BY <1>1 DEF Longer
<1> QED
    BY <1>1, <1>2 DEF Longer

\* What was said stays said.
LEMMA StaysSaid ==
    ASSUME NEW T, NEW s, NEW U, NEW n, Longer(T, s, U, n)
    PROVE  /\ \A ms, b, e : Says(ms, T, b, e) /\ e <= s => Says(ms, U, b, e)
           /\ \A i \in Nat \ {0}, k \in Nat : k <= s =>
                  /\ PureBetween(T, i, k) <=> PureBetween(U, i, k)
                  /\ Quiet(T, i, k) <=> Quiet(U, i, k)
           /\ \A k \in Nat : k <= s => (PureAt(T, k) <=> PureAt(U, k))
<1>1. s \in Nat /\ n \in Nat /\ s <= n /\ \A k \in 1..s : U[k] = T[k]
    BY DEF Longer, IsText
<1>2. ASSUME NEW ms, NEW b, NEW e, Says(ms, T, b, e), e <= s
      PROVE  Says(ms, U, b, e)
    <2>1. b \in Nat /\ e \in Nat
        BY <1>2 DEF Says
    <2>2. \A i \in 1..(e - b) : b + i \in 1..s
        BY <1>1, <1>2, <2>1
    <2> QED
        BY <1>1, <1>2, <2>2 DEF Says
<1>3. ASSUME NEW i \in Nat \ {0}, NEW k \in Nat, k <= s
      PROVE  Quiet(T, i, k) <=> Quiet(U, i, k)
    <2>1. \A j \in i..k : j \in 1..s
        BY <1>1, <1>3
    <2> QED
        BY <1>1, <2>1 DEF Quiet
<1>4. ASSUME NEW i \in Nat \ {0}, NEW k \in Nat, k <= s
      PROVE  PureBetween(T, i, k) <=> PureBetween(U, i, k)
    <2>1. \A j \in i..k : j \in 1..s /\ j + 1 \in Nat \ {0}
        BY <1>1, <1>4
    <2>2. \A j \in i..k : Quiet(T, j + 1, k) <=> Quiet(U, j + 1, k)
        BY <1>3, <1>4, <2>1
    <2> QED
        BY <1>1, <2>1, <2>2 DEF PureBetween
<1> QED
    BY <1>2, <1>3, <1>4 DEF PureAt

\* The server follows a longer text, when the next block is the one it is at.
LEMMA StillFollows ==
    ASSUME NEW T, NEW s, NEW U, NEW n, Longer(T, s, U, n), NEW c, Follows(T, s, c),
           \A k \in (s + 1)..n : U[k].do = "nextdl" /\ U[k].block = 0 =>
               k = c.lastCommand + 1 /\ c.dl = "open"
    PROVE  Follows(U, n, c)
<1>1. /\ s \in Nat /\ n \in Nat /\ s <= n /\ \A k \in 1..s : U[k] = T[k]
      /\ c \in Server /\ c.lastCommand \in Nat /\ c.lastCommand <= s
    BY DEF Longer, IsText, Follows, Server
<1>2. c.lastCommand <= n
    BY <1>1
<1>3. DownloadIs(U, c)
    <2>1. DownloadIs(T, c)
        BY DEF Follows
    <2>2. c.lastCommand > 0 => U[c.lastCommand] = T[c.lastCommand]
        BY <1>1
    <2> QED
        BY <1>1, <2>1, <2>2 DEF DownloadIs, Downloading
<1>4. FirstBlock(U, n, c)
    <2>1. \A k \in (c.lastCommand + 1)..n :
              k \in (s + 1)..n \/ (k \in (c.lastCommand + 1)..s /\ k \in 1..s)
        BY <1>1
    <2> QED
        BY <1>1, <2>1 DEF Follows, FirstBlock
<1>5. c.state = "active" => \E k \in 1..c.lastCommand : U[k].do = "cp"
    <2>1. \A k \in 1..c.lastCommand : k \in 1..s
        BY <1>1
    <2> QED
        BY <1>1, <2>1 DEF Follows
<1> QED
    BY <1>1, <1>2, <1>3, <1>4, <1>5 DEF Follows

\* One command more, that may follow the last one.
MayFollow(T, s, cmd) ==
    /\ cmd.do = "nextdl" =>
           /\ s > 0
           /\ cmd.block = 0 => T[s].do = "download"
           /\ cmd.block > 0 => T[s].do = "nextdl" /\ T[s].block = cmd.block - 1
    /\ cmd.do = "donedl" =>
           s > 0 /\ (T[s].do = "stopdl" \/ (T[s].do = "nextdl" /\ T[s].block = Blocks))
    /\ cmd.do \in Early => \A k \in 1..s : T[k].do \in Early \ {"donedl"}
    /\ cmd.do \notin Early => s = 0 \/ T[s].do \notin Early \ {"donedl"}

\* A text that goes on with what may follow keeps its order.
LEMMA GrammarGrows ==
    ASSUME NEW T, NEW s, Grammar(T, s), NEW U, Longer(T, s, U, s + 1), NEW cmd, cmd = U[s + 1],
           MayFollow(T, s, cmd)
    PROVE  Grammar(U, s + 1)
<1>1. s \in Nat /\ \A k \in 1..s : U[k] = T[k]
    BY DEF Longer, IsText
<1>2. \A k \in 1..(s + 1) : k = s + 1 \/ k \in 1..s
    BY <1>1
<1>3. /\ (s + 1) - 1 = s /\ \A k \in 2..(s + 1) : k = s + 1 \/ (k \in 2..s /\ k - 1 \in 1..s)
      /\ s > 0 => s \in 1..s /\ U[s] = T[s]
      /\ \A k \in 1..s : k > 1 => k - 1 \in 1..s /\ U[k - 1] = T[k - 1]
    BY <1>1
<1>4. BlocksInOrder(U, s + 1)
    <2>1. BlocksInOrder(T, s)
        BY DEF Grammar
    <2> QED
        BY <1>1, <1>2, <1>3, <2>1 DEF BlocksInOrder, MayFollow
<1>5. DoneAfterDownload(U, s + 1)
    <2>1. DoneAfterDownload(T, s)
        BY DEF Grammar
    <2> QED
        BY <1>1, <1>2, <1>3, <2>1 DEF DoneAfterDownload, MayFollow
<1>6. EarlyFirst(U, s + 1)
    <2>1. EarlyFirst(T, s)
        BY DEF Grammar
    <2>2. \A k \in 1..s : \A m \in 1..k : m \in 1..s
        BY <1>1
    <2> QED
        BY <1>1, <1>2, <2>1, <2>2 DEF EarlyFirst, MayFollow
<1>7. PlayAfterDone(U, s + 1)
    <2>1. PlayAfterDone(T, s)
        BY DEF Grammar
    <2>2. \A k \in 2..(s + 1) : k = s + 1 \/ (k \in 2..s /\ U[k] = T[k] /\ U[k - 1] = T[k - 1])
        BY <1>1, <1>3
    <2>3. s + 1 \in 2..(s + 1) => s # 0 /\ U[(s + 1) - 1] = T[s]
        BY <1>1, <1>3
    <2> QED
        BY <2>1, <2>2, <2>3 DEF PlayAfterDone, MayFollow
<1>8. NothingAfterDone(U, s + 1)
    <2>1. NothingAfterDone(T, s)
        BY DEF Grammar
    <2>2. \A k \in 1..s : \A m \in (k + 1)..(s + 1) : m = s + 1 \/ (m \in (k + 1)..s /\ m \in 1..s)
        BY <1>1
    <2>3. ~\E m \in ((s + 1) + 1)..(s + 1) : TRUE
        BY <1>1
    <2> QED
        BY <1>1, <1>2, <2>1, <2>2, <2>3 DEF NothingAfterDone, MayFollow, Early
<1> QED
    BY <1>4, <1>5, <1>6, <1>7, <1>8 DEF Grammar

\* The parts of a client that its commands do not change.
SameElse(d, c) ==
    /\ d.id = c.id /\ d.map = c.map /\ d.seen = c.seen /\ d.phase = c.phase
    /\ d.hasFile = c.hasFile /\ d.block = c.block

SaysMore(d, c, U, a, n) ==
    d \in Clients /\ d.sent = n /\ Says(d.pending, U, a, n) /\ SameElse(d, c)

\* Sequences put together, and the end of one.
LEMMA Together ==
    ASSUME NEW p \in Seq(C!Numbered), NEW q \in Seq(C!Numbered)
    PROVE  /\ p \o q \in Seq(C!Numbered) /\ Len(p \o q) = Len(p) + Len(q)
           /\ \A i \in 1..Len(p) : (p \o q)[i] = p[i]
           /\ \A i \in 1..Len(q) : (p \o q)[Len(p) + i] = q[i]
OBVIOUS

\* The end of what is pending.
LEMMA EndOf ==
    ASSUME NEW p \in Seq(C!Numbered), NEW i \in Nat, i <= Len(p),
           NEW r, r = SubSeq(p, i + 1, Len(p))
    PROVE  /\ r \in Seq(C!Numbered) /\ Len(r) = Len(p) - i
           /\ \A j \in 1..(Len(p) - i) : r[j] = p[i + j]
<1>1. PICK l \in Nat : l = Len(p)
    OBVIOUS
<1>2. Len(r) = l - i /\ \A j \in 1..(l - i) : r[j] = p[i + j]
    BY <1>1
<1>3. r \in Seq(C!Numbered)
    BY <1>1
<1> QED
    BY <1>1, <1>2, <1>3

\* What the client says is kept until it is acknowledged.
LEMMA Speaks ==
    ASSUME NEW c \in Clients, NEW T, NEW a \in Nat, Says(c.pending, T, a, c.sent),
           NEW cmds \in Seq(C!Commands), NEW n \in Nat, n = c.sent + Len(cmds),
           NEW U, Longer(T, c.sent, U, n), \A i \in 1..Len(cmds) : U[c.sent + i] = cmds[i],
           NEW d, d = C!WithCommands(c, cmds)
    PROVE  SaysMore(d, c, U, a, n)
<1>1. PICK l \in Nat, s \in Nat, p \in Seq(C!Numbered) : l = Len(cmds) /\ s = c.sent /\ p = c.pending
    BY DEF Clients
<1>2. PICK q : q = [i \in DOMAIN cmds |-> [n |-> s + i, cmd |-> cmds[i]]]
    OBVIOUS
<1>3. \A i \in 1..l : [n |-> s + i, cmd |-> cmds[i]] \in C!Numbered
    BY <1>1 DEF C!Numbered
<1>4. q \in Seq(C!Numbered) /\ Len(q) = l /\ \A i \in 1..l : q[i] = [n |-> s + i, cmd |-> cmds[i]]
    <2>1. DOMAIN cmds = 1..l
        BY <1>1
    <2> QED
        BY <1>2, <1>3, <2>1
<1>5. PICK r : r = p \o q
    OBVIOUS
<1>6. PICK m \in Nat : m = Len(p)
    BY <1>1
<1>7. /\ r \in Seq(C!Numbered) /\ Len(r) = m + l
      /\ \A i \in 1..m : r[i] = p[i]
      /\ \A i \in 1..l : r[m + i] = q[i]
    <2>1. /\ p \o q \in Seq(C!Numbered) /\ Len(p \o q) = Len(p) + Len(q)
          /\ \A i \in 1..Len(p) : (p \o q)[i] = p[i]
          /\ \A i \in 1..Len(q) : (p \o q)[Len(p) + i] = q[i]
        BY <1>4, Together
    <2> QED
        BY <1>4, <1>5, <1>6, <2>1
<1>8. d = [c EXCEPT !.pending = r, !.sent = s + l]
    BY <1>1, <1>2, <1>5 DEF C!WithCommands
<1>9. d \in Clients /\ d.sent = s + l /\ d.pending = r /\ SameElse(d, c)
    BY <1>1, <1>7, <1>8 DEF Clients, SameElse
<1>10. a \in Nat /\ m = s - a /\ a <= s /\ a + m = s /\ n - a = m + l
    <2>1. m = s - a /\ a <= s
        BY <1>1, <1>6 DEF Says
    <2>2. n = s + l
        BY <1>1
    <2> QED
        BY <2>1, <2>2
<1>11. Says(r, U, a, n)
    <2>1. ASSUME NEW i \in 1..(n - a) PROVE r[i] = [n |-> a + i, cmd |-> U[a + i]]
        <3>1. CASE i \in 1..m
            <4>1. p[i] = [n |-> a + i, cmd |-> T[a + i]]
                BY <1>1, <1>10, <3>1 DEF Says
            <4>2. a + i \in 1..s
                BY <1>10, <3>1
            <4>3. U[a + i] = T[a + i]
                BY <1>1, <4>2 DEF Longer
            <4> QED
                BY <1>7, <3>1, <4>1, <4>3
        <3>2. CASE i \notin 1..m
            <4>1. PICK j \in 1..l : i = m + j
                <5>1. i - m \in 1..l /\ i = m + (i - m)
                    BY <1>10, <3>2
                <5> QED
                    BY <5>1
            <4>2. r[i] = [n |-> s + j, cmd |-> cmds[j]]
                BY <1>4, <1>7, <4>1
            <4>3. s + j = a + i
                BY <1>10, <4>1
            <4>4. U[a + i] = cmds[j]
                BY <1>1, <4>3
            <4> QED
                BY <4>2, <4>3, <4>4
        <3> QED
            BY <3>1, <3>2
    <2> QED
        <3>1. n \in Nat /\ a <= n /\ Len(r) = n - a
            BY <1>7, <1>10
        <3> QED
            BY Zenon, <1>7, <1>10, <2>1, <3>1 DEF Says
<1> QED
    BY <1>1, <1>9, <1>11 DEF SaysMore

\* A client says one command more.
LEMMA SaysOne ==
    ASSUME NEW c \in Clients, NEW T, NEW a \in Nat, Says(c.pending, T, a, c.sent),
           NEW cmd \in C!Commands, NEW U, Longer(T, c.sent, U, c.sent + 1), U[c.sent + 1] = cmd,
           NEW d, d = C!WithCommands(c, <<cmd>>)
    PROVE  SaysMore(d, c, U, a, c.sent + 1)
<1>1. PICK cmds \in Seq(C!Commands) : cmds = <<cmd>>
    <2>1. <<cmd>> \in Seq(C!Commands)
        OBVIOUS
    <2> QED
        BY <2>1
<1>2. Len(cmds) = 1 /\ cmds[1] = cmd
    BY <1>1
<1>3. PICK n \in Nat : n = c.sent + 1
    BY DEF Clients
<1>4. \A i \in 1..Len(cmds) : U[c.sent + i] = cmds[i]
    BY <1>2
<1> QED
    BY <1>1, <1>2, <1>3, <1>4, Speaks

\* A client says two commands more.
LEMMA SaysTwo ==
    ASSUME NEW c \in Clients, NEW T, NEW a \in Nat, Says(c.pending, T, a, c.sent),
           NEW x \in C!Commands, NEW y \in C!Commands,
           NEW U, Longer(T, c.sent, U, c.sent + 2), U[c.sent + 1] = x, U[c.sent + 2] = y,
           NEW d, d = C!WithCommands(c, <<x, y>>)
    PROVE  SaysMore(d, c, U, a, c.sent + 2)
<1>1. PICK cmds \in Seq(C!Commands) : cmds = <<x, y>>
    <2>1. <<x, y>> \in Seq(C!Commands)
        OBVIOUS
    <2> QED
        BY <2>1
<1>2. Len(cmds) = 2 /\ cmds[1] = x /\ cmds[2] = y
    BY <1>1
<1>3. PICK n \in Nat : n = c.sent + 2
    BY DEF Clients
<1>4. \A i \in 1..Len(cmds) : U[c.sent + i] = cmds[i]
    BY <1>2
<1> QED
    BY <1>1, <1>2, <1>3, <1>4, Speaks

\* What is acknowledged is no longer kept.
LEMMA Acknowledges ==
    ASSUME NEW c \in Clients, NEW T, NEW a \in Nat, Says(c.pending, T, a, c.sent),
           NEW m, m.ack \in Nat, a <= m.ack, m.ack <= c.sent, m.number \in Nat \X BOOLEAN,
           NEW d, d = C!Acknowledged(c, m)
    PROVE  /\ d \in Clients /\ d.sent = c.sent /\ Says(d.pending, T, m.ack, c.sent)
           /\ d.seen = m.number
           /\ d.id = c.id /\ d.map = c.map /\ d.phase = c.phase
           /\ d.hasFile = c.hasFile /\ d.block = c.block
<1>1. PICK s \in Nat, p \in Seq(C!Numbered), k \in Nat : s = c.sent /\ p = c.pending /\ k = m.ack
    BY DEF Clients
<1>2. PICK l \in Nat : l = Len(p) /\ l = s - a /\ a \in Nat /\ a <= s
    BY <1>1 DEF Says
<1>2a. a <= k /\ k <= s
    BY <1>1
<1>3. PICK i \in Nat : i = l - (s - k) /\ i = k - a
    <2>1. k - a \in Nat /\ k - a = l - (s - k)
        BY <1>2, <1>2a
    <2> QED
        BY <2>1
<1>4. PICK r : r = SubSeq(p, i + 1, l)
    OBVIOUS
<1>5. /\ r \in Seq(C!Numbered) /\ Len(r) = l - i
      /\ \A j \in 1..(l - i) : r[j] = p[i + j]
    <2>0. i <= l
        BY <1>2, <1>3, <1>2a
    <2>1. i <= Len(p) /\ r = SubSeq(p, i + 1, Len(p))
        BY <1>2, <1>4, <2>0
    <2>2. /\ r \in Seq(C!Numbered) /\ Len(r) = Len(p) - i
          /\ \A j \in 1..(Len(p) - i) : r[j] = p[i + j]
        BY <2>1, EndOf
    <2> QED
        BY <1>2, <2>2
<1>6. d = [c EXCEPT !.seen = m.number, !.pending = r]
    BY <1>1, <1>2, <1>3, <1>4 DEF C!Acknowledged
<1>7. /\ d \in Clients /\ d.sent = s /\ d.pending = r /\ d.seen = m.number
      /\ d.id = c.id /\ d.map = c.map /\ d.phase = c.phase
      /\ d.hasFile = c.hasFile /\ d.block = c.block
    BY <1>1, <1>5, <1>6 DEF Clients
<1>8. Says(r, T, k, s)
    <2>1. l - i = s - k /\ k <= s /\ a + i = k
        BY <1>2, <1>3, <1>2a
    <2>2. ASSUME NEW j \in 1..(s - k) PROVE r[j] = [n |-> k + j, cmd |-> T[k + j]]
        <3>1. j \in Nat /\ 1 <= j /\ j <= s - k
            BY <2>1
        <3>2. s - k = (s - a) - i /\ k = a + i /\ a \in Nat
            BY <1>2, <2>1
        <3>3. i + j \in 1..(s - a) /\ a + (i + j) = k + j
            BY <3>1, <3>2
        <3>4. p[i + j] = [n |-> a + (i + j), cmd |-> T[a + (i + j)]]
            BY <1>1, <3>3 DEF Says
        <3> QED
            BY <1>5, <2>1, <3>3, <3>4
    <2>3. r \in Seq(C!Numbered) /\ Len(r) = s - k /\ k <= s
        BY <1>2, <1>5, <2>1
    <2>4. \A j \in 1..(s - k) : r[j] = [n |-> k + j, cmd |-> T[k + j]]
        BY <2>2
    <2> QED
        BY <2>3, <2>4, Zenon DEF Says
<1> QED
    BY <1>1, <1>7, <1>8

\* The client speaks for itself: of its play, or to end a download.
LEMMA KnownSaid ==
    ASSUME NEW T, NEW a, NEW b, NEW e, Known(T, a, b, e),
           UNCHANGED <<sv, cl, up, down>>,
           NEW U, Longer(T, client.sent, U, client'.sent), Grammar(U, client'.sent),
           client' \in Clients, Says(client'.pending, U, a, client'.sent),
           client'.id = client.id, client'.map = client.map, client'.seen = client.seen,
           client.phase # "await", client'.phase # "download",
           client'.hasFile,
           client.phase = "load" => \E n \in (client.sent + 1)..client'.sent : U[n].do = "cp",
           \A n \in (client.sent + 1)..client'.sent :
               /\ U[n].do \notin {"download", "nextdl"}
               /\ U[n].do = "donedl" =>
                      n = client'.sent /\ client'.phase = "await" /\ ~client.hasFile,
           ClientGoesOn(U)'
    PROVE  Known(U, a, b, e)'
<1>1. /\ client.sent \in Nat /\ client'.sent \in Nat /\ client.sent <= client'.sent
      /\ \A k \in 1..client.sent : U[k] = T[k]
      /\ cl.lastCommand \in Nat /\ cl.lastCommand <= client.sent
      /\ IsText(U, client'.sent)
    BY PartTypes DEF Longer, IsText, Known, Follows
<1>2. /\ Coming' = Coming /\ Gamestate' = Gamestate /\ Snapshot' = Snapshot /\ Here' = Here
      /\ NoDownload' = NoDownload
    BY DEF Coming, Gamestate, Snapshot, Here, NoDownload
<1>3. Coming => e \in Nat /\ b \in Nat /\ e <= client.sent /\ cl.lastCommand <= e
    BY DEF Known, Counts, Says
<1>4. ~client.hasFile /\ Gamestate => NoDownload /\ ~Here
    BY DEF Known, Downloads
<1>5. ASSUME NEW k \in Nat \ {0}, k <= client'.sent
      PROVE  k \in (client.sent + 1)..client'.sent \/ (k \in 1..client.sent /\ U[k] = T[k])
    BY <1>1, <1>5
<1> QED
    <2>1. ProtocolTypes'
        BY DEF Known, ProtocolTypes
    <2>2. Counts(U, a, b, e)'
        <3>1. Counts(T, a, b, e)
            BY DEF Known
        <3>2. Coming => Says(up.commands, U, b, e)
            BY <1>3, <3>1, StaysSaid DEF Counts
        <3>3. Coming => e <= client'.sent
            BY <1>1, <1>3
        <3> QED
            BY <1>1, <1>2, <3>1, <3>2, <3>3 DEF Counts
    <2>3. Follows(U, client.sent, cl)'
        <3>1. \A k \in (client.sent + 1)..client'.sent : U[k].do # "nextdl"
            OBVIOUS
        <3>2. Follows(U, client'.sent, cl)
            BY <3>1, StillFollows DEF Known
        <3> QED
            BY <3>2
    <2>4. Maps'
        BY <1>2 DEF Known, Maps
    <2>5. Answers'
        BY <1>2 DEF Known, Answers
    <2>6. Downloads(U)'
        <3>1. Downloads(T)
            BY DEF Known
        <3>2. ASSUME NEW n \in (cl.lastCommand + 1)..client'.sent, U[n].do = "download"
              PROVE  NoDownload
            <4>1. n \in (cl.lastCommand + 1)..client.sent /\ T[n].do = "download"
                BY <1>1, <1>5, <3>2
            <4> QED
                BY <3>1, <4>1 DEF Downloads
        <3>3. ASSUME NEW n \in (cl.lastCommand + 1)..client'.sent, U[n].do = "donedl",
                     n < client'.sent \/ client'.phase # "await" \/ Gamestate
              PROVE  NoDownload
            <4>1. CASE n \in (client.sent + 1)..client'.sent
                BY <1>4, <3>3, <4>1
            <4>2. CASE n \in (cl.lastCommand + 1)..client.sent /\ T[n].do = "donedl"
                BY <3>1, <4>2 DEF Downloads
            <4> QED
                BY <1>1, <1>5, <3>3, <4>1, <4>2
        <3> QED
            BY <1>2, <3>1, <3>2, <3>3 DEF Downloads
    <2>7. SaidSince(U, e)'
        <3>1. SUFFICES ASSUME Coming,
                              NEW n \in (e + 1)..client'.sent
                       PROVE  /\ U[n].do = "download" => up.id < sv.map
                              /\ U[n].do = "donedl" /\ up.id >= sv.map =>
                                     n = client'.sent /\ client'.phase = "await" /\ ~Gamestate
            BY <1>2 DEF SaidSince
        <3>2. CASE n \in (client.sent + 1)..client'.sent
            BY <1>4, <3>1, <3>2 DEF Known, Maps
        <3>3. CASE n \in (e + 1)..client.sent /\ U[n] = T[n]
            BY <3>1, <3>3 DEF Known, SaidSince
        <3> QED
            BY <1>1, <1>3, <1>5, <3>1, <3>2, <3>3
    <2>8. Checksums(U)'
        <3>1. PureAt(U, cl.lastCommand) => PureAt(T, cl.lastCommand)
            BY <1>1, StaysSaid
        <3>2. \A n \in (cl.lastCommand + 1)..client.sent :
                  n \in (cl.lastCommand + 1)..client'.sent /\ U[n] = T[n]
            BY <1>1
        <3>3. \A n \in (client.sent + 1)..client'.sent : n \in (cl.lastCommand + 1)..client'.sent
            BY <1>1
        <3> QED
            BY <1>2, <3>1, <3>2, <3>3 DEF Known, Checksums
    <2>9. Moves(U, e)'
        <3>1. SUFFICES ASSUME Coming
                       PROVE  /\ PureAt(T, e) <=> PureAt(U, e)
                              /\ PureBetween(T, cl.lastCommand + 1, e)
                                     <=> PureBetween(U, cl.lastCommand + 1, e)
                              /\ Quiet(T, cl.lastCommand + 1, e) <=> Quiet(U, cl.lastCommand + 1, e)
            BY <1>2 DEF Known, Moves
        <3>2. cl.lastCommand + 1 \in Nat \ {0} /\ e \in Nat /\ e <= client.sent
            BY <1>1, <1>3, <3>1
        <3> QED
            BY <3>2, StaysSaid
    <2> QED
        BY <2>1, <2>2, <2>3, <2>4, <2>5, <2>6, <2>7, <2>8, <2>9 DEF Known

\* One command of the play.
LEMMA KnownPlays ==
    ASSUME NEW T, NEW a, NEW b, NEW e, Known(T, a, b, e),
           UNCHANGED <<sv, cl, up, down>>, client.phase \in {"load", "play"},
           NEW phase \in {"load", "play", "gone"},
           NEW cmd \in C!Commands, cmd.do \notin Early,
           client.phase = "load" => cmd.do = "cp",
           phase = "play" => cmd.do = "cp" \/ (client.phase = "play" /\ cmd.do \notin Impure),
           client' = C!WithCommands([client EXCEPT !.phase = phase], <<cmd>>)
    PROVE  Kept'
<1>1. PICK s \in Nat : s = client.sent
    BY PartTypes DEF Known
<1>2. PICK c : c = [client EXCEPT !.phase = phase]
    OBVIOUS
<1>3. /\ c \in Clients /\ c.sent = s /\ c.pending = client.pending /\ c.phase = phase
      /\ c.id = client.id /\ c.map = client.map /\ c.seen = client.seen
      /\ c.hasFile = client.hasFile /\ c.block = client.block
    <2>1. client \in Clients
        BY DEF Known, ProtocolTypes
    <2> QED
        BY <1>1, <1>2, <2>1 DEF Clients
<1>4. IsText(T, s) /\ Says(c.pending, T, a, s) /\ a \in Nat
    BY <1>1, <1>3 DEF Known, Counts, Says
<1>5. PICK U : Longer(T, s, U, s + 1) /\ U[s + 1] = cmd
    BY <1>4, OneLonger
<1>6. PICK d : d = client'
    OBVIOUS
<1>7. SaysMore(d, c, U, a, s + 1)
    BY <1>2, <1>3, <1>4, <1>5, <1>6, SaysOne
<1>8. /\ d \in Clients /\ d.sent = s + 1 /\ Says(d.pending, U, a, s + 1) /\ d.phase = phase
      /\ d.id = client.id /\ d.map = client.map /\ d.seen = client.seen
      /\ d.hasFile = client.hasFile
    BY <1>3, <1>7 DEF SaysMore, SameElse
<1>9. client.hasFile /\ (s > 0 => T[s].do \notin Early \ {"donedl"})
    BY <1>1 DEF Known, ClientGoesOn
<1>10. Grammar(U, s + 1)
    <2>1. MayFollow(T, s, cmd)
        BY <1>1, <1>9 DEF MayFollow, Early
    <2> QED
        BY <1>1, <1>5, <2>1, GrammarGrows DEF Known
<1>11. \A n \in (s + 1)..(s + 1) : n = s + 1
    BY <1>1
<1>12. phase = "play" => PureAt(U, s + 1)
    <2>1. SUFFICES ASSUME phase = "play" PROVE PureAt(U, s + 1)
        OBVIOUS
    <2>2. CASE cmd.do = "cp"
        <3>1. ~\E n \in ((s + 1) + 1)..(s + 1) : TRUE
            BY <1>1
        <3>2. s + 1 \in 1..(s + 1)
            BY <1>1
        <3> QED
            BY <1>5, <2>2, <3>1, <3>2 DEF PureAt, PureBetween, Quiet
    <2>3. CASE client.phase = "play" /\ cmd.do \notin Impure
        <3>1. PureAt(T, s)
            BY <1>1, <2>3 DEF Known, ClientGoesOn
        <3>2. PureAt(U, s)
            BY <1>1, <1>5, <3>1, StaysSaid
        <3>3. PICK m \in 1..s : U[m].do = "cp" /\ Quiet(U, m + 1, s)
            BY <3>2 DEF PureAt, PureBetween
        <3>4. m \in 1..(s + 1) /\ \A k \in (m + 1)..(s + 1) : k = s + 1 \/ k \in (m + 1)..s
            BY <1>1, <3>3
        <3> QED
            BY <1>5, <2>3, <3>3, <3>4 DEF PureAt, PureBetween, Quiet
    <2> QED
        BY <2>1, <2>2, <2>3
<1>13. ClientGoesOn(U)'
    <2>1. s + 1 > 0 /\ U[s + 1].do \notin Early
        BY <1>1, <1>5
    <2> QED
        BY <1>6, <1>8, <1>9, <1>12, <2>1 DEF ClientGoesOn
<1>14. Known(U, a, b, e)'
    <2>1. /\ client.phase # "await" /\ phase # "download"
          /\ client.phase = "load" => \E n \in (s + 1)..(s + 1) : U[n].do = "cp"
          /\ \A n \in (s + 1)..(s + 1) : U[n].do \notin Early
        BY <1>1, <1>5, <1>11
    <2>2. \A n \in (client.sent + 1)..client'.sent :
              /\ U[n].do \notin {"download", "nextdl"}
              /\ U[n].do = "donedl" =>
                     n = client'.sent /\ client'.phase = "await" /\ ~client.hasFile
        BY <1>1, <1>6, <1>8, <2>1 DEF Early
    <2> QED
        BY ZenonT(60), <1>1, <1>5, <1>6, <1>8, <1>9, <1>10, <1>13, <2>1, <2>2, KnownSaid
<1> QED
    BY <1>14 DEF Kept

\* The commands, one by one.
LEMMA PlainCommands ==
    /\ \A do \in {"download", "stopdl", "donedl", "cp", "vdr", "disconnect", "chat", "chat nextdl"} :
           [do |-> do] \in C!Commands
    /\ \A k \in 0..Blocks : [do |-> "nextdl", block |-> k] \in C!Commands
BY DEF C!Commands

\* The client has loaded the map and sends its checksums.
LEMMA KnownLoaded ==
    ASSUME NEW T, NEW a, NEW b, NEW e, Known(T, a, b, e), C!Loaded
    PROVE  Kept'
<1>1. PICK cmd \in C!Commands : cmd = [do |-> "cp"]
    BY PlainCommands
<1>2. cmd.do = "cp" /\ cmd.do \notin Early
    BY <1>1 DEF Early
<1>3. /\ client.phase = "load" /\ UNCHANGED <<sv, cl, up, down>>
      /\ client' = C!WithCommands([client EXCEPT !.phase = "play"], <<cmd>>)
    BY <1>1 DEF C!Loaded
<1> QED
    BY <1>2, <1>3, KnownPlays

\* Its player types a command: a chat, a disconnect, a change of files.
LEMMA KnownTyped ==
    ASSUME NEW T, NEW a, NEW b, NEW e, Known(T, a, b, e), C!Type
    PROVE  Kept'
<1>1. client.phase = "play" /\ UNCHANGED <<sv, cl, up, down>>
    BY DEF C!Type
<1>2. client = [client EXCEPT !.phase = "play"]
    BY <1>1 DEF Known, ProtocolTypes, Clients
<1>3. PICK cmd \in C!Commands, phase \in {"load", "play", "gone"} :
          /\ cmd.do \notin Early
          /\ phase = "play" => cmd.do \notin Impure
          /\ client' = C!WithCommands([client EXCEPT !.phase = phase], <<cmd>>)
    <2>1. CASE \E text \in Chats :
                   client' = C!WithCommands(client, <<[do |-> IF text = "nextdl" THEN "chat nextdl"
                                                                              ELSE "chat"]>>)
        <3>1. PICK do \in {"chat", "chat nextdl"} : client' = C!WithCommands(client, <<[do |-> do]>>)
            BY <2>1
        <3>2. PICK cmd \in C!Commands : cmd = [do |-> do]
            BY PlainCommands
        <3>3. cmd.do \notin Early \cup Impure
            BY <3>2 DEF Early, Impure
        <3> QED
            BY <1>2, <3>1, <3>2, <3>3
    <2>2. CASE client' = C!WithCommands([client EXCEPT !.phase = "load"], <<[do |-> "vdr"]>>)
        <3>1. PICK cmd \in C!Commands : cmd = [do |-> "vdr"]
            BY PlainCommands
        <3> QED
            BY <2>2, <3>1 DEF Early
    <2>3. CASE client' = C!WithCommands([client EXCEPT !.phase = "gone"], <<[do |-> "disconnect"]>>)
        <3>1. PICK cmd \in C!Commands : cmd = [do |-> "disconnect"]
            BY PlainCommands
        <3> QED
            BY <2>3, <3>1 DEF Early
    <2> QED
        BY <2>1, <2>2, <2>3 DEF C!Type
<1> QED
    BY <1>1, <1>3, KnownPlays

\* A client that downloads has only asked for blocks.
LEMMA OnlyBlocks ==
    ASSUME NEW T, NEW a, NEW b, NEW e, Known(T, a, b, e), client.phase = "download"
    PROVE  /\ client.sent > 0
           /\ \A n \in 1..client.sent : T[n].do = "download" \/ T[n].do = "nextdl"
           /\ \A n \in 1..client.sent : T[n].do \in Early \ {"donedl"}
           /\ client.block <= Blocks
           /\ \/ T[client.sent].do = "download" /\ client.block = 0
              \/ T[client.sent].do = "nextdl" /\ client.block = T[client.sent].block + 1
<1>1. ClientGoesOn(T)
    BY DEF Known
<1>2. ~client.hasFile /\ \A n \in 1..client.sent : T[n].do = "download" \/ T[n].do = "nextdl"
    BY <1>1 DEF ClientGoesOn
<1>3. \A n \in 1..client.sent : T[n].do \in Early \ {"donedl"}
    BY <1>2 DEF Early
<1>4. client.sent > 0 /\ client.block <= Blocks
    BY <1>1 DEF ClientGoesOn
<1>5. \/ T[client.sent].do = "download" /\ client.block = 0
      \/ T[client.sent].do = "nextdl" /\ client.block = T[client.sent].block + 1
    BY Zenon, <1>1 DEF ClientGoesOn
<1> QED
    BY Zenon, <1>2, <1>3, <1>4, <1>5

\* It gives up its download.
LEMMA KnownGivenUp ==
    ASSUME NEW T, NEW a, NEW b, NEW e, Known(T, a, b, e), C!GiveUpDownload
    PROVE  Kept'
<1>1. PICK s \in Nat : s = client.sent
    BY PartTypes DEF Known
<1>2. PICK c : c = [client EXCEPT !.phase = "await", !.hasFile = TRUE]
    OBVIOUS
<1>3. /\ c \in Clients /\ c.sent = s /\ c.pending = client.pending /\ c.phase = "await"
      /\ c.id = client.id /\ c.map = client.map /\ c.seen = client.seen
      /\ c.hasFile = TRUE /\ c.block = client.block
    <2>1. client \in Clients
        BY DEF Known, ProtocolTypes
    <2> QED
        BY <1>1, <1>2, <2>1 DEF Clients
<1>4. IsText(T, s) /\ Says(c.pending, T, a, s) /\ a \in Nat
    BY <1>1, <1>3 DEF Known, Counts, Says
<1>5. PICK x \in C!Commands, y \in C!Commands : x = [do |-> "stopdl"] /\ y = [do |-> "donedl"]
    BY PlainCommands
<1>6. x.do = "stopdl" /\ y.do = "donedl"
    BY <1>5
<1>7. client.phase = "download" /\ UNCHANGED <<sv, cl, up, down>>
      /\ client' = C!WithCommands(c, <<x, y>>)
    BY <1>2, <1>5 DEF C!GiveUpDownload
<1>8. /\ s > 0 /\ \A n \in 1..s : T[n].do \in Early \ {"donedl"}
      /\ ~client.hasFile
    BY <1>1, <1>7, OnlyBlocks DEF Known, ClientGoesOn
<1>9. PICK V : Longer(T, s, V, s + 1) /\ V[s + 1] = x
    BY <1>4, OneLonger
<1>10. Grammar(V, s + 1)
    <2>1. MayFollow(T, s, x)
        BY <1>6, <1>8 DEF MayFollow, Early
    <2> QED
        BY <1>1, <1>9, <2>1, GrammarGrows DEF Known
<1>11. PICK m \in Nat : m = s + 1
    BY <1>1
<1>12. IsText(V, m)
    BY <1>9, <1>11 DEF Longer
<1>13. PICK U : Longer(V, m, U, m + 1) /\ U[m + 1] = y
    BY <1>12, OneLonger
<1>14. Grammar(U, m + 1)
    <2>1. \A k \in 1..m : V[k].do \in Early \ {"donedl"}
        <3>1. \A k \in 1..m : k = s + 1 \/ (k \in 1..s /\ V[k] = T[k])
            BY <1>9, <1>11 DEF Longer
        <3> QED
            BY <1>6, <1>8, <1>9, <3>1 DEF Early
    <2>2. MayFollow(V, m, y)
        BY <1>6, <1>9, <1>11, <2>1 DEF MayFollow, Early
    <2> QED
        BY <1>10, <1>11, <1>13, <2>2, GrammarGrows
<1>15. Longer(T, s, U, s + 2) /\ U[s + 1] = x /\ U[s + 2] = y
    <2>1. m + 1 = s + 2 /\ s + 1 \in 1..m
        BY <1>11
    <2>2. Longer(T, s, U, m + 1)
        BY <1>9, <1>11, <1>13, LongerStill
    <2>3. U[s + 1] = V[s + 1]
        BY <1>13, <2>1 DEF Longer
    <2> QED
        BY <1>9, <1>13, <2>1, <2>2, <2>3
<1>16. PICK d : d = client'
    OBVIOUS
<1>17. SaysMore(d, c, U, a, s + 2)
    BY <1>3, <1>4, <1>7, <1>15, <1>16, SaysTwo
<1>18. /\ d \in Clients /\ d.sent = s + 2 /\ Says(d.pending, U, a, s + 2) /\ d.phase = "await"
       /\ d.id = client.id /\ d.map = client.map /\ d.seen = client.seen
       /\ d.hasFile = TRUE
    BY <1>3, <1>17 DEF SaysMore, SameElse
<1>19. \A n \in (s + 1)..(s + 2) : n = s + 1 \/ n = s + 2
    BY <1>1
<1>20. ClientGoesOn(U)'
    <2>1. s + 2 > 0 /\ U[s + 2].do = "donedl"
        BY <1>1, <1>6, <1>15
    <2> QED
        BY <1>16, <1>18, <2>1 DEF ClientGoesOn, Early
<1>21. Known(U, a, b, e)'
    <2>1. m + 1 = s + 2
        BY <1>11
    <2>2. \A n \in (client.sent + 1)..client'.sent :
              /\ U[n].do \notin {"download", "nextdl"}
              /\ U[n].do = "donedl" =>
                     n = client'.sent /\ client'.phase = "await" /\ ~client.hasFile
        BY <1>1, <1>6, <1>8, <1>15, <1>16, <1>18, <1>19
    <2>3. /\ client.phase # "await" /\ client'.phase # "download" /\ client.phase # "load"
          /\ client'.hasFile
        BY <1>7, <1>16, <1>18
    <2> QED
        BY <1>1, <1>7, <1>14, <1>15, <1>16, <1>18, <1>20, <2>1, <2>2, <2>3, KnownSaid
<1> QED
    BY <1>21 DEF Kept

\* The client hears the server: what it gets, and what it answers.
Hears(T, U, k) ==
    /\ Gamestate \/ Snapshot
    /\ k = down.ack
    /\ sv' = sv /\ cl' = cl /\ up' = up /\ down' = C!None
    /\ client' \in Clients /\ client'.seen = down.number
    /\ Says(client'.pending, U, k, client'.sent)
    /\ Longer(T, client.sent, U, client'.sent) /\ Grammar(U, client'.sent)
    /\ Follows(U, client'.sent, cl) /\ ClientGoesOn(U)'
    /\ Gamestate => /\ client'.id = down.id /\ client'.map = down.map
                    /\ client'.phase # "await"
    /\ Snapshot => /\ client'.map = client.map
                   /\ \/ client'.id = client.id
                      \/ client'.id = down.id /\ down.id > client.id /\ down.map = client.map
    /\ client.hasFile => /\ client'.sent = client.sent
                         /\ Gamestate => client'.phase = "load"
                         /\ Snapshot => client'.phase = client.phase
    /\ \A n \in (client.sent + 1)..client'.sent :
          /\ U[n].do = "download" => Gamestate
          /\ U[n].do = "donedl" => n = client'.sent /\ client'.phase = "await"

\* It hears a message of the server, and says what Hears allows.
LEMMA KnownHears ==
    ASSUME NEW T, NEW a, NEW b, NEW e, Known(T, a, b, e), NEW U, NEW k, Hears(T, U, k)
    PROVE  Known(U, k, b, e)'
<1>0. sv' = sv /\ cl' = cl /\ up' = up /\ down' = C!None /\ (Gamestate \/ Snapshot)
    BY DEF Hears
<1>11. /\ Gamestate => /\ client'.id = down.id /\ client'.map = down.map
                       /\ client'.phase # "await"
       /\ Snapshot => /\ client'.map = client.map
                      /\ \/ client'.id = client.id
                         \/ client'.id = down.id /\ down.id > client.id /\ down.map = client.map
       /\ client.hasFile => /\ client'.sent = client.sent
                            /\ Gamestate => client'.phase = "load"
                            /\ Snapshot => client'.phase = client.phase
    BY DEF Hears
<1>12. \A n \in (client.sent + 1)..client'.sent :
          /\ U[n].do = "download" => Gamestate
          /\ U[n].do = "donedl" => n = client'.sent /\ client'.phase = "await"
    BY DEF Hears
<1>13. /\ k = down.ack
       /\ Longer(T, client.sent, U, client'.sent) /\ client'.seen = down.number
       /\ Says(client'.pending, U, k, client'.sent)
    BY DEF Hears
<1>1. /\ client.sent \in Nat /\ client'.sent \in Nat /\ client.sent <= client'.sent
      /\ \A n \in 1..client.sent : U[n] = T[n]
      /\ cl.lastCommand \in Nat /\ cl.lastCommand <= client.sent
      /\ IsText(U, client'.sent)
    BY <1>13, PartTypes DEF Longer, IsText, Known, Follows
<1>2. /\ Coming' = Coming /\ ~Gamestate' /\ ~Snapshot' /\ NoDownload' = NoDownload
    BY <1>0 DEF Coming, Gamestate, Snapshot, NoDownload
<1>3. Coming => e \in Nat /\ b \in Nat /\ e <= client.sent /\ cl.lastCommand <= e
    BY DEF Known, Counts, Says
<1>4. ASSUME NEW n \in Nat \ {0}, n <= client'.sent
      PROVE  n \in (client.sent + 1)..client'.sent \/ (n \in 1..client.sent /\ U[n] = T[n])
    BY <1>1, <1>4
<1>5. /\ sv.id \in Nat /\ sv.map \in Nat /\ client.id \in Nat /\ client.map \in Nat
      /\ down.id \in Nat /\ down.map \in Nat
      /\ Coming => up.id \in Nat
    BY <1>0, PartTypes DEF Known
<1>6. ~client.hasFile => \A n \in 1..client.sent : T[n].do = "download" \/ T[n].do = "nextdl"
    BY DEF Known, ClientGoesOn
<1>7. Maps /\ (~client.hasFile /\ Gamestate => NoDownload /\ ~Here) /\ ~(Gamestate /\ Snapshot)
    BY PartTypes DEF Known, Downloads
<1>8. client.hasFile => ~\E n \in (client.sent + 1)..client'.sent : TRUE
    BY <1>1, <1>11
<1>9. Here => Here'
    BY <1>0, <1>5, <1>7, <1>11 DEF Maps, Here
<1>10. (Snapshot => (Here' <=> Here)) /\ (cl.state # "connected" /\ Gamestate => Here')
    BY <1>0, <1>7, <1>11 DEF Maps, Here
<1> QED
    <2>1. ProtocolTypes'
        BY DEF Known, ProtocolTypes, Hears
    <2>2. Counts(U, k, b, e)'
        <3>1. Counts(T, a, b, e)
            BY DEF Known
        <3>2. Coming => Says(up.commands, U, b, e)
            BY <1>3, <1>13, <3>1, StaysSaid DEF Counts
        <3>3. Coming => e <= client'.sent
            BY <1>1, <1>3
        <3>4. k <= cl.lastCommand
            BY <1>0, <1>13, <3>1 DEF Counts
        <3> QED
            BY <1>0, <1>1, <1>2, <1>13, <3>1, <3>2, <3>3, <3>4 DEF Counts
    <2>3. Follows(U, client.sent, cl)' /\ Grammar(U, client.sent)' /\ ClientGoesOn(U)'
        BY <1>0 DEF Hears
    <2>4. Maps'
        <3>1. /\ client'.map <= client'.id /\ client'.id <= sv.id /\ client'.map <= sv.map
              /\ client'.id >= sv.map => Here'
              /\ cl.state = "connected" => client'.map < sv.map
            <4>1. CASE Gamestate
                <5>1. /\ client'.id = down.id /\ client'.map = down.map
                      /\ down.id <= sv.id /\ down.map <= sv.map /\ down.map <= down.id
                      /\ down.map # sv.map => down.id < sv.map
                      /\ cl.state = "connected" => down.map < sv.map
                    BY <1>7, <1>11, <4>1 DEF Maps
                <5> QED
                    BY <1>0, <1>5, <5>1 DEF Here
            <4>2. CASE Snapshot
                <5>1. /\ client'.map = client.map
                      /\ \/ client'.id = client.id
                         \/ client'.id = down.id /\ down.id > client.id /\ down.map = client.map
                      /\ down.id <= sv.id /\ (down.map # sv.map => down.id < sv.map)
                    BY <1>7, <1>11, <4>2 DEF Maps
                <5> QED
                    BY <1>0, <1>5, <1>7, <5>1 DEF Maps, Here
            <4> QED
                BY <1>0, <4>1, <4>2
        <3>2. Coming => up.id <= sv.id /\ (up.id >= sv.map => Here')
            BY <1>7, <1>9 DEF Maps
        <3>3. cl.state = "active" => Here'
            BY <1>7, <1>9 DEF Maps
        <3>4. sv.map <= sv.id
            BY <1>7 DEF Maps
        <3> QED
            BY <1>0, <1>2, <3>1, <3>2, <3>3, <3>4 DEF Maps
    <2>5. Answers'
        <3>1. Answers
            BY DEF Known
        <3>2. client'.seen \in {<<cl.gamestates, FALSE>>, <<cl.gamestates, TRUE>>}
            BY <1>0, <1>13, <3>1 DEF Answers
        <3>3. client'.seen[1] = cl.gamestates
            <4>1. PICK g, m : g = cl.gamestates /\ m = client'.seen
                OBVIOUS
            <4>2. PICK latest : m = <<g, latest>>
                BY <3>2, <4>1
            <4>3. m[1] = g
                BY <4>2
            <4> QED
                BY <4>1, <4>3
        <3>4. client'.seen[1] <= cl.gamestates
            <4>1. cl.gamestates \in Nat
                BY PartTypes DEF Known
            <4> QED
                BY <1>0, <3>3, <4>1
        <3>5. Coming => up.ack[1] <= cl.gamestates
            BY <3>1 DEF Answers
        <3>6. Coming /\ up.ack = <<cl.gamestates, TRUE>> /\ Here' => up.id >= sv.map
            <4>1. CASE Gamestate
                BY <3>1, <4>1 DEF Answers
            <4>2. CASE Snapshot
                BY <1>10, <3>1, <4>2 DEF Answers
            <4> QED
                BY <1>0, <4>1, <4>2
        <3> QED
            BY <1>0, <1>2, <3>4, <3>5, <3>6 DEF Answers
    <2>6. Downloads(U)'
        <3>1. Downloads(T)
            BY DEF Known
        <3>2. ASSUME NEW n \in (cl.lastCommand + 1)..client'.sent, U[n].do = "download"
              PROVE  NoDownload
            <4>1. CASE n \in (client.sent + 1)..client'.sent
                BY <1>7, <1>8, <1>12, <3>2, <4>1
            <4>2. CASE n \in (cl.lastCommand + 1)..client.sent /\ T[n].do = "download"
                BY <3>1, <4>2 DEF Downloads
            <4> QED
                BY <1>1, <1>4, <3>2, <4>1, <4>2
        <3>3. ASSUME NEW n \in (cl.lastCommand + 1)..client'.sent, U[n].do = "donedl",
                     n < client'.sent \/ client'.phase # "await"
              PROVE  NoDownload
            <4>1. n \in (cl.lastCommand + 1)..client.sent /\ n \in 1..client.sent /\ T[n].do = "donedl"
                BY <1>1, <1>4, <1>12, <3>3
            <4>2. client.hasFile
                BY <1>6, <4>1
            <4> QED
                BY <1>0, <1>7, <1>11, <3>1, <3>3, <4>1, <4>2 DEF Downloads
        <3>4. (cl.state = "primed" /\ ~Here => NoDownload)'
            BY <1>0, <1>2, <1>10, <3>1 DEF Downloads
        <3> QED
            BY <1>0, <1>2, <3>2, <3>3, <3>4 DEF Downloads
    <2>7. SaidSince(U, e)'
        <3>1. SUFFICES ASSUME Coming,
                              NEW n \in (e + 1)..client'.sent
                       PROVE  /\ U[n].do = "download" => up.id < sv.map
                              /\ U[n].do = "donedl" /\ up.id >= sv.map =>
                                     n = client'.sent /\ client'.phase = "await"
            BY <1>0, <1>2 DEF SaidSince
        <3>2. CASE n \in (client.sent + 1)..client'.sent
            <4>1. U[n].do = "download" => ~Here
                BY <1>7, <1>8, <1>12, <3>2
            <4> QED
                BY <1>5, <1>7, <1>12, <3>1, <3>2, <4>1 DEF Maps
        <3>3. CASE n \in (e + 1)..client.sent /\ n \in 1..client.sent /\ U[n] = T[n]
            <4>1. U[n].do = "donedl" => client.hasFile
                BY <1>6, <3>3
            <4>2. /\ T[n].do = "download" => up.id < sv.map
                  /\ T[n].do = "donedl" /\ up.id >= sv.map =>
                         n = client.sent /\ client.phase = "await" /\ ~Gamestate
                BY <3>1, <3>3 DEF Known, SaidSince
            <4> QED
                BY <1>0, <1>11, <3>3, <4>1, <4>2
        <3> QED
            BY <1>1, <1>3, <1>4, <3>1, <3>2, <3>3
    <2>8. Checksums(U)'
        <3>1. SUFFICES ASSUME Pure, PureAt(T, cl.lastCommand)
                       PROVE  \/ cl.pure
                              \/ ~Here' /\ NoDownload
                              \/ client'.phase = "load"
                              \/ \E n \in (cl.lastCommand + 1)..client'.sent : U[n].do = "cp"
            BY <1>0, <1>1, <1>2, <1>13, StaysSaid DEF Checksums
        <3>2. client.hasFile
            <4>1. PICK m \in 1..cl.lastCommand : T[m].do = "cp"
                BY <3>1 DEF PureAt, PureBetween
            <4>2. m \in 1..client.sent
                BY <1>1, <4>1
            <4> QED
                BY <1>6, <4>1, <4>2
        <3>3. \A n \in (cl.lastCommand + 1)..client.sent :
                  n \in (cl.lastCommand + 1)..client'.sent /\ U[n] = T[n]
            BY <1>1
        <3>4. Checksums(T)
            BY DEF Known
        <3> QED
            BY <1>0, <1>10, <1>11, <3>1, <3>2, <3>3, <3>4 DEF Checksums
    <2>9. Moves(U, e)'
        <3>1. SUFFICES ASSUME Coming
                       PROVE  /\ PureAt(T, e) <=> PureAt(U, e)
                              /\ PureBetween(T, cl.lastCommand + 1, e)
                                     <=> PureBetween(U, cl.lastCommand + 1, e)
                              /\ Quiet(T, cl.lastCommand + 1, e) <=> Quiet(U, cl.lastCommand + 1, e)
            BY <1>0, <1>2 DEF Known, Moves
        <3>2. cl.lastCommand + 1 \in Nat \ {0} /\ e \in Nat /\ e <= client.sent
            BY <1>1, <1>3, <3>1
        <3> QED
            BY <1>13, <3>2, StaysSaid
    <2> QED
        BY <2>1, <2>2, <2>3, <2>4, <2>5, <2>6, <2>7, <2>8, <2>9 DEF Known

\* The client took the acknowledgement of a message, and not yet the message.
Heard(T, c, k) ==
    /\ Gamestate \/ Snapshot
    /\ sv' = sv /\ cl' = cl /\ up' = up /\ down' = C!None
    /\ k = down.ack /\ k \in Nat
    /\ c \in Clients /\ c.sent = client.sent /\ Says(c.pending, T, k, client.sent)
    /\ c.seen = down.number /\ c.id = client.id /\ c.map = client.map
    /\ c.phase = client.phase /\ c.hasFile = client.hasFile /\ c.block = client.block

\* A text that does not go on.
LEMMA SameText == ASSUME NEW T, NEW s, IsText(T, s) PROVE Longer(T, s, T, s)
BY DEF Longer, IsText

\* The gamestate comes to a client that has the map.
LEMMA HeardGamestate ==
    ASSUME NEW T, NEW a, NEW b, NEW e, Known(T, a, b, e), NEW c, NEW k, Heard(T, c, k),
           Gamestate, client.hasFile, client' = C!ParseGamestate(c, down)
    PROVE  Kept'
<1>1. PICK s \in Nat, i \in Nat, m \in Nat : s = client.sent /\ i = down.id /\ m = down.map
    BY PartTypes DEF Known
<1>2. c \in Clients /\ c.hasFile /\ c.sent = s /\ Says(c.pending, T, k, s) /\ c.seen = down.number
    BY <1>1 DEF Heard
<1>3. PICK d : d = client'
    OBVIOUS
<1>4. d = [c EXCEPT !.id = i, !.map = m, !.phase = "load"]
    BY <1>1, <1>2, <1>3 DEF C!ParseGamestate
<1>5. /\ d \in Clients /\ d.id = i /\ d.map = m /\ d.phase = "load" /\ d.sent = s
      /\ d.pending = c.pending /\ d.seen = c.seen /\ d.hasFile = c.hasFile
    BY <1>2, <1>4 DEF Clients
<1>6. ClientGoesOn(T)'
    <2>1. s > 0 => T[s].do \notin Early \ {"donedl"}
        BY <1>1 DEF Known, ClientGoesOn
    <2> QED
        BY <1>2, <1>3, <1>5, <2>1 DEF ClientGoesOn
<1>7. ~\E n \in (s + 1)..s : TRUE
    BY <1>1
<1>8. /\ Longer(T, s, T, s) /\ Grammar(T, s) /\ Follows(T, s, cl) /\ ~Snapshot
    BY <1>1, SameText, PartTypes DEF Known, Counts
<1>9. Hears(T, T, k)
    BY <1>1, <1>2, <1>3, <1>5, <1>6, <1>7, <1>8 DEF Hears, Heard
<1> QED
    BY <1>9, KnownHears DEF Kept

\* The gamestate comes to a client that misses the map, and downloads it.
LEMMA HeardToDownload ==
    ASSUME NEW T, NEW a, NEW b, NEW e, Known(T, a, b, e), NEW c, NEW k, Heard(T, c, k),
           Gamestate, ~client.hasFile, client' = C!ParseGamestate(c, down)
    PROVE  Kept'
<1>1. PICK s \in Nat, i \in Nat, m \in Nat : s = client.sent /\ i = down.id /\ m = down.map
    BY PartTypes DEF Known
<1>2. /\ c \in Clients /\ ~c.hasFile /\ c.sent = s /\ Says(c.pending, T, k, s)
      /\ c.seen = down.number /\ k \in Nat
    BY <1>1 DEF Heard
<1>3. PICK cmd \in C!Commands : cmd = [do |-> "download"]
    BY PlainCommands
<1>4. PICK x : x = [c EXCEPT !.id = i, !.map = m, !.phase = "download", !.block = 0]
    OBVIOUS
<1>5. /\ x \in Clients /\ x.id = i /\ x.map = m /\ x.phase = "download" /\ x.sent = s
      /\ x.pending = c.pending /\ x.seen = c.seen /\ x.hasFile = c.hasFile /\ x.block = 0
    BY <1>2, <1>4 DEF Clients
<1>6. PICK d : d = client'
    OBVIOUS
<1>7. d = C!WithCommands(x, <<cmd>>)
    BY <1>1, <1>2, <1>3, <1>4, <1>6 DEF C!ParseGamestate
<1>8. IsText(T, s) /\ Says(x.pending, T, k, s) /\ Grammar(T, s) /\ Follows(T, s, cl)
    BY <1>1, <1>2, <1>5 DEF Known, Counts
<1>9. PICK U : Longer(T, s, U, s + 1) /\ U[s + 1] = cmd
    BY <1>8, OneLonger
<1>10. SaysMore(d, x, U, k, s + 1)
    BY <1>2, <1>5, <1>7, <1>8, <1>9, SaysOne
<1>11. /\ d \in Clients /\ d.id = i /\ d.map = m /\ d.phase = "download" /\ d.sent = s + 1
       /\ Says(d.pending, U, k, s + 1) /\ d.seen = c.seen /\ ~d.hasFile /\ d.block = 0
    BY <1>2, <1>5, <1>10 DEF SaysMore, SameElse
<1>12. \A n \in 1..s : T[n].do = "download" \/ T[n].do = "nextdl"
    BY <1>1 DEF Known, ClientGoesOn
<1>13. Grammar(U, s + 1)
    <2>1. \A n \in 1..s : T[n].do \in Early \ {"donedl"}
        BY <1>12 DEF Early
    <2>2. MayFollow(T, s, cmd)
        BY <1>3, <2>1 DEF MayFollow, Early
    <2> QED
        BY <1>8, <1>9, <2>2, GrammarGrows
<1>14. \A n \in (s + 1)..(s + 1) : U[n].do = "download"
    BY <1>1, <1>3, <1>9
<1>15. Follows(U, s + 1, cl)
    <2>1. \A n \in (s + 1)..(s + 1) : U[n].do # "nextdl"
        BY <1>14
    <2> QED
        BY <1>8, <1>9, <2>1, StillFollows
<1>16. ClientGoesOn(U)'
    <2>1. \A n \in 1..(s + 1) : U[n].do = "download" \/ U[n].do = "nextdl"
        <3>1. \A n \in 1..(s + 1) : n \in (s + 1)..(s + 1) \/ (n \in 1..s /\ U[n] = T[n])
            BY <1>1, <1>9 DEF Longer
        <3> QED
            BY <1>12, <1>14, <3>1
    <2>2. s + 1 > 0 /\ 0 <= Blocks /\ s + 1 \in (s + 1)..(s + 1)
        BY <1>1, ProtocolLimits
    <2>3. U[s + 1].do = "download"
        BY <1>14, <2>2
    <2>4. /\ d.sent = s + 1 /\ ~d.hasFile /\ d.phase = "download" /\ d.block = 0
        BY <1>11
    <2> QED
        BY <1>6, <2>1, <2>2, <2>3, <2>4 DEF ClientGoesOn
<1>17. ~Snapshot
    BY PartTypes DEF Known
<1>18. Hears(T, U, k)
    <2>1. \A n \in (s + 1)..(s + 1) : /\ U[n].do = "download" => Gamestate
                                      /\ U[n].do = "donedl" => n = s + 1 /\ d.phase = "await"
        BY <1>14
    <2> QED
        BY <1>1, <1>2, <1>6, <1>9, <1>11, <1>13, <1>15, <1>16, <1>17, <2>1 DEF Hears, Heard
<1> QED
    BY <1>18, KnownHears DEF Kept

\* The client may have the new serverId of its map.
Renamed(x, c) ==
    /\ x \in Clients /\ x.map = c.map /\ x.seen = c.seen /\ x.phase = c.phase
    /\ x.hasFile = c.hasFile /\ x.block = c.block /\ x.sent = c.sent /\ x.pending = c.pending
    /\ x.id = c.id \/ (x.id = down.id /\ down.id > c.id /\ down.map = c.map)

\* A snapshot of a restarted map gives the client its new id.
LEMMA MayBeRenamed ==
    ASSUME NEW c \in Clients, NEW i \in Nat, i = down.id,
           NEW x, x = IF down.map = c.map /\ down.id > c.id THEN [c EXCEPT !.id = down.id] ELSE c
    PROVE  Renamed(x, c)
BY DEF Renamed, Clients

\* The block that the client waits for.
LEMMA NextBlock ==
    ASSUME NEW T, NEW a, NEW b, NEW e, Known(T, a, b, e), Snapshot,
           client.phase = "download", down.block = client.block
    PROVE  /\ client.block \in 0..Blocks
           /\ \A cmd : cmd.do = "nextdl" /\ cmd.block = client.block =>
                  MayFollow(T, client.sent, cmd)
           /\ client.block = 0 => cl.lastCommand = client.sent /\ cl.dl = "open"
<1>1. PICK s \in Nat, k \in Nat : s = client.sent /\ k = client.block
    BY PartTypes DEF Known
<1>2. /\ s > 0 /\ \A n \in 1..s : T[n].do \in Early \ {"donedl"}
      /\ k <= Blocks
      /\ \/ T[s].do = "download" /\ k = 0
         \/ T[s].do = "nextdl" /\ k = T[s].block + 1
    BY <1>1, OnlyBlocks
<1>3. T[s].do = "nextdl" => T[s].block \in Nat
    <2>1. T[s] \in C!Commands
        BY <1>1, <1>2 DEF Known, Counts, IsText
    <2>2. PICK cmd \in C!Commands : cmd = T[s]
        BY <2>1
    <2>3. cmd.do = "nextdl" => cmd.block \in 0..Blocks
        BY CommandsAre
    <2> QED
        BY <2>2, <2>3, ProtocolLimits
<1>4. ASSUME NEW cmd, cmd.do = "nextdl", cmd.block = k
      PROVE  MayFollow(T, s, cmd)
    <2>1. k = 0 => T[s].do = "download"
        BY <1>2, <1>3
    <2>2. k > 0 => T[s].do = "nextdl" /\ T[s].block = k - 1
        BY <1>1, <1>2, <1>3
    <2>3. cmd.do # "donedl" /\ cmd.do \in Early
        BY <1>4 DEF Early
    <2> QED
        BY <1>2, <1>4, <2>1, <2>2, <2>3 DEF MayFollow
<1>5. k = 0 => cl.lastCommand = s /\ cl.dl = "open"
    BY <1>1 DEF Known, Downloads
<1> QED
    BY <1>1, <1>2, <1>4, <1>5, ProtocolLimits

\* A snapshot comes, without a block that the client waits for.
LEMMA HeardSnapshot ==
    ASSUME NEW T, NEW a, NEW b, NEW e, Known(T, a, b, e), NEW c, NEW k, Heard(T, c, k), Snapshot,
           NEW x, Renamed(x, c), client' = x
    PROVE  Kept'
<1>1. PICK s \in Nat : s = client.sent
    BY PartTypes DEF Known
<1>2. /\ x \in Clients /\ x.map = client.map /\ x.seen = down.number /\ x.phase = client.phase
      /\ x.hasFile = client.hasFile /\ x.block = client.block /\ x.sent = s
      /\ Says(x.pending, T, k, s)
      /\ x.id = client.id \/ (x.id = down.id /\ down.id > client.id /\ down.map = client.map)
    BY <1>1 DEF Heard, Renamed
<1>3. ClientGoesOn(T)'
    <2>1. ClientGoesOn(T)
        BY DEF Known
    <2> QED
        BY <1>1, <1>2, <2>1 DEF ClientGoesOn
<1>4. ~\E n \in (s + 1)..s : TRUE
    BY <1>1
<1>5. Longer(T, s, T, s) /\ Grammar(T, s) /\ Follows(T, s, cl) /\ ~Gamestate
    BY <1>1, SameText, PartTypes DEF Known, Counts
<1>6. Hears(T, T, k)
    BY <1>1, <1>2, <1>3, <1>4, <1>5 DEF Hears, Heard
<1> QED
    BY <1>6, KnownHears DEF Kept

\* A block comes that is not the last: the client asks for the next.
LEMMA HeardBlock ==
    ASSUME NEW T, NEW a, NEW b, NEW e, Known(T, a, b, e), NEW c, NEW k, Heard(T, c, k), Snapshot,
           NEW x, Renamed(x, c),
           client.phase = "download", down.block = client.block, client.block < Blocks,
           NEW cmd \in C!Commands, cmd.do = "nextdl", cmd.block = client.block,
           client' = C!WithCommands([x EXCEPT !.block = client.block + 1], <<cmd>>)
    PROVE  Kept'
<1>1. PICK s \in Nat, j \in Nat : s = client.sent /\ j = client.block
    BY PartTypes DEF Known
<1>2. /\ x \in Clients /\ x.map = client.map /\ x.seen = down.number /\ x.phase = client.phase
      /\ x.hasFile = client.hasFile /\ x.block = client.block /\ x.sent = s
      /\ Says(x.pending, T, k, s) /\ k \in Nat
      /\ x.id = client.id \/ (x.id = down.id /\ down.id > client.id /\ down.map = client.map)
    BY <1>1 DEF Heard, Renamed
<1>3. PICK y : y = [x EXCEPT !.block = j + 1]
    OBVIOUS
<1>4. /\ y \in Clients /\ y.id = x.id /\ y.map = x.map /\ y.phase = x.phase /\ y.sent = s
      /\ y.pending = x.pending /\ y.seen = x.seen /\ y.hasFile = x.hasFile /\ y.block = j + 1
    BY SMTT(40), <1>1, <1>2, <1>3 DEF Clients
<1>5. PICK d : d = client'
    OBVIOUS
<1>6. d = C!WithCommands(y, <<cmd>>)
    BY <1>1, <1>3, <1>5
<1>7. IsText(T, s) /\ Says(y.pending, T, k, s) /\ Grammar(T, s) /\ Follows(T, s, cl)
    BY <1>1, <1>2, <1>4 DEF Known, Counts
<1>8. PICK U : Longer(T, s, U, s + 1) /\ U[s + 1] = cmd
    BY <1>7, OneLonger
<1>9. SaysMore(d, y, U, k, s + 1)
    BY <1>2, <1>4, <1>6, <1>7, <1>8, SaysOne
<1>10. /\ d \in Clients /\ d.id = x.id /\ d.map = client.map /\ d.phase = "download"
       /\ d.sent = s + 1 /\ Says(d.pending, U, k, s + 1) /\ d.seen = down.number
       /\ d.hasFile = client.hasFile /\ d.block = j + 1
    BY <1>2, <1>4, <1>9 DEF SaysMore, SameElse
<1>11. /\ MayFollow(T, s, cmd)
       /\ j = 0 => cl.lastCommand = s /\ cl.dl = "open"
    BY <1>1, NextBlock
<1>12. Grammar(U, s + 1)
    BY <1>7, <1>8, <1>11, GrammarGrows
<1>13. \A n \in (s + 1)..(s + 1) : n = s + 1
    BY <1>1
<1>14. Follows(U, s + 1, cl)
    <2>1. \A n \in (s + 1)..(s + 1) : U[n].do = "nextdl" /\ U[n].block = 0 =>
              n = cl.lastCommand + 1 /\ cl.dl = "open"
        BY <1>1, <1>8, <1>11, <1>13
    <2> QED
        BY <1>7, <1>8, <2>1, StillFollows
<1>15. ~client.hasFile /\ \A n \in 1..s : T[n].do = "download" \/ T[n].do = "nextdl"
    BY <1>1 DEF Known, ClientGoesOn
<1>16. ClientGoesOn(U)'
    <2>1. \A n \in 1..(s + 1) : U[n].do = "download" \/ U[n].do = "nextdl"
        <3>1. \A n \in 1..(s + 1) : n = s + 1 \/ (n \in 1..s /\ U[n] = T[n])
            BY <1>1, <1>8 DEF Longer
        <3> QED
            BY <1>8, <1>15, <3>1
    <2>2. s + 1 > 0 /\ j + 1 <= Blocks
        BY <1>1, ProtocolLimits
    <2>3. U[s + 1].do = "nextdl" /\ j + 1 = U[s + 1].block + 1
        BY <1>1, <1>8
    <2>4. /\ d.sent = s + 1 /\ ~d.hasFile /\ d.phase = "download" /\ d.block = j + 1
        BY <1>10, <1>15
    <2> QED
        BY <1>5, <2>1, <2>2, <2>3, <2>4 DEF ClientGoesOn
<1>17. ~Gamestate
    BY PartTypes DEF Known
<1>18. Hears(T, U, k)
    <2>1. \A n \in (s + 1)..(s + 1) : U[n].do = "nextdl"
        BY <1>8, <1>13
    <2> QED
        BY <1>1, <1>2, <1>5, <1>8, <1>10, <1>12, <1>14, <1>15, <1>16, <1>17, <2>1 DEF Hears, Heard
<1> QED
    BY <1>18, KnownHears DEF Kept

\* The last block comes: the client asks for the gamestate.
LEMMA HeardLastBlock ==
    ASSUME NEW T, NEW a, NEW b, NEW e, Known(T, a, b, e), NEW c, NEW k, Heard(T, c, k), Snapshot,
           NEW x, Renamed(x, c),
           client.phase = "download", down.block = client.block, ~(client.block < Blocks),
           NEW cmd \in C!Commands, cmd.do = "nextdl", cmd.block = client.block,
           NEW done \in C!Commands, done.do = "donedl",
           client' = C!WithCommands([x EXCEPT !.phase = "await", !.hasFile = TRUE], <<cmd, done>>)
    PROVE  Kept'
<1>1. PICK s \in Nat, j \in Nat : s = client.sent /\ j = client.block
    BY PartTypes DEF Known
<1>2. /\ x \in Clients /\ x.map = client.map /\ x.seen = down.number /\ x.phase = client.phase
      /\ x.hasFile = client.hasFile /\ x.block = client.block /\ x.sent = s
      /\ Says(x.pending, T, k, s) /\ k \in Nat
      /\ x.id = client.id \/ (x.id = down.id /\ down.id > client.id /\ down.map = client.map)
    BY <1>1 DEF Heard, Renamed
<1>3. PICK y : y = [x EXCEPT !.phase = "await", !.hasFile = TRUE]
    OBVIOUS
<1>4. /\ y \in Clients /\ y.id = x.id /\ y.map = x.map /\ y.phase = "await" /\ y.sent = s
      /\ y.pending = x.pending /\ y.seen = x.seen /\ y.hasFile = TRUE /\ y.block = x.block
    BY <1>2, <1>3 DEF Clients
<1>5. PICK d : d = client'
    OBVIOUS
<1>6. d = C!WithCommands(y, <<cmd, done>>)
    BY <1>3, <1>5
<1>7. IsText(T, s) /\ Says(y.pending, T, k, s) /\ Grammar(T, s) /\ Follows(T, s, cl)
    BY <1>1, <1>2, <1>4 DEF Known, Counts
<1>8. /\ j = Blocks /\ MayFollow(T, s, cmd)
      /\ j = 0 => cl.lastCommand = s /\ cl.dl = "open"
    <2>1. j \in 0..Blocks /\ ~(j < Blocks)
        BY <1>1, NextBlock
    <2>2. j = Blocks
        BY <2>1, ProtocolLimits
    <2> QED
        BY <1>1, <2>2, NextBlock
<1>9. PICK V : Longer(T, s, V, s + 1) /\ V[s + 1] = cmd
    BY <1>7, OneLonger
<1>10. Grammar(V, s + 1)
    BY <1>7, <1>8, <1>9, GrammarGrows
<1>11. PICK m \in Nat : m = s + 1
    BY <1>1
<1>12. IsText(V, m)
    BY <1>9, <1>11 DEF Longer
<1>13. PICK U : Longer(V, m, U, m + 1) /\ U[m + 1] = done
    BY <1>12, OneLonger
<1>14. ~client.hasFile /\ \A n \in 1..s : T[n].do \in Early \ {"donedl"}
    BY <1>1, OnlyBlocks DEF Known, ClientGoesOn
<1>15. Grammar(U, m + 1)
    <2>1. \A n \in 1..m : V[n].do \in Early \ {"donedl"}
        <3>1. \A n \in 1..m : n = s + 1 \/ (n \in 1..s /\ V[n] = T[n])
            BY <1>9, <1>11 DEF Longer
        <3> QED
            BY <1>9, <1>14, <3>1 DEF Early
    <2>2. MayFollow(V, m, done)
        BY <1>1, <1>8, <1>9, <1>11, <2>1 DEF MayFollow, Early
    <2> QED
        BY <1>10, <1>11, <1>13, <2>2, GrammarGrows
<1>16. Longer(T, s, U, s + 2) /\ U[s + 1] = cmd /\ U[s + 2] = done /\ Grammar(U, s + 2)
    <2>1. m + 1 = s + 2 /\ s + 1 \in 1..m
        BY <1>11
    <2>2. Longer(T, s, U, m + 1)
        BY <1>9, <1>11, <1>13, LongerStill
    <2>3. U[s + 1] = V[s + 1]
        BY <1>13, <2>1 DEF Longer
    <2> QED
        BY <1>9, <1>13, <1>15, <2>1, <2>2, <2>3
<1>17. SaysMore(d, y, U, k, s + 2)
    BY <1>2, <1>4, <1>6, <1>7, <1>16, SaysTwo
<1>18. /\ d \in Clients /\ d.id = x.id /\ d.map = client.map /\ d.phase = "await"
       /\ d.sent = s + 2 /\ Says(d.pending, U, k, s + 2) /\ d.seen = down.number
       /\ d.hasFile = TRUE
    BY <1>2, <1>4, <1>17 DEF SaysMore, SameElse
<1>19. \A n \in (s + 1)..(s + 2) : n = s + 1 \/ n = s + 2
    BY <1>1
<1>20. Follows(U, s + 2, cl)
    <2>1. \A n \in (s + 1)..(s + 2) : U[n].do = "nextdl" /\ U[n].block = 0 =>
              n = cl.lastCommand + 1 /\ cl.dl = "open"
        BY <1>1, <1>8, <1>16, <1>19
    <2> QED
        BY <1>7, <1>16, <2>1, StillFollows
<1>21. ClientGoesOn(U)'
    <2>1. s + 2 > 0 /\ U[s + 2].do = "donedl"
        BY <1>1, <1>16
    <2> QED
        BY <1>5, <1>18, <2>1 DEF ClientGoesOn, Early
<1>22. ~Gamestate
    BY PartTypes DEF Known
<1>23. Hears(T, U, k)
    <2>1. \A n \in (s + 1)..(s + 2) : /\ U[n].do # "download"
                                      /\ U[n].do = "donedl" => n = s + 2 /\ d.phase = "await"
        BY <1>16, <1>18, <1>19
    <2> QED
        BY <1>1, <1>2, <1>5, <1>14, <1>16, <1>18, <1>20, <1>21, <1>22, <2>1 DEF Hears, Heard
<1> QED
    BY <1>23, KnownHears DEF Kept

\* It receives a message of the server.
LEMMA KnownReceived ==
    ASSUME NEW T, NEW a, NEW b, NEW e, Known(T, a, b, e), C!ReceiveServerMessage
    PROVE  Kept'
<1>1. /\ sv' = sv /\ cl' = cl /\ up' = up /\ down' = C!None /\ (Gamestate \/ Snapshot)
    BY PartTypes DEF C!ReceiveServerMessage, Known
<1>2. PICK c : c = C!Acknowledged(client, down)
    OBVIOUS
<1>3. client' = IF client.phase = "gone" THEN client
                ELSE IF down.kind = "gamestate" THEN C!ParseGamestate(c, down)
                ELSE C!ParseSnapshot(c, down)
    BY <1>2 DEF C!ReceiveServerMessage
<1>4. CASE client.phase = "gone"
    <2>1. UNCHANGED <<sv, cl, client>> /\ up' = up
        BY <1>1, <1>3, <1>4
    <2> QED
        BY <1>1, <2>1, KnownLost DEF Kept
<1>5. CASE client.phase # "gone"
    <2>1. PICK k \in Nat, s \in Nat : k = down.ack /\ s = client.sent /\ a \in Nat /\ a <= k /\ k <= s
        <3>1. /\ down.ack \in Nat /\ client.sent \in Nat /\ cl.lastCommand \in Nat
              /\ cl.lastCommand <= client.sent /\ a \in Nat
              /\ a <= down.ack /\ down.ack <= cl.lastCommand
            BY <1>1, PartTypes DEF Known, Counts, Follows, Says
        <3> QED
            BY <3>1
    <2>2. Heard(T, c, k)
        <3>1. /\ client \in Clients /\ Says(client.pending, T, a, client.sent)
              /\ down.number \in Nat \X BOOLEAN
            BY <1>1, PartTypes DEF Known, Counts
        <3>2. /\ c \in Clients /\ c.sent = client.sent /\ Says(c.pending, T, down.ack, client.sent)
              /\ c.seen = down.number
              /\ c.id = client.id /\ c.map = client.map /\ c.phase = client.phase
              /\ c.hasFile = client.hasFile /\ c.block = client.block
            <4>1. down.ack \in Nat /\ a \in Nat /\ a <= down.ack /\ down.ack <= client.sent
                BY <2>1
            <4> QED
                BY SMTT(30), <1>2, <3>1, <4>1, Acknowledges
        <3> QED
            BY <1>1, <2>1, <3>2 DEF Heard
    <2>3. CASE Gamestate
        <3>1. client' = C!ParseGamestate(c, down)
            BY <1>3, <1>5, <2>3 DEF Gamestate
        <3> QED
            BY <2>2, <2>3, <3>1, HeardGamestate, HeardToDownload
    <2>4. CASE Snapshot
        <3>1. PICK x : x = IF down.map = c.map /\ down.id > c.id THEN [c EXCEPT !.id = down.id] ELSE c
            OBVIOUS
        <3>2. client' = C!ParseDownload(x, down)
            <4>1. client' = C!ParseSnapshot(c, down)
                BY <1>3, <1>5, <2>4 DEF Snapshot
            <4> QED
                BY Zenon, <3>1, <4>1 DEF C!ParseSnapshot
        <3>3. Renamed(x, c)
            <4>1. PICK i \in Nat : i = down.id
                BY <2>4, PartTypes DEF Known
            <4>2. c \in Clients
                BY <2>2 DEF Heard
            <4> QED
                BY <3>1, <4>1, <4>2, MayBeRenamed
        <3>4. x.phase = client.phase /\ x.block = client.block /\ x \in Clients
            BY <2>2, <3>3 DEF Heard, Renamed
        <3>5. CASE client.phase # "download" \/ down.block # client.block
            <4>1. client' = x
                BY <3>2, <3>4, <3>5 DEF C!ParseDownload
            <4> QED
                BY <2>2, <2>4, <3>3, <4>1, HeardSnapshot
        <3>6. CASE client.phase = "download" /\ down.block = client.block
            <4>1. PICK cmd \in C!Commands : /\ cmd = [do |-> "nextdl", block |-> down.block]
                                            /\ cmd.do = "nextdl" /\ cmd.block = client.block
                <5>1. client.block \in 0..Blocks
                    BY <2>4, <3>6, NextBlock
                <5> QED
                    BY <3>6, <5>1, PlainCommands
            <4>2. PICK done \in C!Commands : done = [do |-> "donedl"] /\ done.do = "donedl"
                BY PlainCommands
            <4>3. CASE client.block < Blocks
                <5>1. client' = C!WithCommands([x EXCEPT !.block = client.block + 1], <<cmd>>)
                    BY <3>2, <3>4, <3>6, <4>1, <4>3 DEF C!ParseDownload
                <5> QED
                    BY <2>2, <2>4, <3>3, <3>6, <4>1, <4>3, <5>1, HeardBlock
            <4>4. CASE ~(client.block < Blocks)
                <5>1. client' = C!WithCommands([x EXCEPT !.phase = "await", !.hasFile = TRUE],
                                               <<cmd, done>>)
                    BY <3>2, <3>4, <3>6, <4>1, <4>2, <4>4 DEF C!ParseDownload
                <5> QED
                    BY <2>2, <2>4, <3>3, <3>6, <4>1, <4>2, <4>4, <5>1, HeardLastBlock
            <4> QED
                BY <4>3, <4>4
        <3> QED
            BY <3>5, <3>6
    <2> QED
        BY <1>1, <2>3, <2>4
<1> QED
    BY <1>4, <1>5

\* The first of a pair.
LEMMA FirstOf == ASSUME NEW k, NEW l, NEW pair, pair = <<k, l>> PROVE pair[1] = k
OBVIOUS

\* A new gamestate is on its way.
LEMMA NewGamestate ==
    ASSUME NEW i \in Nat, NEW m \in Nat, NEW l \in Nat, NEW number \in Nat \X BOOLEAN,
           NEW g, g = [kind |-> "gamestate", id |-> i, map |-> m, number |-> number, ack |-> l]
    PROVE  /\ g \in Gamestates /\ g.id = i /\ g.map = m /\ g.ack = l /\ g.number = number
           /\ g # C!None /\ g.kind = "gamestate"
<1>1. /\ g \in Gamestates /\ g.id = i /\ g.map = m /\ g.ack = l /\ g.number = number
    BY DEF Gamestates
<1> QED
    BY <1>1, MessageKinds

\* What a packet that the server got leaves.
LEMMA ServerGot ==
    ASSUME ProtocolTypes, C!ReceiveClientMessage, cl.state # "zombie", cl' \in Server
    PROVE  /\ sv' = sv /\ client' = client /\ up' = C!None /\ Coming /\ ~Coming'
           /\ cl' = C!ExecuteClientMessage(cl, up)
           /\ cl'.gamestates > cl.gamestates =>
                  /\ down' \in Gamestates /\ down'.id = sv.id /\ down'.map = sv.map
                  /\ down'.number = <<cl'.gamestates, FALSE>> /\ down'.ack = cl'.lastCommand
                  /\ Gamestate' /\ ~Snapshot'
           /\ ~(cl'.gamestates > cl.gamestates) =>
                  down' = down /\ (Gamestate' <=> Gamestate) /\ (Snapshot' <=> Snapshot)
           /\ Here' <=> Here
<1>1. /\ sv' = sv /\ client' = client /\ up' = C!None /\ up # C!None
      /\ cl' = C!ExecuteClientMessage(cl, up)
    BY DEF C!ReceiveClientMessage
<1>2. PICK c \in Server : c = cl'
    OBVIOUS
<1>3. down' = IF c.gamestates > cl.gamestates
              THEN [kind |-> "gamestate", id |-> sv.id, map |-> sv.map,
                    number |-> <<c.gamestates, FALSE>>, ack |-> c.lastCommand]
              ELSE down
    BY <1>2 DEF C!ReceiveClientMessage, C!Reply
<1>4. ASSUME c.gamestates > cl.gamestates
      PROVE  /\ down' \in Gamestates /\ down'.id = sv.id /\ down'.map = sv.map
             /\ down'.number = <<c.gamestates, FALSE>> /\ down'.ack = c.lastCommand
             /\ Gamestate' /\ ~Snapshot'
    <2>1. PICK i \in Nat, m \in Nat, l \in Nat : i = sv.id /\ m = sv.map /\ l = c.lastCommand
        BY <1>2, PartTypes DEF Server
    <2>2. PICK number \in Nat \X BOOLEAN : number = <<c.gamestates, FALSE>>
        BY <1>2 DEF Server
    <2>3. PICK g : g = down'
        OBVIOUS
    <2>4. g = [kind |-> "gamestate", id |-> i, map |-> m, number |-> number, ack |-> l]
        BY Zenon, <1>3, <1>4, <2>1, <2>2, <2>3
    <2>6. number \in Nat \X BOOLEAN
        BY Zenon, <2>2
    <2>5. /\ g \in Gamestates /\ g.id = i /\ g.map = m /\ g.ack = l /\ g.number = number
          /\ g # C!None /\ g.kind = "gamestate"
        BY <2>1, <2>4, <2>6, NewGamestate
    <2> QED
        BY Zenon, <2>1, <2>2, <2>3, <2>5 DEF Gamestate, Snapshot
<1>5. ASSUME ~(c.gamestates > cl.gamestates)
      PROVE  down' = down /\ (Gamestate' <=> Gamestate) /\ (Snapshot' <=> Snapshot)
    <2>1. down' = down
        BY <1>3, <1>5
    <2> QED
        BY <2>1 DEF Gamestate, Snapshot
<1>6. (Here' <=> Here) /\ Coming /\ ~Coming'
    BY <1>1 DEF Here, Coming
<1> QED
    BY <1>1, <1>2, <1>4, <1>5, <1>6

\* The message is of another map, and not answered.
LEMMA KnownIgnored ==
    ASSUME NEW T, NEW a, NEW b, NEW e, Known(T, a, b, e), C!ReceiveClientMessage,
           C!ExecuteClientMessage(cl, up) = cl
    PROVE  Known(T, a, b, e)'
<1>1. cl \in Server /\ cl.state # "zombie" /\ ProtocolTypes /\ cl.gamestates \in Nat
    BY PartTypes DEF Known, Follows
<1>2. cl' = cl
    BY <1>1 DEF C!ReceiveClientMessage
<1>3. /\ UNCHANGED <<sv, cl, client>> /\ up' = C!None
      /\ ~(cl'.gamestates > cl.gamestates) => down' = down
    BY <1>1, <1>2, ServerGot
<1>4. down' = down
    BY <1>1, <1>2, <1>3
<1> QED
    BY <1>3, <1>4, KnownLost

\* The client lost its gamestate: it is sent again.
LEMMA KnownResent ==
    ASSUME NEW T, NEW a, NEW b, NEW e, Known(T, a, b, e), C!ReceiveClientMessage,
           ~C!OfThisMap(cl, up), ~C!BeforeRestart(up), C!Resend(cl, up)
    PROVE  Known(T, a, b, e)'
<1>1. /\ cl \in Server /\ cl.state \notin {"zombie", "active"} /\ ProtocolTypes
      /\ cl.gamestates \in Nat /\ cl.lastCommand \in Nat
      /\ up.ack = <<cl.gamestates, TRUE>>
    BY PartTypes DEF Known, Follows, C!Resend
<1>2. cl' = C!SendClientGameState(cl)
    BY <1>1 DEF C!ReceiveClientMessage, C!ExecuteClientMessage
<1>3. PICK g \in Nat : g = cl.gamestates + 1
    BY <1>1
<1>4. PICK c : c = cl'
    OBVIOUS
<1>5. /\ c \in Server /\ c.state = "primed" /\ c.gamestates = g /\ c.dl = cl.dl
      /\ c.block = cl.block /\ c.nextdl = cl.nextdl /\ c.lastCommand = cl.lastCommand
    <2>1. c = [cl EXCEPT !.state = "primed", !.pure = FALSE, !.gamestates = g]
        BY <1>1, <1>2, <1>3, <1>4 DEF C!SendClientGameState, Server
    <2> QED
        BY <1>1, <2>1 DEF Server
<1>6. c.gamestates > cl.gamestates
    BY <1>1, <1>3, <1>5
<1>7. /\ sv' = sv /\ client' = client /\ up' = C!None /\ Coming /\ ~Coming'
      /\ down' \in Gamestates /\ down'.id = sv.id /\ down'.map = sv.map
      /\ down'.number = <<g, FALSE>> /\ down'.ack = cl.lastCommand
      /\ Gamestate' /\ ~Snapshot' /\ (Here' <=> Here)
    BY <1>1, <1>4, <1>5, <1>6, ServerGot
<1>8. /\ sv.id \in Nat /\ sv.map \in Nat /\ up.id \in Nat /\ client.seen \in Nat \X BOOLEAN
    BY <1>1, <1>7, PartTypes
<1>9. NoDownload /\ ~Here
    <2>1. up.id # sv.id /\ NoDownload
        BY <1>1 DEF C!OfThisMap, NoDownload, Server
    <2>2. up.id <= sv.id /\ (Here => up.id >= sv.map)
        BY <1>1, <1>7 DEF Known, Maps, Answers
    <2> QED
        BY <1>8, <2>1, <2>2 DEF C!BeforeRestart
<1>10. NoDownload'
    BY <1>4, <1>5, <1>9 DEF NoDownload
<1> QED
    <2>1. ProtocolTypes'
        BY <1>1, <1>4, <1>5, <1>7 DEF ProtocolTypes
    <2>2. Counts(T, a, b, e)'
        <3>1. /\ IsText(T, client.sent) /\ Says(client.pending, T, a, client.sent)
              /\ a <= cl.lastCommand
            BY DEF Known, Counts
        <3> QED
            BY <1>1, <1>4, <1>5, <1>7, <3>1 DEF Counts
    <2>3. Grammar(T, client.sent)' /\ ClientGoesOn(T)'
        BY <1>7 DEF Known, ClientGoesOn
    <2>4. Follows(T, client.sent, cl)'
        <3>1. Follows(T, client.sent, cl)
            BY DEF Known
        <3>2. Follows(T, client.sent, c)
            BY <1>5, <3>1 DEF Follows, DownloadIs, FirstBlock
        <3> QED
            BY <1>4, <1>7, <3>2
    <2>5. Maps'
        <3>1. Maps
            BY DEF Known
        <3>2. /\ sv.id <= sv.id /\ sv.map <= sv.map
            BY <1>8
        <3> QED
            BY <1>4, <1>5, <1>7, <3>1, <3>2 DEF Maps
    <2>6. Answers'
        <3>1. client.seen[1] <= cl.gamestates
            BY DEF Known, Answers
        <3>2. client.seen[1] <= g
            BY <1>1, <1>3, <1>8, <3>1
        <3>3. client.seen # <<g, TRUE>>
            <4>1. client.seen[1] # g
                BY <1>1, <1>3, <1>8, <3>1
            <4> QED
                BY Zenon, <4>1, FirstOf
        <3> QED
            BY <1>4, <1>5, <1>7, <3>2, <3>3 DEF Answers
    <2>7. Downloads(T)'
        BY <1>7, <1>9, <1>10 DEF Downloads
    <2>8. SaidSince(T, e)' /\ Moves(T, e)'
        BY <1>7 DEF SaidSince, Moves
    <2>9. Checksums(T)'
        BY <1>7, <1>9, <1>10 DEF Checksums
    <2> QED
        BY <2>1, <2>2, <2>3, <2>4, <2>5, <2>6, <2>7, <2>8, <2>9 DEF Known

\* The first move after the commands.
LEMMA Moved ==
    ASSUME NEW q \in Server, q.state # "zombie", NEW moves \in BOOLEAN, moves /\ Pure => q.pure,
           NEW c, c = IF moves /\ q.state # "zombie" THEN C!UserMove(q) ELSE q
    PROVE  /\ c \in Server /\ c.gamestates = q.gamestates /\ c.lastCommand = q.lastCommand
           /\ c.nextdl = q.nextdl /\ c.dl = q.dl /\ c.block = q.block /\ c.pure = q.pure
           /\ c.state # "zombie"
           /\ \/ c.state = q.state /\ (moves => q.state # "primed")
              \/ c.state = "active" /\ q.state = "primed" /\ moves
<1>1. CASE moves /\ q.state = "primed"
    <2>1. c = [q EXCEPT !.state = "active"]
        BY <1>1 DEF C!UserMove
    <2> QED
        BY <1>1, <2>1 DEF Server
<1>2. CASE ~(moves /\ q.state = "primed")
    <2>1. c = q
        BY <1>2 DEF C!UserMove
    <2> QED
        BY <1>2, <2>1
<1> QED
    BY <1>1, <1>2

\* The message is of this map: its new commands were run, and its move.
RanAll(T, e, c) ==
    LET l == cl.lastCommand
    IN  /\ sv' = sv /\ client' = client /\ up' = C!None /\ Coming /\ ~Coming' /\ (Here' <=> Here)
        /\ c = cl' /\ c \in Server /\ c.lastCommand = e /\ Follows(T, client.sent, c)
        /\ l \in Nat /\ e \in Nat /\ client.sent \in Nat /\ l <= e /\ e <= client.sent
        /\ l = e => c.dl = cl.dl
        /\ \/ c.state = cl.state
           \/ cl.state = "connected" /\ c.state = "primed" /\ c.gamestates > cl.gamestates
           \/ /\ cl.state = "primed" \/ (cl.state = "connected" /\ c.gamestates > cl.gamestates)
              /\ c.state = "active" /\ PureAt(T, e)
        /\ \/ /\ c.gamestates = cl.gamestates
              /\ down' = down /\ (Gamestate' <=> Gamestate) /\ (Snapshot' <=> Snapshot)
           \/ /\ c.gamestates > cl.gamestates /\ cl.state # "active" /\ c.state # "connected"
              /\ \E n \in (l + 1)..e : T[n].do = "donedl"
              /\ down' \in Gamestates /\ down'.id = sv.id /\ down'.map = sv.map
              /\ down'.number = <<c.gamestates, FALSE>> /\ down'.ack = e
              /\ Gamestate' /\ ~Snapshot'
        /\ Pure /\ PureBetween(T, l + 1, e) => c.pure
        /\ cl.pure /\ Quiet(T, l + 1, e) => c.pure
        /\ up.id < sv.map \/ ~Here => up.id < sv.map /\ ~NoDownload

\* The message is of this map, and all its commands ran.
LEMMA AllRan ==
    ASSUME NEW T, NEW a, NEW b, NEW e, Known(T, a, b, e), C!ReceiveClientMessage,
           C!OfThisMap(cl, up), NEW q, q = C!RunCommands(cl, up.commands),
           Runs(T, client.sent, cl, q), q.lastCommand = e
    PROVE  RanAll(T, e, cl')
<1>1. /\ ProtocolTypes /\ Coming /\ cl \in Server /\ cl.state # "zombie" /\ up \in ToServer
      /\ cl.lastCommand \in Nat /\ cl.gamestates \in Nat /\ client.sent \in Nat
      /\ sv.id \in Nat /\ sv.map \in Nat /\ up.id \in Nat
    BY PartTypes DEF Known, Follows, C!ReceiveClientMessage, Coming
<1>2. b \in Nat /\ e \in Nat /\ b <= cl.lastCommand /\ cl.lastCommand <= e /\ e <= client.sent
    BY <1>1 DEF Known, Counts, Says
<1>3. up.id < sv.map \/ ~Here => up.id < sv.map /\ ~NoDownload
    <2>1. up.id = sv.id \/ ~NoDownload
        BY <1>1 DEF C!OfThisMap, NoDownload
    <2>2. (up.id >= sv.map => Here) /\ sv.map <= sv.id
        BY <1>1 DEF Known, Maps
    <2> QED
        BY <1>1, <2>1, <2>2
<1>4. /\ q \in Server /\ q.state # "zombie" /\ Follows(T, client.sent, q) /\ q.gamestates \in Nat
      /\ cl.lastCommand = q.lastCommand => q = cl
      /\ \/ q.state = cl.state
         \/ cl.state = "connected" /\ q.state = "primed" /\ q.gamestates # cl.gamestates
      /\ Answered(T, cl, q)
      /\ Pure /\ PureBetween(T, cl.lastCommand + 1, q.lastCommand) => q.pure
      /\ cl.pure /\ Quiet(T, cl.lastCommand + 1, q.lastCommand) => q.pure
    BY DEF Runs, Follows, Server
<1>5. up.move => PureAt(T, e) /\ (Pure => q.pure)
    BY <1>1, <1>3, <1>4 DEF Known, Moves
<1>6. PICK c : c = cl'
    OBVIOUS
<1>7. PICK moves \in BOOLEAN : moves = up.move
    BY <1>1 DEF ToServer
<1>8. c = IF moves /\ q.state # "zombie" THEN C!UserMove(q) ELSE q
    BY <1>1, <1>6, <1>7 DEF C!ReceiveClientMessage, C!ExecuteClientMessage
<1>9. /\ c \in Server /\ c.gamestates = q.gamestates /\ c.lastCommand = q.lastCommand
      /\ c.nextdl = q.nextdl /\ c.dl = q.dl /\ c.block = q.block /\ c.pure = q.pure
      /\ c.state # "zombie"
      /\ \/ c.state = q.state /\ (moves => q.state # "primed")
         \/ c.state = "active" /\ q.state = "primed" /\ moves
    BY <1>4, <1>5, <1>7, <1>8, Moved
<1>10. Follows(T, client.sent, c)
    <2>1. c.state = "active" => \E n \in 1..e : T[n].do = "cp"
        <3>1. CASE c.state = q.state
            BY <1>4, <3>1 DEF Follows
        <3>2. CASE moves
            BY <1>5, <1>7, <3>2 DEF PureAt, PureBetween
        <3> QED
            BY <1>9, <3>1, <3>2
    <2>2. DownloadIs(T, c) /\ FirstBlock(T, client.sent, c)
        BY ZenonT(60), <1>4, <1>9 DEF Follows, DownloadIs, FirstBlock
    <2> QED
        BY <1>2, <1>9, <2>1, <2>2 DEF Follows
<1>11. /\ sv' = sv /\ client' = client /\ up' = C!None /\ ~Coming' /\ (Here' <=> Here)
       /\ c.gamestates > cl.gamestates =>
              /\ down' \in Gamestates /\ down'.id = sv.id /\ down'.map = sv.map
              /\ down'.number = <<c.gamestates, FALSE>> /\ down'.ack = c.lastCommand
              /\ Gamestate' /\ ~Snapshot'
       /\ ~(c.gamestates > cl.gamestates) =>
              down' = down /\ (Gamestate' <=> Gamestate) /\ (Snapshot' <=> Snapshot)
    BY <1>1, <1>6, <1>9, ServerGot
<1>12. \/ c.gamestates = cl.gamestates /\ ~(c.gamestates > cl.gamestates)
       \/ /\ c.gamestates > cl.gamestates /\ cl.state # "active" /\ c.state # "connected"
          /\ \E n \in (cl.lastCommand + 1)..e : T[n].do = "donedl"
    BY <1>1, <1>4, <1>9 DEF Answered
<1>13. \/ c.state = cl.state
       \/ cl.state = "connected" /\ c.state = "primed" /\ c.gamestates > cl.gamestates
       \/ /\ cl.state = "primed" \/ (cl.state = "connected" /\ c.gamestates > cl.gamestates)
          /\ c.state = "active" /\ PureAt(T, e)
    <2>1. \/ q.state = cl.state
          \/ cl.state = "connected" /\ q.state = "primed" /\ c.gamestates > cl.gamestates
        BY <1>4, <1>9, <1>12
    <2> QED
        BY <1>5, <1>7, <1>9, <2>1
<1>14. /\ cl.lastCommand = e => c.dl = cl.dl
       /\ Pure /\ PureBetween(T, cl.lastCommand + 1, e) => c.pure
       /\ cl.pure /\ Quiet(T, cl.lastCommand + 1, e) => c.pure
    BY <1>4, <1>9
<1>15. \/ /\ c.gamestates = cl.gamestates
          /\ down' = down /\ (Gamestate' <=> Gamestate) /\ (Snapshot' <=> Snapshot)
       \/ /\ c.gamestates > cl.gamestates /\ cl.state # "active" /\ c.state # "connected"
          /\ \E n \in (cl.lastCommand + 1)..e : T[n].do = "donedl"
          /\ down' \in Gamestates /\ down'.id = sv.id /\ down'.map = sv.map
          /\ down'.number = <<c.gamestates, FALSE>> /\ down'.ack = e
          /\ Gamestate' /\ ~Snapshot'
    BY Zenon, <1>9, <1>11, <1>12
<1>16. c.lastCommand = e
    BY <1>9
<1> QED
    BY Zenon, <1>1, <1>2, <1>3, <1>6, <1>9, <1>10, <1>11, <1>13, <1>14, <1>15, <1>16 DEF RanAll

\* What was known of the state before a message ran is known after it.
LEMMA KnownRan ==
    ASSUME NEW T, NEW a, NEW b, NEW e, Known(T, a, b, e), NEW c, RanAll(T, e, c)
    PROVE  Known(T, a, b, e)'
<1>1. /\ sv' = sv /\ client' = client /\ up' = C!None /\ Coming /\ ~Coming' /\ (Here' <=> Here)
      /\ c = cl' /\ c \in Server /\ c.lastCommand = e /\ Follows(T, client.sent, c)
    BY DEF RanAll
<1>2. /\ cl.lastCommand \in Nat /\ e \in Nat /\ client.sent \in Nat
      /\ cl.lastCommand <= e /\ e <= client.sent
    BY DEF RanAll
<1>3. \/ c.state = cl.state
      \/ cl.state = "connected" /\ c.state = "primed" /\ c.gamestates > cl.gamestates
      \/ /\ cl.state = "primed" \/ (cl.state = "connected" /\ c.gamestates > cl.gamestates)
         /\ c.state = "active" /\ PureAt(T, e)
    BY Zenon DEF RanAll
<1>4. \/ /\ c.gamestates = cl.gamestates
         /\ down' = down /\ (Gamestate' <=> Gamestate) /\ (Snapshot' <=> Snapshot)
      \/ /\ c.gamestates > cl.gamestates /\ cl.state # "active" /\ c.state # "connected"
         /\ \E n \in (cl.lastCommand + 1)..e : T[n].do = "donedl"
         /\ down' \in Gamestates /\ down'.id = sv.id /\ down'.map = sv.map
         /\ down'.number = <<c.gamestates, FALSE>> /\ down'.ack = e
         /\ Gamestate' /\ ~Snapshot'
    BY Zenon DEF RanAll
<1>5. /\ Pure /\ PureBetween(T, cl.lastCommand + 1, e) => c.pure
      /\ cl.pure /\ Quiet(T, cl.lastCommand + 1, e) => c.pure
      /\ cl.lastCommand = e => c.dl = cl.dl
    BY DEF RanAll
<1>6. up.id < sv.map \/ ~Here => up.id < sv.map /\ ~NoDownload
    BY DEF RanAll
<1>7. /\ ProtocolTypes /\ cl.gamestates \in Nat /\ c.gamestates \in Nat
      /\ sv.id \in Nat /\ sv.map \in Nat /\ up.id \in Nat /\ client.seen \in Nat \X BOOLEAN
    BY <1>1, PartTypes DEF Known, Server
<1>8. Downloads(T) /\ Maps /\ Answers /\ IsText(T, client.sent)
    BY DEF Known, Counts
<1>9. c.gamestates > cl.gamestates => \E n \in (cl.lastCommand + 1)..e : T[n].do = "donedl"
    <2>1. c.gamestates = cl.gamestates => ~(c.gamestates > cl.gamestates)
        BY <1>7
    <2> QED
        BY Zenon, <1>4, <2>1
\* The gamestate that ends a download over a map change is the last thing asked for.
<1>10. ASSUME ~NoDownload, c.gamestates > cl.gamestates
       PROVE  e > 0 /\ T[e].do = "donedl" /\ NoDownload' /\ ~PureAt(T, e)
    <2>1. PICK n \in (cl.lastCommand + 1)..e : T[n].do = "donedl"
        BY <1>9, <1>10
    <2>2. n \in (cl.lastCommand + 1)..client.sent /\ (n < client.sent => NoDownload)
        BY <1>2, <1>8, <2>1 DEF Downloads
    <2>3. n = e /\ e > 0
        BY <1>2, <1>10, <2>1, <2>2
    <2>4. ~Downloading(T, e)
        BY <2>1, <2>3 DEF Downloading
    <2>5. c.dl = "none" /\ ~c.nextdl
        BY <1>1, <2>1, <2>3, <2>4 DEF Follows, DownloadIs
    <2>6. ~PureAt(T, e)
        <3>1. SUFFICES ASSUME NEW m \in 1..e, T[m].do = "cp", Quiet(T, m + 1, e) PROVE FALSE
            BY DEF PureAt, PureBetween
        <3>2. m # e
            BY <2>1, <2>3, <3>1
        <3>3. e \in (m + 1)..e
            BY <1>2, <3>1, <3>2
        <3> QED
            BY <2>1, <2>3, <3>1, <3>3 DEF Quiet, Impure
    <2> QED
        BY <1>1, <2>1, <2>3, <2>5, <2>6 DEF NoDownload
<1> QED
    <2>1. ProtocolTypes'
        <3>1. down' \in Gamestates \cup Snapshots \cup {C!None}
            BY <1>4, <1>7 DEF ProtocolTypes
        <3> QED
            BY <1>1, <1>7, <3>1 DEF ProtocolTypes
    <2>2. Counts(T, a, b, e)'
        <3>1. /\ IsText(T, client.sent) /\ Says(client.pending, T, a, client.sent)
              /\ a <= cl.lastCommand /\ a \in Nat
              /\ Gamestate \/ Snapshot => a <= down.ack /\ down.ack <= cl.lastCommand
            BY DEF Known, Counts, Says
        <3>2. a <= e /\ e <= e
            BY <1>2, <3>1
        <3>3. Gamestate' \/ Snapshot' => a <= down'.ack /\ down'.ack <= e
            <4>1. CASE down' = down /\ (Gamestate' <=> Gamestate) /\ (Snapshot' <=> Snapshot)
                <5>1. Gamestate \/ Snapshot => down.ack \in Nat
                    BY <1>7, PartTypes
                <5> QED
                    BY <1>2, <3>1, <4>1, <5>1
            <4>2. CASE down'.ack = e
                BY <3>2, <4>2
            <4> QED
                BY <1>4, <4>1, <4>2
        <3> QED
            BY <1>1, <3>1, <3>2, <3>3 DEF Counts
    <2>3. Grammar(T, client.sent)' /\ ClientGoesOn(T)' /\ Follows(T, client.sent, cl)'
        BY <1>1 DEF Known, ClientGoesOn
    <2>4. Maps'
        <3>1. c.state = "connected" => cl.state = "connected"
            BY <1>3
        <3>2. c.state = "active" => Here
            <4>1. SUFFICES ASSUME c.state = "active", ~Here PROVE FALSE
                OBVIOUS
            <4>2. cl.state # "active" /\ ~NoDownload
                BY <1>6, <1>8, <4>1 DEF Maps
            <4>3. cl.state # "primed"
                BY <1>8, <4>1, <4>2 DEF Downloads
            <4>4. c.gamestates > cl.gamestates /\ PureAt(T, e)
                BY <1>3, <4>1, <4>2, <4>3
            <4> QED
                BY <1>10, <4>2, <4>4
        <3>3. Gamestate' \/ Snapshot' =>
                  down'.id <= sv.id /\ down'.map <= sv.map /\ (down'.map # sv.map => down'.id < sv.map)
            <4>1. CASE down' = down /\ (Gamestate' <=> Gamestate) /\ (Snapshot' <=> Snapshot)
                BY <1>8, <4>1 DEF Maps
            <4>2. CASE down'.id = sv.id /\ down'.map = sv.map
                BY <1>7, <4>2
            <4> QED
                BY <1>4, <4>1, <4>2
        <3>4. Gamestate' => /\ down'.map <= down'.id
                            /\ c.state = "connected" => down'.map < sv.map
                            /\ c.state # "connected" => down'.map = sv.map
            <4>1. CASE c.gamestates = cl.gamestates /\ down' = down /\ (Gamestate' <=> Gamestate)
                <5>1. c.state = "connected" <=> cl.state = "connected"
                    BY <1>3, <1>7, <4>1
                <5> QED
                    BY <1>8, <4>1, <5>1 DEF Maps
            <4>2. CASE c.state # "connected" /\ down'.id = sv.id /\ down'.map = sv.map
                BY <1>8, <4>2 DEF Maps
            <4> QED
                BY <1>4, <4>1, <4>2
        <3>5. /\ client.map <= client.id /\ client.id <= sv.id /\ client.map <= sv.map
              /\ sv.map <= sv.id
              /\ client.id >= sv.map => Here
              /\ cl.state = "connected" => client.map < sv.map
            BY <1>8 DEF Maps
        <3> QED
            BY <1>1, <3>1, <3>2, <3>3, <3>4, <3>5 DEF Maps
    <2>5. Answers'
        <3>1. client.seen[1] <= cl.gamestates
            BY <1>8 DEF Answers
        <3>2. CASE /\ c.gamestates = cl.gamestates
                   /\ down' = down /\ (Gamestate' <=> Gamestate) /\ (Snapshot' <=> Snapshot)
            BY <1>1, <1>8, <3>2 DEF Answers
        <3>3. CASE /\ c.gamestates > cl.gamestates /\ down'.number = <<c.gamestates, FALSE>>
                   /\ Gamestate' /\ ~Snapshot'
            <4>1. client.seen[1] <= c.gamestates /\ client.seen[1] # c.gamestates
                BY <1>7, <3>1, <3>3
            <4>2. client.seen # <<c.gamestates, TRUE>>
                BY ZenonT(60), <4>1, FirstOf
            <4> QED
                BY <1>1, <3>3, <4>1, <4>2 DEF Answers
        <3> QED
            BY <1>4, <3>2, <3>3
    <2>6. Downloads(T)'
        <3>1. c.state = "primed" /\ ~Here => NoDownload'
            <4>1. SUFFICES ASSUME c.state = "primed", ~Here PROVE NoDownload'
                OBVIOUS
            <4>2. ~NoDownload
                BY <1>6, <4>1
            <4>3. cl.state # "primed"
                BY <1>8, <4>1, <4>2 DEF Downloads
            <4> QED
                BY <1>3, <1>10, <4>1, <4>2, <4>3
        <3>2. ~client.hasFile /\ Gamestate' => NoDownload' /\ ~Here
            <4>1. SUFFICES ASSUME ~client.hasFile, Gamestate' PROVE FALSE
                OBVIOUS
            <4>2. ~(c.gamestates > cl.gamestates)
                <5>1. \A n \in (cl.lastCommand + 1)..e : n \in 1..client.sent
                    BY <1>2
                <5>2. \A n \in 1..client.sent : T[n].do = "download" \/ T[n].do = "nextdl"
                    BY <4>1 DEF Known, ClientGoesOn
                <5> QED
                    BY <1>9, <5>1, <5>2
            <4>3. Gamestate
                BY <1>4, <4>1, <4>2
            <4> QED
                BY <1>6, <1>8, <4>1, <4>3 DEF Downloads
        <3>3. client.phase = "download" /\ client.block = 0 /\ Snapshot' =>
                  (down'.block = 0 => e = client.sent /\ c.dl = "open")
            <4>1. SUFFICES ASSUME client.phase = "download", client.block = 0, Snapshot',
                                  down'.block = 0
                           PROVE  e = client.sent /\ c.dl = "open"
                OBVIOUS
            <4>2. Snapshot /\ down.block = 0
                BY <1>4, <4>1
            <4>3. cl.lastCommand = client.sent /\ cl.dl = "open"
                BY <1>8, <4>1, <4>2 DEF Downloads
            <4> QED
                BY <1>2, <1>5, <4>3
        <3>4. ASSUME NEW n \in (e + 1)..client.sent, T[n].do = "download"
              PROVE  NoDownload'
            <4>1. up.id < sv.map
                BY <1>1, <3>4 DEF Known, SaidSince
            <4>2. n \in (cl.lastCommand + 1)..client.sent
                BY <1>2, <3>4
            <4> QED
                BY <1>6, <1>8, <3>4, <4>1, <4>2 DEF Downloads
        <3>5. ASSUME NEW n \in (e + 1)..client.sent, T[n].do = "donedl",
                     n < client.sent \/ client.phase # "await" \/ Gamestate'
              PROVE  NoDownload'
            <4>1. n \in (cl.lastCommand + 1)..client.sent /\ n \in 1..client.sent
                BY <1>2, <3>5
            <4>2. ~(c.gamestates > cl.gamestates)
                <5>1. SUFFICES ASSUME c.gamestates > cl.gamestates PROVE FALSE
                    OBVIOUS
                <5>2. PICK m \in (cl.lastCommand + 1)..e : T[m].do = "donedl"
                    BY <1>9, <5>1
                <5>3. m \in 1..client.sent /\ n \in (m + 1)..client.sent
                    BY <1>2, <3>5, <5>2
                <5> QED
                    BY <3>5, <5>2, <5>3 DEF Known, Grammar, NothingAfterDone, Early
            <4>3. n < client.sent \/ client.phase # "await" \/ Gamestate
                BY <1>4, <3>5, <4>2
            <4>4. up.id < sv.map
                <5>1. up.id >= sv.map => n = client.sent /\ client.phase = "await" /\ ~Gamestate
                    BY <1>1, <3>5 DEF Known, SaidSince
                <5> QED
                    BY <1>2, <1>7, <4>1, <4>3, <5>1
            <4> QED
                BY <1>6, <1>8, <3>5, <4>1, <4>3, <4>4 DEF Downloads
        <3> QED
            BY <1>1, <3>1, <3>2, <3>3, <3>4, <3>5 DEF Downloads
    <2>7. SaidSince(T, e)' /\ Moves(T, e)'
        BY <1>1 DEF SaidSince, Moves
    <2>8. Checksums(T)'
        <3>1. SUFFICES ASSUME Pure, PureAt(T, e)
                       PROVE  \/ c.pure
                              \/ client.phase = "load"
                              \/ \E n \in (e + 1)..client.sent : T[n].do = "cp"
            BY <1>1 DEF Checksums
        <3>2. CASE PureBetween(T, cl.lastCommand + 1, e)
            BY <1>5, <3>1, <3>2
        <3>3. CASE PureAt(T, cl.lastCommand) /\ Quiet(T, cl.lastCommand + 1, e)
            <4>1. \/ cl.pure
                  \/ ~Here /\ NoDownload
                  \/ client.phase = "load"
                  \/ \E n \in (cl.lastCommand + 1)..client.sent : T[n].do = "cp"
                BY <3>1, <3>3 DEF Known, Checksums
            <4>2. ASSUME NEW n \in (cl.lastCommand + 1)..client.sent, T[n].do = "cp"
                  PROVE  n \in (e + 1)..client.sent \/ c.pure
                <5>1. CASE n <= e
                    <6>1. /\ n \in (cl.lastCommand + 1)..e
                          /\ \A k \in (n + 1)..e : k \in (cl.lastCommand + 1)..e
                        BY <1>2, <4>2, <5>1
                    <6>2. PureBetween(T, cl.lastCommand + 1, e)
                        BY <3>3, <4>2, <6>1 DEF PureBetween, Quiet
                    <6> QED
                        BY <1>5, <3>1, <6>2
                <5> QED
                    BY <1>2, <4>2, <5>1
            <4> QED
                BY <1>5, <1>6, <3>3, <4>1, <4>2
        <3> QED
            BY <1>2, <3>1, <3>2, <3>3, ChecksumsAt
    <2> QED
        BY <2>1, <2>2, <2>3, <2>4, <2>5, <2>6, <2>7, <2>8 DEF Known

\* What the server may make of a message.
Executed(T, b, e) ==
    /\ cl' \in Server
    /\ cl'.gamestates # cl.gamestates =>
           /\ cl.state # "active"
           /\ ~Here \/ \E n \in (b + 1)..e : T[n].do = "donedl"

\* The server executes a message of the client.
LEMMA KnownExecuted ==
    ASSUME NEW T, NEW a, NEW b, NEW e, Known(T, a, b, e), C!ReceiveClientMessage
    PROVE  /\ Executed(T, b, e)
           /\ Known(T, a, b, e)' \/ (cl'.state = "zombie" /\ cl'.reason = "disconnected")
<1>1. /\ ProtocolTypes /\ Coming /\ cl \in Server /\ cl.state # "zombie"
      /\ Follows(T, client.sent, cl) /\ Grammar(T, client.sent) /\ IsText(T, client.sent)
      /\ cl.lastCommand \in Nat /\ client.sent \in Nat /\ cl.gamestates \in Nat
    BY PartTypes DEF Known, Follows, Counts, C!ReceiveClientMessage, Coming
<1>2. /\ Says(up.commands, T, b, e) /\ b \in Nat /\ e \in Nat
      /\ b <= cl.lastCommand /\ cl.lastCommand <= e /\ e <= client.sent
    BY <1>1 DEF Known, Counts, Says
<1>3. cl' = C!ExecuteClientMessage(cl, up)
    BY <1>1 DEF C!ReceiveClientMessage
<1>4. CASE C!OfThisMap(cl, up)
    <2>1. PICK q : q = C!RunCommands(cl, up.commands)
        OBVIOUS
    <2>2. (Runs(T, client.sent, cl, q) /\ q.lastCommand = e) \/ Left(T, e, cl, q)
        BY <1>1, <1>2, <2>1, AllSaid
    <2>3. \A n \in (cl.lastCommand + 1)..e : n \in (b + 1)..e
        BY <1>1, <1>2
    <2>4. CASE Runs(T, client.sent, cl, q) /\ q.lastCommand = e
        <3>1. RanAll(T, e, cl')
            BY <1>4, <2>1, <2>4, AllRan
        <3>2. Known(T, a, b, e)'
            BY <3>1, KnownRan
        <3>3. cl' \in Server
            BY <3>1 DEF RanAll
        <3>4. \/ cl'.gamestates = cl.gamestates
              \/ /\ cl.state # "active"
                 /\ \E n \in (cl.lastCommand + 1)..e : T[n].do = "donedl"
            BY Zenon, <3>1 DEF RanAll
        <3> QED
            BY <2>3, <3>2, <3>3, <3>4 DEF Executed
    <2>5. CASE Left(T, e, cl, q)
        <3>1. /\ q \in Server /\ q.state = "zombie" /\ q.reason = "disconnected"
              /\ q.lastCommand \in Nat /\ q.lastCommand <= e /\ Answered(T, cl, q)
            BY <2>5 DEF Left, Server
        <3>2. cl' = q
            BY <1>3, <1>4, <2>1, <3>1 DEF C!ExecuteClientMessage
        <3>3. \A n \in (cl.lastCommand + 1)..q.lastCommand : n \in (b + 1)..e
            BY <1>1, <1>2, <3>1
        <3> QED
            BY <3>1, <3>2, <3>3 DEF Executed, Answered
    <2> QED
        BY <2>2, <2>4, <2>5
<1>5. CASE ~C!OfThisMap(cl, up) /\ ~C!BeforeRestart(up) /\ C!Resend(cl, up)
    <2>1. Known(T, a, b, e)'
        BY <1>5, KnownResent
    <2>2. cl' \in Server
        BY <2>1, PartTypes DEF Known, ProtocolTypes
    <2>3. cl.state # "active" /\ up.ack = <<cl.gamestates, TRUE>>
        BY <1>5 DEF C!Resend
    <2>4. ~Here
        <3>1. Here => up.id >= sv.map
            BY <1>1, <2>3 DEF Known, Answers
        <3>2. up.id # sv.id /\ up.id <= sv.id /\ up.id \in Nat /\ sv.id \in Nat /\ sv.map \in Nat
            BY <1>1, <1>5, PartTypes DEF Known, Maps, C!OfThisMap
        <3> QED
            BY <1>5, <3>1, <3>2 DEF C!BeforeRestart
    <2> QED
        BY <2>1, <2>2, <2>3, <2>4 DEF Executed
<1>6. CASE ~C!OfThisMap(cl, up) /\ ~(~C!BeforeRestart(up) /\ C!Resend(cl, up))
    <2>1. C!ExecuteClientMessage(cl, up) = cl
        BY Zenon, <1>6 DEF C!ExecuteClientMessage
    <2> QED
        BY <1>1, <1>3, <2>1, KnownIgnored DEF Executed
<1> QED
    BY <1>4, <1>5, <1>6

-----------------------------------------------------------------------------
\* Every step of the protocol keeps what is known.
LEMMA ProtocolStep ==
    ASSUME ProtocolInv, [C!Next]_C!vars
    PROVE  ProtocolInv'
<1>1. CASE cl.state = "zombie" /\ cl.reason = "disconnected"
    <2>1. cl' = cl
        BY <1>1 DEF C!Next, C!ReceiveClientMessage, C!SendClientMessage, C!MapChange, C!MapRestart,
                    C!ReceiveServerMessage, C!Loaded, C!SendToServer, C!Type, C!GiveUpDownload,
                    C!Lose, C!vars
    <2> QED
        BY <1>1, <2>1 DEF ProtocolInv
<1>2. CASE Kept
    <2> USE DEF ProtocolInv
    <2>1. PICK T, a, b, e : Known(T, a, b, e)
        BY <1>2 DEF Kept
    <2>2. CASE C!ReceiveClientMessage
        BY <2>1, <2>2, KnownExecuted DEF Kept
    <2>3. CASE C!SendClientMessage
        BY <2>1, <2>3, KnownAnswered DEF Kept
    <2>4. CASE C!MapChange
        BY <2>1, <2>4, KnownMapChanged DEF Kept
    <2>5. CASE C!MapRestart
        BY <2>1, <2>5, KnownRestarted DEF Kept
    <2>6. CASE C!ReceiveServerMessage
        BY <2>1, <2>6, KnownReceived
    <2>7. CASE C!Loaded
        BY <2>1, <2>7, KnownLoaded
    <2>8. CASE C!SendToServer
        <3>1. PICK s : s = client.sent /\ client'.sent = s
            BY <2>8 DEF C!SendToServer
        <3>2. Known(T, a, a, s)'
            BY <2>1, <2>8, <3>1, KnownSent
        <3> QED
            BY <3>2 DEF Kept
    <2>9. CASE C!Type
        BY <2>1, <2>9, KnownTyped
    <2>10. CASE C!GiveUpDownload
        BY <2>1, <2>10, KnownGivenUp
    <2>11. CASE C!Lose
        <3>1. /\ UNCHANGED <<sv, cl, client>>
              /\ up' = up \/ up' = C!None
              /\ down' = down \/ down' = C!None
            BY <2>11 DEF C!Lose
        <3> QED
            BY <2>1, <3>1, KnownLost DEF Kept
    <2>12. CASE UNCHANGED C!vars
        <3>1. UNCHANGED <<sv, cl, client>> /\ up' = up /\ down' = down
            BY <2>12 DEF C!vars
        <3> QED
            BY <2>1, <3>1, KnownLost DEF Kept
    <2> QED
        BY <2>2, <2>3, <2>4, <2>5, <2>6, <2>7, <2>8, <2>9, <2>10, <2>11, <2>12 DEF C!Next
<1> QED
    BY <1>1, <1>2 DEF ProtocolInv

\* Nothing was said or sent.
LEMMA ProtocolStart ==
    ASSUME C!Init
    PROVE  Kept
<1>1. PICK T : T = [n \in 1..0 |-> [do |-> "cp"]]
    OBVIOUS
<1>2. /\ sv = [id |-> 1, map |-> 1] /\ up = C!None /\ down = C!None
      /\ cl = [state |-> "connected", gamestates |-> 0, lastCommand |-> 0,
               nextdl |-> FALSE, dl |-> "none", block |-> 0, pure |-> FALSE, reason |-> "none"]
    BY DEF C!Init
<1>3. PICK r \in Server : r = cl
    BY <1>2 DEF Server, Reasons
<1>3a. /\ r.state = "connected" /\ r.gamestates = 0 /\ r.lastCommand = 0
       /\ r.nextdl = FALSE /\ r.dl = "none" /\ r.pure = FALSE
    BY <1>2, <1>3
<1>4. PICK d : d = client
    OBVIOUS
<1>5. PICK p, q : p = <<>> /\ q = <<0, TRUE>>
    OBVIOUS
<1>6. PICK has \in BOOLEAN :
          d = [id |-> 0, map |-> 0, seen |-> q, phase |-> "idle",
               hasFile |-> has, block |-> 0, sent |-> 0, pending |-> p]
    BY <1>4, <1>5 DEF C!Init
<1>7. p \in Seq(C!Numbered)
    BY <1>5
<1>8. q \in Nat \X BOOLEAN
    BY <1>5
<1>9. /\ d \in Clients /\ d.id = 0 /\ d.map = 0 /\ d.seen = q
      /\ d.phase = "idle" /\ d.sent = 0 /\ d.pending = p
    BY <1>6, <1>7, <1>8 DEF Clients
<1>10. /\ cl \in Server /\ cl.state = "connected" /\ cl.gamestates = 0 /\ cl.lastCommand = 0
       /\ cl.nextdl = FALSE /\ cl.dl = "none" /\ cl.pure = FALSE
       /\ client \in Clients /\ client.id = 0 /\ client.map = 0 /\ client.seen = <<0, TRUE>>
       /\ client.phase = "idle" /\ client.sent = 0 /\ client.pending = <<>>
       /\ sv.map = 1 /\ sv.id = 1
    BY <1>2, <1>3, <1>4, <1>5, <1>9, <1>3a
<1>11. IsText(T, 0) /\ ~\E n \in 1..0 : TRUE
    BY <1>1 DEF IsText
<1>12. ~Coming /\ ~Gamestate /\ ~Snapshot
    BY <1>2 DEF Coming, Gamestate, Snapshot
<1>13. Known(T, 0, 0, 0)
    <2>1. ProtocolTypes
        BY <1>2, <1>10 DEF ProtocolTypes
    <2>2. Counts(T, 0, 0, 0)
        BY <1>10, <1>11, <1>12 DEF Counts, Says
    <2>3. Grammar(T, client.sent)
        BY <1>10, <1>11 DEF Grammar, BlocksInOrder, DoneAfterDownload, EarlyFirst, PlayAfterDone,
                            NothingAfterDone
    <2>4. Follows(T, client.sent, cl)
        BY <1>10, <1>11 DEF Follows, DownloadIs, FirstBlock, Downloading
    <2>5. ClientGoesOn(T)
        BY <1>10, <1>11 DEF ClientGoesOn
    <2>6. Maps
        BY <1>10, <1>12 DEF Maps
    <2>7. Answers
        <3>1. client.seen[1] <= cl.gamestates
            BY <1>10
        <3> QED
            BY <1>12, <3>1 DEF Answers
    <2>8. Downloads(T) /\ SaidSince(T, 0)
        BY <1>10, <1>11, <1>12 DEF Downloads, SaidSince, NoDownload
    <2>9. Checksums(T) /\ Moves(T, 0)
        BY <1>10, <1>11, <1>12 DEF Checksums, Moves, PureAt, PureBetween
    <2> QED
        BY <2>1, <2>2, <2>3, <2>4, <2>5, <2>6, <2>7, <2>8, <2>9 DEF Known
<1> QED
    BY <1>13 DEF Kept

\* What is known of the protocol, always.
LEMMA ProtocolAlways == ProtocolSpec => []ProtocolInv
<1>1. C!Init => ProtocolInv
    BY ProtocolStart DEF ProtocolInv
<1>2. ProtocolInv /\ [C!Next]_C!vars => ProtocolInv'
    BY ProtocolStep
<1> QED
    BY <1>1, <1>2, PTL DEF ProtocolSpec, C!Spec

\* A client is in the world of a map only when it has the gamestate of that map,
\* whatever is lost, and whatever it does when the map changes or restarts
\* (SV_UserMove, SV_MapRestart_f).
THEOREM OnlyWithItsMap == ProtocolSpec => []InTheWorldWithItsMap
<1>1. ProtocolInv => InTheWorldWithItsMap
    BY DEF ProtocolInv, Kept, Known, Maps, Here, InTheWorldWithItsMap, C!InTheWorldWithItsMap
<1> QED
    BY <1>1, ProtocolAlways, PTL

\* The protocol never drops a stock client (SV_ClientCommand, SV_NextDownload_f,
\* SV_UserMove).
THEOREM NeverDropped == ProtocolSpec => []OnlyLeavesByItself
<1>1. ProtocolInv => OnlyLeavesByItself
    BY DEF ProtocolInv, Kept, Known, Follows, OnlyLeavesByItself, C!OnlyLeavesByItself
<1> QED
    BY <1>1, ProtocolAlways, PTL

\* A gamestate is only sent to a client that is out of the world, and has not
\* the one of this map or asks for it (SV_ExecuteClientMessage, SV_DoneDownload_f).
THEOREM NoGamestateTwice == ProtocolSpec => C!GamestateNotRepeated
<1> DEFINE Asked == \E i \in DOMAIN up.commands : up.commands[i].cmd.do = "donedl"
<1>1. ASSUME ProtocolInv, [C!Next]_C!vars
      PROVE  cl'.gamestates # cl.gamestates =>
                 cl.state # "active" /\ (client.map # sv.map \/ Asked)
    <2>1. CASE C!ReceiveClientMessage /\ cl.state # "zombie"
        <3>1. PICK T, a, b, e : Known(T, a, b, e)
            BY <1>1, <2>1 DEF ProtocolInv, Kept
        <3>2. Executed(T, b, e)
            BY <2>1, <3>1, KnownExecuted
        <3>3. ASSUME NEW n \in (b + 1)..e, T[n].do = "donedl" PROVE Asked
            <4>1. Says(up.commands, T, b, e)
                BY <2>1, <3>1 DEF Known, Counts, Coming, C!ReceiveClientMessage
            <4>2. PICK i \in 1..(e - b) : n = b + i
                <5>1. b \in Nat /\ e \in Nat
                    BY <4>1 DEF Says
                <5>2. n - b \in 1..(e - b) /\ n = b + (n - b)
                    BY <3>3, <5>1
                <5> QED
                    BY <5>2
            <4>3. up.commands[i] = [n |-> b + i, cmd |-> T[b + i]] /\ i \in DOMAIN up.commands
                BY <4>1, <4>2 DEF Says
            <4>4. up.commands[i].cmd.do = "donedl"
                BY <3>3, <4>2, <4>3
            <4> QED
                BY <4>3, <4>4
        <3> HIDE DEF Asked
        <3> QED
            BY <3>2, <3>3 DEF Executed, Here
    <2>2. CASE ~C!ReceiveClientMessage \/ cl.state = "zombie"
        <3>1. cl'.gamestates = cl.gamestates
            <4>1. CASE cl.state = "zombie"
                BY <1>1, <4>1 DEF C!Next, C!ReceiveClientMessage, C!SendClientMessage, C!MapChange,
                                  C!MapRestart, C!ReceiveServerMessage, C!Loaded, C!SendToServer,
                                  C!Type, C!GiveUpDownload, C!Lose, C!vars
            <4>2. CASE ~C!ReceiveClientMessage /\ cl.state # "zombie"
                <5>1. cl \in Server
                    BY <1>1, <4>2 DEF ProtocolInv, Kept, Known, Follows
                <5>2. CASE C!SendClientMessage
                    BY <5>1, <5>2 DEF C!SendClientMessage, C!OpenDownload, Server
                <5>3. CASE C!MapChange
                    BY <4>2, <5>1, <5>3 DEF C!MapChange, Server
                <5>4. CASE ~C!SendClientMessage /\ ~C!MapChange
                    BY <1>1, <4>2, <5>4 DEF C!Next, C!MapRestart, C!ReceiveServerMessage, C!Loaded,
                                            C!SendToServer, C!Type, C!GiveUpDownload, C!Lose, C!vars
                <5> QED
                    BY <5>2, <5>3, <5>4
            <4> QED
                BY <2>2, <4>1, <4>2
        <3> QED
            BY <3>1
    <2> QED
        BY <2>1, <2>2
<1> HIDE DEF Asked
<1>2. ProtocolInv /\ [C!Next]_C!vars =>
          [cl'.gamestates # cl.gamestates =>
              cl.state # "active" /\ (client.map # sv.map \/ Asked)]_C!vars
    BY <1>1
<1> QED
    BY <1>2, ProtocolAlways, PTL DEF ProtocolSpec, C!Spec, C!GamestateNotRepeated, Asked

=============================================================================
