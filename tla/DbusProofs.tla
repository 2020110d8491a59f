----------------------------- MODULE DbusProofs -----------------------------
(***************************************************************************)
(* Proofs about Dbus for every set of names and messages, every size of    *)
(* the queue and every outcome of malloc.                                  *)
(***************************************************************************)
EXTENDS Dbus, FiniteSetTheorems, SequenceTheorems, TLAPS

Statuses == DOMAIN HandlerMap
Entry    == [name : Names, state : {0, 1}]

LEMMA HandledStatuses == Statuses = {"PLAYING", "PAUSED", "STOPPED"}
BY DEF Statuses, HandlerMap

(***************************************************************************)
(* First and last of a set of positions                                    *)
(***************************************************************************)

LEMMA LeastPosition ==
  ASSUME NEW S, S \subseteq Nat, S # {}
  PROVE  \E x \in S : \A y \in S : ~(y < x)
<1> DEFINE R == OpToRel(<, Nat)
<1>1. IsWellFoundedOn(R, Nat)
  BY NatLessThanWellFounded
<1>2. \A x, y \in Nat : y < x => <<y, x>> \in R
  BY DEF OpToRel
<1> HIDE DEF R
<1>3. \E x \in S : \A y \in S : ~(<<y, x>> \in R)
  BY <1>1, WFMin
<1>4. QED BY <1>2, <1>3

LEMMA LastPosition ==
  ASSUME NEW n \in Nat, NEW S, S \subseteq 1..n, S # {}
  PROVE  Max(S) \in S
<1> DEFINE T == {n - i : i \in S}
<1>1. T \subseteq Nat /\ T # {}
  <2>1. ASSUME NEW i \in S PROVE n - i \in Nat
    <3>1. i \in 1..n
      OBVIOUS
    <3>2. QED BY <3>1
  <2>2. QED BY <2>1
<1>2. PICK t \in T : \A u \in T : ~(u < t)
  BY <1>1, LeastPosition
<1>3. PICK x \in S : t = n - x
  OBVIOUS
<1>4. \A y \in S : x >= y
  <2> TAKE y \in S
  <2>1. n - y \in T /\ ~(n - y < n - x)
    BY <1>2, <1>3
  <2>2. x \in 1..n /\ y \in 1..n
    OBVIOUS
  <2>3. QED BY <2>1, <2>2
<1>5. \E z \in S : \A y \in S : z >= y
  BY <1>4
<1>6. QED BY <1>5, Zenon DEF Max

(***************************************************************************)
(* The message                                                             *)
(***************************************************************************)

\* However a message mixes properties: a handler runs only for a name, and then
\* the name's status is the one that is handled, or unclear; where no handler
\* runs the message asks for nothing.
LEMMA Parsed ==
  ASSUME NEW msg \in Messages, NEW before
  PROVE  LET p == ParseSignal(msg, Zero)
             m == Meaning(msg, before)
         IN  /\ p \in [name : Names \union {""}, status : Range(Upper) \union {""}]
             /\ p.name = msg.name
             /\ p.status \in Statuses => msg.name \in Names /\ m \in {"", p.status}
             /\ p.status \notin Statuses => m \in {"", before}
<1> DEFINE props  == msg.props
           S      == Strings(props)
           P      == {i \in DOMAIN props : props[i].key = "PlaybackStatus"}
           p      == ParseSignal(msg, Zero)
           m      == Meaning(msg, before)
<1>1. PICK n \in Nat : DOMAIN props = 1..n
  <2>1. props \in Seq([key : STRING, value : STRING])
    BY DbusAssumption
  <2>2. QED BY <2>1, LenProperties, Zenon
<1>2. S \subseteq 1..n /\ P \subseteq S
  BY <1>1, DbusAssumption DEF Strings
<1>3. \A i \in S : /\ props[i].value \in DOMAIN Upper
                   /\ i \in P <=> Upper[props[i].value] \in Statuses
  BY DbusAssumption DEF Strings, Statuses
<1>4. /\ msg.name \in Names \union {""}
      /\ msg.name = "" => S = {}
  <2>1. msg.name \in Names \/ (msg.name = "" /\ props = <<>>)
    BY DbusAssumption
  <2>2. msg.name = "" => props = <<>>
    BY <2>1, DbusAssumption
  <2>3. props = <<>> => S = {}
    <3>1. DOMAIN <<>> = {}
      OBVIOUS
    <3>2. QED BY <3>1, Zenon DEF Strings
  <2>4. QED BY <2>1, <2>2, <2>3
<1>5. /\ p.name = msg.name
      /\ p.status = IF S = {} THEN "" ELSE Upper[props[Max(S)].value]
      /\ p = [name |-> p.name, status |-> p.status]
  BY DEF ParseSignal, Zero
<1>6. m = CASE P = {} -> before
            [] P # {} /\ Max(P) = Max(S) -> Upper[props[Max(P)].value]
            [] OTHER -> ""
  BY DEF Meaning
<1>7. "" \notin Statuses
  BY HandledStatuses
<1>8. \A v \in DOMAIN Upper : Upper[v] \in Range(Upper)
  BY DEF Range
<1> HIDE DEF S, P, p, m, props
<1>9. S # {} => Max(S) \in S
  BY <1>2, LastPosition
<1>10. P # {} => Max(P) \in P
  <2>1. P \subseteq 1..n
    BY <1>2
  <2>2. QED BY <2>1, LastPosition
<1>11. p.status \in Range(Upper) \union {""}
  BY <1>3, <1>5, <1>8, <1>9
<1>12. p.status \in Statuses => Max(S) \in P /\ S # {}
  BY <1>3, <1>5, <1>7, <1>9
<1>13. S # {} /\ Max(S) \in P => p.status \in Statuses
  BY <1>3, <1>5, <1>9
<1>14. CASE P = {}
  <2>1. m = before /\ p.status \notin Statuses
    BY <1>6, <1>12, <1>14
  <2>2. QED BY <1>4, <1>5, <1>11, <2>1 DEF p, m
<1>15. CASE P # {} /\ Max(P) = Max(S)
  <2>1. m = p.status /\ p.status \in Statuses /\ S # {}
    BY <1>2, <1>5, <1>6, <1>10, <1>13, <1>15
  <2>2. QED BY <1>4, <1>5, <1>11, <2>1 DEF p, m
<1>16. CASE P # {} /\ Max(P) # Max(S)
  <2>1. m = "" /\ S # {}
    BY <1>2, <1>6, <1>16
  <2>2. QED BY <1>4, <1>5, <1>11, <2>1 DEF p, m
<1>17. QED BY <1>14, <1>15, <1>16

(***************************************************************************)
(* The list of players                                                     *)
(***************************************************************************)

Unique(list) ==
  \A i, j \in 1..Len(list) : list[i].name = list[j].name => i = j
Listed(name, list) == \E i \in 1..Len(list) : list[i].name = name
Plays(name, list) ==
  \E i \in 1..Len(list) : list[i] = [name |-> name, state |-> 1]

LEMMA Positions ==
  ASSUME NEW list \in Seq(Entry)
  PROVE  /\ Len(list) \in Nat /\ DOMAIN list = 1..Len(list)
         /\ \A i \in 1..Len(list) : list[i] \in Entry
<1>1. Len(list) \in Nat /\ DOMAIN list = 1..Len(list)
  BY LenProperties, Zenon
<1>2. QED BY <1>1, ElementOfSeq, Zenon

\* LIST_FOREACH finds an entry of a name that is on the list.
LEMMA FirstIsListed ==
  ASSUME NEW list \in Seq(Entry), NEW name, Listed(name, list)
  PROVE  First(name, list) \in 1..Len(list) /\ list[First(name, list)].name = name
<1> DEFINE At == {i \in DOMAIN list : list[i].name = name}
<1>1. Len(list) \in Nat /\ DOMAIN list = 1..Len(list)
  BY Positions
<1>2. At \subseteq Nat /\ At # {}
  BY <1>1 DEF Listed
<1>3. PICK x \in At : \A y \in At : ~(y < x)
  BY <1>2, LeastPosition
<1>4. \A j \in 1..(x - 1) : list[j].name # name
  <2> TAKE j \in 1..(x - 1)
  <2>1. x \in 1..Len(list)
    BY <1>1
  <2>2. j \in 1..Len(list) /\ j < x
    BY <1>1, <2>1
  <2>3. QED BY <1>1, <1>3, <2>2
<1>5. \E i \in DOMAIN list :
        list[i].name = name /\ \A j \in 1..(i - 1) : list[j].name # name
  BY <1>3, <1>4
<1>6. First(name, list) \in DOMAIN list /\ list[First(name, list)].name = name
  BY <1>5, Zenon DEF First
<1>7. QED BY <1>1, <1>6

\* find_player leaves the name on the list, once, and changes nobody's state.
LEMMA Found ==
  ASSUME players \in Seq(Entry), Unique(players), NEW name \in Names
  PROVE  LET list == FindPlayer(name)
         IN  /\ list \in Seq(Entry) /\ Unique(list) /\ Listed(name, list)
             /\ \A n : Plays(n, list) <=> Plays(n, players)
<1>1. DOMAIN players = 1..Len(players)
  BY Positions
<1>2. CASE Known(name)
  BY <1>1, <1>2 DEF FindPlayer, Known, Listed
<1>3. CASE ~Known(name)
  <2> DEFINE new   == [name |-> name, state |-> 0]
             list  == <<new>> \o players
             n     == Len(players)
  <2>1. new \in Entry /\ <<new>> \in Seq(Entry) /\ Len(<<new>>) = 1 /\ <<new>>[1] = new
    BY DEF Entry
  <2>2. n \in Nat /\ \A i \in 1..n : players[i] \in Entry
    BY Positions
  <2>3. /\ list \in Seq(Entry) /\ Len(list) = 1 + n
        /\ \A i \in 1..(1 + n) : list[i] = IF i <= 1 THEN <<new>>[i] ELSE players[i - 1]
    BY <2>1, ConcatProperties
  <2>4. FindPlayer(name) = list /\ \A i \in 1..n : players[i].name # name
    BY <1>1, <1>3 DEF FindPlayer, Known
  <2>5. new.name = name /\ new.state = 0
    OBVIOUS
  <2>6. \A i, j \in 1..n : players[i].name = players[j].name => i = j
    BY DEF Unique
  <2> HIDE DEF new, list, n
  <2>7. list[1] = new /\ 1 \in 1..(1 + n)
    BY <2>1, <2>2, <2>3
  <2>8. \A i \in 1..(1 + n) : i # 1 => i - 1 \in 1..n /\ list[i] = players[i - 1]
    BY <2>2, <2>3
  <2>9. \A i \in 1..n : i + 1 \in 1..(1 + n) /\ list[i + 1] = players[i]
    BY <2>2, <2>3
  <2>10. ASSUME NEW i \in 1..(1 + n), NEW j \in 1..(1 + n), list[i].name = list[j].name
         PROVE  i = j
    <3>1. CASE i = 1 \/ j = 1
      BY <2>4, <2>5, <2>7, <2>8, <2>10, <3>1
    <3>2. CASE i # 1 /\ j # 1
      <4>1. i - 1 = j - 1
        BY <2>6, <2>8, <2>10, <3>2
      <4>2. QED BY <4>1
    <3>3. QED BY <3>1, <3>2
  <2>11. ASSUME NEW m PROVE Plays(m, list) <=> Plays(m, players)
    <3>1. ASSUME NEW i \in 1..(1 + n), list[i] = [name |-> m, state |-> 1]
          PROVE  \E j \in 1..n : players[j] = [name |-> m, state |-> 1]
      <4>1. i # 1
        BY <2>5, <2>7, <3>1
      <4>2. QED BY <2>8, <3>1, <4>1
    <3>2. ASSUME NEW i \in 1..n, players[i] = [name |-> m, state |-> 1]
          PROVE  \E j \in 1..(1 + n) : list[j] = [name |-> m, state |-> 1]
      BY <2>9, <3>2
    <3>3. QED BY <2>3, <3>1, <3>2 DEF Plays, n
  <2>12. Unique(list) /\ Listed(name, list)
    BY <2>3, <2>5, <2>7, <2>10 DEF Unique, Listed
  <2>13. QED BY <2>3, <2>4, <2>11, <2>12
<1>4. QED BY <1>2, <1>3

\* signal_start: player->state = 1
LEMMA Started ==
  ASSUME NEW list \in Seq(Entry), Unique(list), NEW name, Listed(name, list)
  PROVE  LET new == WithState(name, list, 1)
         IN  /\ new \in Seq(Entry) /\ Unique(new)
             /\ \A n : Plays(n, new) <=> Plays(n, list) \/ n = name
<1> DEFINE k   == First(name, list)
           e   == [list[k] EXCEPT !.state = 1]
           new == WithState(name, list, 1)
           len == Len(list)
<1>1. k \in 1..len /\ list[k].name = name
  BY FirstIsListed
<1>2. \A i \in 1..len : list[i] \in Entry
  BY Positions
<1>3. e \in Entry /\ e = [name |-> name, state |-> 1]
  BY <1>1, <1>2 DEF Entry
<1>4. new = [list EXCEPT ![k] = e]
  BY DEF WithState
<1>5. /\ new \in Seq(Entry) /\ Len(new) = len
      /\ \A j \in 1..len : new[j] = IF j = k THEN e ELSE list[j]
  BY <1>1, <1>3, <1>4, ExceptSeq
<1>6. \A i, j \in 1..len : list[i].name = list[j].name => i = j
  BY DEF Unique
<1> HIDE DEF k, e, new, len
<1>7. \A j \in 1..len : new[j].name = list[j].name
  BY <1>1, <1>3, <1>5
<1>8. \A i, j \in 1..len : new[i].name = new[j].name => i = j
  BY <1>6, <1>7
<1>9. ASSUME NEW n
      PROVE  (\E i \in 1..len : new[i] = [name |-> n, state |-> 1])
               <=> (\E i \in 1..len : list[i] = [name |-> n, state |-> 1]) \/ n = name
  <2>1. ASSUME NEW i \in 1..len, new[i] = [name |-> n, state |-> 1]
        PROVE  list[i] = [name |-> n, state |-> 1] \/ n = name
    BY <1>3, <1>5, <2>1
  <2>2. ASSUME NEW i \in 1..len, list[i] = [name |-> n, state |-> 1], n # name
        PROVE  new[i] = [name |-> n, state |-> 1]
    BY <1>1, <1>5, <2>2
  <2>3. new[k] = [name |-> name, state |-> 1]
    BY <1>1, <1>3, <1>5
  <2>4. QED BY <1>1, <2>1, <2>2, <2>3
<1>10. QED BY <1>5, <1>8, <1>9 DEF Unique, Plays, new, len

\* One entry leaves the list, the others close up.
LEMMA TakenOut ==
  ASSUME NEW S, NEW list \in Seq(S), NEW k \in 1..Len(list)
  PROVE  LET rest == RemoveAt(list, k)
         IN  /\ rest \in Seq(S) /\ Len(rest) = Len(list) - 1
             /\ \A i \in 1..(Len(list) - 1) :
                  rest[i] = IF i < k THEN list[i] ELSE list[i + 1]
<1> DEFINE n == Len(list)
           a == SubSeq(list, 1, k - 1)
           b == SubSeq(list, k + 1, n)
<1>1. n \in Nat /\ \A i \in 1..n : list[i] \in S
  BY LenProperties, ElementOfSeq, Zenon
<1>2. k \in 1..n
  OBVIOUS
<1> HIDE DEF n
<1>3. k \in Int /\ k - 1 \in Int /\ k + 1 \in Int /\ n \in Int
  BY <1>1, <1>2
<1>4. (\A i \in 1..(k - 1) : list[i] \in S) /\ \A i \in (k + 1)..n : list[i] \in S
  BY <1>1, <1>2
<1>5. /\ a \in Seq(S) /\ Len(a) = IF 1 <= k - 1 THEN (k - 1) - 1 + 1 ELSE 0
      /\ \A i \in 1..((k - 1) - 1 + 1) : a[i] = list[1 + i - 1]
  BY <1>3, <1>4, SubSeqProperties
<1>6. /\ b \in Seq(S) /\ Len(b) = IF k + 1 <= n THEN n - (k + 1) + 1 ELSE 0
      /\ \A i \in 1..(n - (k + 1) + 1) : b[i] = list[k + 1 + i - 1]
  BY <1>3, <1>4, SubSeqProperties
<1>7. /\ a \o b \in Seq(S) /\ Len(a \o b) = Len(a) + Len(b)
      /\ \A i \in 1..(Len(a) + Len(b)) :
           (a \o b)[i] = IF i <= Len(a) THEN a[i] ELSE b[i - Len(a)]
  BY <1>5, <1>6, ConcatProperties
<1> DEFINE rest == a \o b
           la == Len(a)
           lb == Len(b)
           lr == Len(rest)
<1>8. la = k - 1 /\ lb = n - k
  BY <1>1, <1>2, <1>5, <1>6
<1>9. \A i \in 1..(k - 1) : a[i] = list[i]
  BY <1>2, <1>5
<1>10. \A i \in 1..(n - k) : b[i] = list[k + i]
  BY <1>1, <1>2, <1>6
<1>11. lr = la + lb /\ \A i \in 1..(la + lb) : rest[i] = IF i <= la THEN a[i] ELSE b[i - la]
  BY <1>7
<1> HIDE DEF a, b, rest, la, lb, lr
<1>12. lr = n - 1
  BY <1>1, <1>2, <1>8, <1>11
<1>13. ASSUME NEW i \in 1..(n - 1)
       PROVE  rest[i] = IF i < k THEN list[i] ELSE list[i + 1]
  <2>1. i \in 1..(la + lb)
    BY <1>1, <1>2, <1>8
  <2>2. CASE i < k
    <3>1. i <= la /\ i \in 1..(k - 1)
      BY <1>1, <1>2, <1>8, <2>2
    <3>2. QED BY <1>9, <1>11, <2>1, <2>2, <3>1
  <2>3. CASE ~(i < k)
    <3>1. ~(i <= la) /\ i - la \in 1..(n - k) /\ k + (i - la) = i + 1
      BY <1>1, <1>2, <1>8, <2>3
    <3>2. rest[i] = b[i - la] /\ b[i - la] = list[k + (i - la)]
      BY <1>10, <1>11, <2>1, <3>1
    <3>3. QED BY <2>3, <3>1, <3>2
  <2>4. QED BY <2>2, <2>3
<1>14. RemoveAt(list, k) = rest
  BY DEF RemoveAt, rest, a, b, n
<1>15. QED BY <1>7, <1>12, <1>13, <1>14, Zenon DEF n, lr, rest

\* signal_stop: rm_player
LEMMA Removed ==
  ASSUME NEW list \in Seq(Entry), Unique(list), NEW name, Listed(name, list)
  PROVE  LET new == RmPlayer(name, list)
         IN  /\ new \in Seq(Entry) /\ Unique(new)
             /\ \A n : Plays(n, new) <=> Plays(n, list) /\ n # name
<1> DEFINE k   == First(name, list)
           new == RmPlayer(name, list)
           len == Len(list)
<1>1. k \in 1..len /\ list[k].name = name
  BY FirstIsListed
<1>2. /\ new \in Seq(Entry) /\ Len(new) = len - 1
      /\ \A i \in 1..(len - 1) : new[i] = IF i < k THEN list[i] ELSE list[i + 1]
  BY <1>1, TakenOut DEF RmPlayer
<1>3. len \in Nat
  BY Positions
<1>4. \A i, j \in 1..len : list[i].name = list[j].name => i = j
  BY DEF Unique
<1> HIDE DEF k, new, len
<1> DEFINE from(i) == IF i < k THEN i ELSE i + 1
<1>5. /\ \A i \in 1..(len - 1) : /\ from(i) \in 1..len /\ from(i) # k
                                 /\ new[i] = list[from(i)]
      /\ \A i, j \in 1..(len - 1) : from(i) = from(j) => i = j
      /\ \A i \in 1..len : i # k => \E j \in 1..(len - 1) : from(j) = i
  <2>1. \A i \in 1..(len - 1) : from(i) \in 1..len /\ from(i) # k
    BY <1>1, <1>3
  <2>2. \A i \in 1..(len - 1) : new[i] = list[from(i)]
    BY <1>2
  <2>3. \A i, j \in 1..(len - 1) : from(i) = from(j) => i = j
    BY <1>1, <1>3
  <2>4. ASSUME NEW i \in 1..len, i # k PROVE \E j \in 1..(len - 1) : from(j) = i
    <3>1. CASE i < k
      <4>1. i \in 1..(len - 1) /\ from(i) = i
        BY <1>1, <1>3, <3>1
      <4>2. QED BY <4>1
    <3>2. CASE ~(i < k)
      <4>1. i - 1 \in 1..(len - 1) /\ from(i - 1) = i
        BY <1>1, <1>3, <2>4, <3>2
      <4>2. QED BY <4>1
    <3>3. QED BY <3>1, <3>2
  <2>5. QED BY <2>1, <2>2, <2>3, <2>4
<1> HIDE DEF from
<1>6. \A i, j \in 1..(len - 1) : new[i].name = new[j].name => i = j
  BY <1>4, <1>5
<1>7. ASSUME NEW n
      PROVE  (\E i \in 1..(len - 1) : new[i] = [name |-> n, state |-> 1])
               <=> (\E i \in 1..len : list[i] = [name |-> n, state |-> 1]) /\ n # name
  <2>1. ASSUME NEW i \in 1..(len - 1), new[i] = [name |-> n, state |-> 1]
        PROVE  (\E j \in 1..len : list[j] = [name |-> n, state |-> 1]) /\ n # name
    <3>1. from(i) \in 1..len /\ from(i) # k /\ list[from(i)] = [name |-> n, state |-> 1]
      BY <1>5, <2>1
    <3>2. list[from(i)].name # list[k].name
      BY <1>1, <1>4, <3>1
    <3>3. QED BY <1>1, <3>1, <3>2
  <2>2. ASSUME NEW i \in 1..len, list[i] = [name |-> n, state |-> 1], n # name
        PROVE  \E j \in 1..(len - 1) : new[j] = [name |-> n, state |-> 1]
    <3>1. i # k
      BY <1>1, <2>2
    <3>2. QED BY <1>5, <2>2, <3>1
  <2>3. QED BY <2>1, <2>2
<1>8. QED BY <1>2, <1>6, <1>7 DEF Unique, Plays, new, len

(***************************************************************************)
(* The invariant                                                           *)
(***************************************************************************)

Pcs == {"test", "pop", "sleep", "choose", "clear", "ended", "failed"}

DataInv ==
  /\ active \in BOOLEAN /\ queue \in Seq(Messages) /\ Len(queue) <= MaxQueue
  /\ parsed \in [name : Names \union {""}, status : Range(Upper) \union {""}]
  /\ pc \in Pcs /\ wants \in [Names -> Statuses \union {""}] /\ balance \in Int

\* A status is handled only for a name.
ParsedInv == parsed.status \in Statuses => parsed.name \in Names

PlayersInv == players \in Seq(Entry) /\ Unique(players)

\* The list agrees with what is asked for, but for the name whose message is
\* parsed and not handled yet: what is asked for it is what will be handled.
Agrees(n)   == wants[n] # "" => (Playing(n) <=> wants[n] = "PLAYING")
ToHandle(n) == pc = "choose" /\ n = parsed.name /\ parsed.status \in Statuses
FollowInv ==
  pc \notin {"ended", "failed"} =>
    \A n \in Names : IF ToHandle(n) THEN wants[n] \in {"", parsed.status} ELSE Agrees(n)

InPlay == {n \in Names : Playing(n)}
CountInv == IsFiniteSet(InPlay) /\ (pc # "ended" => balance = Cardinality(InPlay))

DbusInv == DataInv /\ ParsedInv /\ PlayersInv /\ FollowInv /\ CountInv

LEMMA WhoPlays ==
  /\ players \in Seq(Entry) => \A n : Playing(n) <=> Plays(n, players)
  /\ players' \in Seq(Entry) => \A n : Playing(n)' <=> Plays(n, players')
<1>1. \A list \in Seq(Entry) : DOMAIN list = 1..Len(list)
  BY Positions
<1>2. QED BY <1>1 DEF Playing, Plays

\* While the players stay, so do those that play.
LEMMA SamePlayers ==
  ASSUME PlayersInv, players' = players
  PROVE  PlayersInv' /\ (\A n : Playing(n)' <=> Playing(n)) /\ InPlay' = InPlay
BY DEF PlayersInv, Unique, Playing, InPlay

LEMMA QueueSize == MaxQueue \in Nat \ {0}
BY DbusAssumption

LEMMA InvInit == Init => DbusInv
<1> SUFFICES ASSUME Init PROVE DbusInv
  OBVIOUS
<1> USE DEF Init
<1>1. queue = <<>> /\ players = <<>> /\ Len(<<>>) = 0
  OBVIOUS
<1>2. DataInv
  <2>1. queue \in Seq(Messages) /\ Len(queue) <= MaxQueue
    BY <1>1, QueueSize
  <2>2. wants \in [Names -> Statuses \union {""}]
    BY HandledStatuses
  <2>3. parsed \in [name : Names \union {""}, status : Range(Upper) \union {""}]
    BY DEF Zero
  <2>4. active \in BOOLEAN /\ pc \in Pcs /\ balance \in Int
    BY DEF Pcs
  <2>5. QED BY <2>1, <2>2, <2>3, <2>4, Zenon DEF DataInv
<1>3. ParsedInv
  BY HandledStatuses DEF ParsedInv, Zero
<1>4. PlayersInv
  BY <1>1 DEF PlayersInv, Unique
<1>5. \A n : ~Playing(n)
  BY <1>1, <1>4, WhoPlays DEF Plays, PlayersInv
<1>6. FollowInv
  BY <1>5 DEF FollowInv, Agrees, ToHandle
<1>7. InPlay = {}
  BY <1>5 DEF InPlay
<1>8. CountInv
  BY <1>7, FS_EmptySet DEF CountInv
<1>9. QED BY <1>2, <1>3, <1>4, <1>6, <1>8 DEF DbusInv

(***************************************************************************)
(* The steps                                                               *)
(***************************************************************************)

\* signal_start makes the name of the message play, and nobody else.
LEMMA StartStep ==
  ASSUME DbusInv, SignalStart
  PROVE  /\ parsed.status = "PLAYING" /\ parsed.name \in Names /\ PlayersInv'
         /\ \A n : Playing(n)' <=> Playing(n) \/ n = parsed.name
<1> DEFINE name == parsed.name
           list == FindPlayer(name)
<1>1. parsed.status \in Statuses /\ HandlerMap[parsed.status] = "signal_start"
  BY DEF SignalStart, Handler, Statuses
<1>2. parsed.status = "PLAYING"
  BY <1>1, HandledStatuses DEF HandlerMap
<1>3. name \in Names /\ players \in Seq(Entry) /\ Unique(players)
  BY <1>1 DEF DbusInv, ParsedInv, PlayersInv
<1>4. /\ list \in Seq(Entry) /\ Unique(list) /\ Listed(name, list)
      /\ \A n : Plays(n, list) <=> Plays(n, players)
  BY <1>3, Found
<1>5. players' = WithState(name, list, 1)
  BY DEF SignalStart
<1> HIDE DEF name, list
<1>6. /\ players' \in Seq(Entry) /\ Unique(players')
      /\ \A n : Plays(n, players') <=> Plays(n, list) \/ n = name
  BY <1>4, <1>5, Started
<1>7. \A n : Playing(n)' <=> Playing(n) \/ n = name
  BY <1>3, <1>4, <1>6, WhoPlays
<1>8. PlayersInv'
  BY <1>6 DEF PlayersInv, Unique
<1>9. QED BY <1>2, <1>3, <1>7, <1>8 DEF name

\* signal_stop leaves the name of the message not playing, and nobody else.
LEMMA StopStep ==
  ASSUME DbusInv, SignalStop
  PROVE  /\ parsed.status \in Statuses \ {"PLAYING"} /\ parsed.name \in Names
         /\ PlayersInv' /\ \A n : Playing(n)' <=> Playing(n) /\ n # parsed.name
<1> DEFINE name == parsed.name
<1>1. parsed.status \in Statuses /\ HandlerMap[parsed.status] = "signal_stop"
  BY DEF SignalStop, Handler, Statuses
<1>2. parsed.status \in Statuses \ {"PLAYING"}
  BY <1>1, HandledStatuses DEF HandlerMap
<1>3. name \in Names /\ players \in Seq(Entry) /\ Unique(players)
  BY <1>1 DEF DbusInv, ParsedInv, PlayersInv
<1> HIDE DEF name
<1>4. /\ players' \in Seq(Entry) /\ Unique(players')
      /\ \A n : Plays(n, players') <=> Plays(n, players) /\ n # name
  <2>1. CASE Playing(name)
    <3>1. players' = RmPlayer(name, players)
      BY <2>1 DEF SignalStop, name
    <3>2. Listed(name, players)
      <4>1. PICK i \in 1..Len(players) : players[i] = [name |-> name, state |-> 1]
        BY <1>3, <2>1, WhoPlays DEF Plays
      <4>2. players[i].name = name
        BY <4>1
      <4>3. QED BY <4>2 DEF Listed
    <3>3. QED BY <1>3, <3>1, <3>2, Removed
  <2>2. CASE ~Playing(name)
    <3>1. players' = FindPlayer(name)
      BY <2>2 DEF SignalStop, name
    <3>2. ~Plays(name, players)
      BY <1>3, <2>2, WhoPlays
    <3>3. QED BY <1>3, <3>1, <3>2, Found
  <2>3. QED BY <2>1, <2>2
<1>5. \A n : Playing(n)' <=> Playing(n) /\ n # name
  BY <1>3, <1>4, WhoPlays
<1>6. PlayersInv'
  BY <1>4 DEF PlayersInv, Unique
<1>7. QED BY <1>2, <1>3, <1>5, <1>6 DEF name

LEMMA SignalStartInv == ASSUME DbusInv, SignalStart PROVE DbusInv'
<1> DEFINE name == parsed.name
<1>1. /\ parsed.status = "PLAYING" /\ name \in Names /\ PlayersInv'
      /\ \A n : Playing(n)' <=> Playing(n) \/ n = name
  BY StartStep
<1>2. /\ UNCHANGED <<active, queue, parsed, wants>> /\ pc = "choose" /\ pc' = "test"
      /\ balance' = IF Playing(name) THEN balance ELSE balance + 1
  BY DEF SignalStart, Handler, LoopGoto
<1>3. ASSUME NEW n \in Names PROVE Agrees(n)'
  <2>1. CASE n = name
    <3>1. wants[n] \in {"", "PLAYING"}
      BY <1>1, <1>2, <2>1, HandledStatuses DEF DbusInv, FollowInv, ToHandle
    <3>2. QED BY <1>1, <1>2, <2>1, <3>1 DEF Agrees
  <2>2. CASE n # name
    <3>1. Agrees(n)
      BY <1>2, <2>2 DEF DbusInv, FollowInv, ToHandle
    <3>2. QED BY <1>1, <1>2, <2>2, <3>1 DEF Agrees
  <2>3. QED BY <2>1, <2>2
<1>4. InPlay' = InPlay \union {name}
  BY <1>1 DEF InPlay
<1>5. CountInv'
  <2>1. /\ IsFiniteSet(InPlay) /\ balance = Cardinality(InPlay)
        /\ name \in InPlay <=> Playing(name)
    BY <1>1, <1>2 DEF DbusInv, CountInv, InPlay
  <2>2. QED BY <1>2, <1>4, <2>1, FS_AddElement DEF CountInv
<1>6. DataInv'
  <2>1. balance' \in Int
    <3>1. balance' \in {balance, balance + 1}
      BY <1>2, Zenon
    <3>2. balance \in Int
      BY DEF DbusInv, DataInv
    <3>3. QED BY <3>1, <3>2
  <2>2. QED BY <1>2, <2>1 DEF DbusInv, DataInv, Pcs
<1>7. ParsedInv'
  BY <1>2 DEF DbusInv, ParsedInv
<1>8. FollowInv'
  BY <1>2, <1>3 DEF FollowInv, ToHandle
<1>9. QED BY <1>1, <1>5, <1>6, <1>7, <1>8 DEF DbusInv

LEMMA SignalStopInv == ASSUME DbusInv, SignalStop PROVE DbusInv'
<1> DEFINE name == parsed.name
<1>1. /\ parsed.status \in Statuses \ {"PLAYING"} /\ name \in Names
      /\ PlayersInv' /\ \A n : Playing(n)' <=> Playing(n) /\ n # name
  BY StopStep
<1>2. /\ UNCHANGED <<active, queue, parsed, wants>> /\ pc = "choose" /\ pc' = "test"
      /\ balance' = IF Playing(name) THEN balance - 1 ELSE balance
  BY DEF SignalStop, Handler, LoopGoto
<1>3. ASSUME NEW n \in Names PROVE Agrees(n)'
  <2>1. CASE n = name
    <3>1. wants[n] \in {"", parsed.status}
      BY <1>1, <1>2, <2>1 DEF DbusInv, FollowInv, ToHandle
    <3>2. QED BY <1>1, <1>2, <2>1, <3>1 DEF Agrees
  <2>2. CASE n # name
    <3>1. Agrees(n)
      BY <1>2, <2>2 DEF DbusInv, FollowInv, ToHandle
    <3>2. QED BY <1>1, <1>2, <2>2, <3>1 DEF Agrees
  <2>3. QED BY <2>1, <2>2
<1>4. InPlay' = InPlay \ {name}
  BY <1>1 DEF InPlay
<1>5. CountInv'
  <2>1. /\ IsFiniteSet(InPlay) /\ balance = Cardinality(InPlay)
        /\ name \in InPlay <=> Playing(name)
    BY <1>1, <1>2 DEF DbusInv, CountInv, InPlay
  <2>2. QED BY <1>2, <1>4, <2>1, FS_RemoveElement DEF CountInv
<1>6. DataInv'
  <2>1. balance' \in Int
    <3>1. balance' \in {balance, balance - 1}
      BY <1>2, Zenon
    <3>2. balance \in Int
      BY DEF DbusInv, DataInv
    <3>3. QED BY <3>1, <3>2
  <2>2. QED BY <1>2, <2>1 DEF DbusInv, DataInv, Pcs
<1>7. ParsedInv'
  BY <1>2 DEF DbusInv, ParsedInv
<1>8. FollowInv'
  BY <1>2, <1>3 DEF FollowInv, ToHandle
<1>9. QED BY <1>1, <1>5, <1>6, <1>7, <1>8 DEF DbusInv

\* A message is taken from the queue and parsed.
LEMMA PopInv == ASSUME DbusInv, Pop PROVE DbusInv'
<1>1. /\ UNCHANGED <<active, players, balance>> /\ pc = "pop"
      /\ PlayersInv' /\ (\A n : Playing(n)' <=> Playing(n)) /\ InPlay' = InPlay
  BY SamePlayers DEF Pop, LoopGoto, DbusInv
<1>2. \A n \in Names : Agrees(n)
  BY <1>1 DEF DbusInv, FollowInv, ToHandle
<1>3. /\ wants \in [Names -> Statuses \union {""}]
      /\ queue \in Seq(Messages) /\ Len(queue) <= MaxQueue
      /\ active \in BOOLEAN /\ balance \in Int
  BY DEF DbusInv, DataInv
<1>4. Zero \in [name : Names \union {""}, status : Range(Upper) \union {""}]
      /\ Zero.status \notin Statuses
  BY HandledStatuses DEF Zero
<1>5. CountInv'
  <2>1. pc' # "ended" /\ pc # "ended"
    BY <1>1 DEF Pop, LoopGoto
  <2>2. QED BY <1>1, <2>1 DEF DbusInv, CountInv
<1>6. ASSUME parsed' = Zero, UNCHANGED wants, pc' \in {"sleep", "choose"},
             queue' \in Seq(Messages), Len(queue') <= MaxQueue
      PROVE  DbusInv'
  <2>1. DataInv'
    BY <1>1, <1>3, <1>4, <1>6 DEF DataInv, Pcs
  <2>2. ParsedInv' /\ FollowInv'
    BY <1>1, <1>2, <1>4, <1>6 DEF ParsedInv, FollowInv, ToHandle, Agrees
  <2>3. QED BY <1>1, <1>5, <2>1, <2>2 DEF DbusInv
<1>7. CASE queue = <<>>
  BY <1>3, <1>6, <1>7 DEF Pop, LoopGoto
<1>8. CASE queue # <<>>
  <2> DEFINE msg == Head(queue)
  <2>1. pc' = "choose" /\ queue' = Tail(queue)
    BY <1>8 DEF Pop, LoopGoto
  <2>2. msg \in Messages /\ queue' \in Seq(Messages) /\ Len(queue') <= MaxQueue
    <3> DEFINE n == Len(queue)
               m == Len(Tail(queue))
    <3>1. msg \in Messages /\ Tail(queue) \in Seq(Messages) /\ m = n - 1
      BY <1>3, <1>8, HeadTailProperties, Zenon
    <3>2. n \in Nat /\ n <= MaxQueue /\ MaxQueue \in Nat
      BY <1>3, LenProperties, DbusAssumption
    <3> HIDE DEF n, m
    <3>3. m <= MaxQueue
      BY <3>1, <3>2
    <3>4. QED BY <2>1, <3>1, <3>3 DEF m
  <2>3. CASE msg.member # "PropertiesChanged"
    <3>1. parsed' = Zero /\ UNCHANGED wants
      BY <1>8, <2>3 DEF Pop
    <3>2. QED BY <1>6, <2>1, <2>2, <3>1
  <2>4. CASE msg.member = "PropertiesChanged"
    <3>1. /\ parsed' = ParseSignal(msg, Zero)
          /\ wants' = [n \in Names |-> IF n = msg.name THEN Meaning(msg, wants[n])
                                       ELSE wants[n]]
      BY <1>8, <2>4 DEF Pop
    <3> HIDE DEF msg
    <3>2. /\ parsed' \in [name : Names \union {""}, status : Range(Upper) \union {""}]
          /\ parsed'.name = msg.name
          /\ parsed'.status \in Statuses => msg.name \in Names
      BY <2>2, <3>1, Parsed
    <3>3. \A n \in Names : n # msg.name => wants'[n] = wants[n]
      BY <3>1
    <3>4. \A n \in Names : n = msg.name =>
            /\ parsed'.status \in Statuses => wants'[n] \in {"", parsed'.status}
            /\ parsed'.status \notin Statuses => wants'[n] \in {"", wants[n]}
      <4> TAKE n \in Names
      <4>1. LET p == ParseSignal(msg, Zero)
                m == Meaning(msg, wants[n])
            IN  /\ p.status \in Statuses => m \in {"", p.status}
                /\ p.status \notin Statuses => m \in {"", wants[n]}
        BY <2>2, Parsed
      <4>2. n = msg.name => wants'[n] = Meaning(msg, wants[n])
        BY <3>1
      <4>3. QED BY <3>1, <4>1, <4>2
    <3>5. wants' \in [Names -> Statuses \union {""}]
      <4>1. \A n \in Names : wants'[n] \in Statuses \union {""}
        BY <1>3, <3>3, <3>4
      <4>2. wants' = [n \in Names |-> wants'[n]]
        BY <3>1
      <4>3. QED BY <4>1, <4>2
    <3>6. DataInv'
      BY <1>1, <1>3, <2>1, <2>2, <3>2, <3>5 DEF DataInv, Pcs
    <3>7. ParsedInv'
      BY <3>2 DEF ParsedInv
    <3>8. FollowInv'
      <4>1. ASSUME NEW n \in Names
            PROVE  (IF ToHandle(n) THEN wants[n] \in {"", parsed.status} ELSE Agrees(n))'
        <5>1. CASE n # msg.name
          BY <1>1, <1>2, <3>2, <3>3, <5>1 DEF ToHandle, Agrees
        <5>2. CASE n = msg.name
          BY <1>1, <1>2, <2>1, <3>2, <3>4, <5>2 DEF ToHandle, Agrees
        <5>3. QED BY <5>1, <5>2
      <4>2. QED BY <4>1 DEF FollowInv
    <3>9. QED BY <1>1, <1>5, <3>6, <3>7, <3>8 DEF DbusInv
  <2>5. QED BY <2>3, <2>4
<1>9. QED BY <1>7, <1>8

LEMMA InvNext == DbusInv /\ [Next]_vars => DbusInv'
<1> SUFFICES ASSUME DbusInv, [Next]_vars PROVE DbusInv'
  OBVIOUS
<1>1. ASSUME UNCHANGED <<parsed, players, wants, balance>>, active' \in BOOLEAN,
             queue' \in Seq(Messages), Len(queue') <= MaxQueue, pc' \in Pcs,
             \/ pc' = pc
             \/ /\ pc \notin {"ended", "failed"} /\ pc' \notin {"ended", "choose"}
                /\ pc = "choose" /\ pc' # "failed" => parsed.status \notin Statuses
      PROVE  DbusInv'
  <2>1. DataInv' /\ ParsedInv'
    BY <1>1 DEF DbusInv, DataInv, ParsedInv
  <2>2. PlayersInv' /\ (\A n : Playing(n)' <=> Playing(n)) /\ InPlay' = InPlay
    BY <1>1, SamePlayers DEF DbusInv
  <2>3. FollowInv'
    <3>1. ASSUME NEW n \in Names, pc' \notin {"ended", "failed"}
          PROVE  (IF ToHandle(n) THEN wants[n] \in {"", parsed.status} ELSE Agrees(n))'
      <4>1. IF ToHandle(n) THEN wants[n] \in {"", parsed.status} ELSE Agrees(n)
        BY <1>1, <3>1 DEF DbusInv, FollowInv
      <4>2. Agrees(n) => Agrees(n)'
        BY <1>1, <2>2 DEF Agrees
      <4>3. ToHandle(n)' <=> ToHandle(n)
        BY <1>1, <3>1 DEF ToHandle
      <4>4. QED BY <1>1, <4>1, <4>2, <4>3
    <3>2. QED BY <3>1 DEF FollowInv
  <2>4. CountInv'
    <3>1. IsFiniteSet(InPlay) /\ (pc # "ended" => balance = Cardinality(InPlay))
      BY DEF DbusInv, CountInv
    <3>2. balance' = balance
      BY <1>1
    <3>3. pc # "ended" \/ pc' = "ended"
      BY <1>1
    <3>4. QED BY <2>2, <3>1, <3>2, <3>3, Zenon DEF CountInv
  <2>5. QED BY <2>1, <2>2, <2>3, <2>4 DEF DbusInv
<1>2. /\ active \in BOOLEAN /\ queue \in Seq(Messages) /\ Len(queue) <= MaxQueue
      /\ pc \in Pcs
  BY DEF DbusInv, DataInv
<1>3. CASE Test
  BY <1>1, <1>2, <1>3 DEF Test, LoopGoto, Pcs
<1>4. CASE Pop
  BY <1>4, PopInv
<1>5. CASE Sleep
  BY <1>1, <1>2, <1>5 DEF Sleep, LoopGoto, Pcs
<1>6. CASE ChooseNone
  BY <1>1, <1>2, <1>6 DEF ChooseNone, LoopGoto, Pcs, Statuses
<1>7. CASE PlayerFails
  BY <1>1, <1>2, <1>7 DEF PlayerFails, LoopGoto, Pcs
<1>8. CASE SignalStart
  BY <1>8, SignalStartInv
<1>9. CASE SignalStop
  BY <1>9, SignalStopInv
<1>10. CASE ClearPlayers
  <2>1. /\ UNCHANGED <<active, queue, parsed, wants, balance>> /\ players' = <<>>
        /\ pc' = "ended"
    BY <1>10 DEF ClearPlayers, LoopGoto
  <2>2. players' \in Seq(Entry) /\ Len(players') = 0
    BY <2>1, EmptySeq
  <2>3. PlayersInv' /\ InPlay' = {}
    BY <2>2, WhoPlays DEF PlayersInv, Unique, InPlay, Plays
  <2>4. QED
    BY <2>1, <2>3, FS_EmptySet
       DEF DbusInv, DataInv, ParsedInv, FollowInv, CountInv, Pcs
<1>11. ASSUME NEW msg \in Messages, Arrive(msg) PROVE DbusInv'
  <2>1. queue' = Append(queue, msg) /\ Len(queue) < MaxQueue
    BY <1>11 DEF Arrive
  <2>2. queue' \in Seq(Messages) /\ Len(queue') = Len(queue) + 1 /\ Len(queue) \in Nat
    BY <1>2, <2>1, AppendProperties, LenProperties, Zenon
  <2>3. Len(queue') <= MaxQueue
    <3> DEFINE n == Len(queue)
               m == Len(queue')
    <3>1. n \in Nat /\ m = n + 1 /\ n < MaxQueue /\ MaxQueue \in Nat
      BY <2>1, <2>2, DbusAssumption
    <3> HIDE DEF n, m
    <3>2. m <= MaxQueue
      BY <3>1
    <3>3. QED BY <3>2 DEF m
  <2>4. QED BY <1>1, <1>2, <1>11, <2>2, <2>3 DEF Arrive
<1>12. CASE Sigfunc
  BY <1>1, <1>2, <1>12 DEF Sigfunc
<1>13. CASE UNCHANGED vars
  BY <1>1, <1>2, <1>13 DEF vars
<1>14. QED
  BY <1>3, <1>4, <1>5, <1>6, <1>7, <1>8, <1>9, <1>10, <1>11, <1>12, <1>13
     DEF Next, MainNext

LEMMA Invariant == Spec => []DbusInv
BY InvInit, InvNext, PTL DEF Spec

(***************************************************************************)
(* The theorems                                                            *)
(***************************************************************************)

\* Whatever messages come, no name is twice on the list of players, and every
\* entry is of a name that a message had.
THEOREM TypeCorrect == Spec => []TypeOK
<1>1. ASSUME DbusInv PROVE TypeOK
  <2>1. \A i, j \in DOMAIN players : players[i].name = players[j].name => i = j
    BY <1>1, Positions DEF DbusInv, PlayersInv, Unique
  <2>2. QED
    BY <1>1, <2>1 DEF TypeOK, DbusInv, DataInv, PlayersInv, Entry, Statuses, Pcs
<1>2. QED BY Invariant, <1>1, PTL

\* After every message, of any names and in any order, the names that are taken
\* for playing are those whose last status says so.
THEOREM LastStatusFollowed == Spec => []FollowsLastStatus
<1>1. ASSUME DbusInv PROVE FollowsLastStatus
  BY <1>1 DEF DbusInv, FollowInv, FollowsLastStatus, Agrees, ToHandle
<1>2. QED BY Invariant, <1>1, PTL

\* The starts that are printed exceed the stops by the number of names that play.
THEOREM StartsAndStopsMatch == Spec => []StartsMatchStops
<1>1. ASSUME DbusInv PROVE StartsMatchStops
  BY <1>1 DEF DbusInv, CountInv, InPlay, StartsMatchStops
<1>2. QED BY Invariant, <1>1, PTL
=============================================================================
