----------------------------- MODULE SSEProofs -----------------------------
(***************************************************************************)
(* What holds of SSE for any clients and broadcasts: the list of streams is *)
(* right, and a broadcast goes wrong only under an unregistration.          *)
(***************************************************************************)
EXTENDS SSE, SequenceTheorems, TLAPS

\* A slice within its array.
Room(s) ==
  s = Nil \/ (s.array \in DOMAIN arrays /\ s.len \in 1 .. Len(arrays[s.array].slots))

\* What a slice holds at i.
At(s, i) == arrays[s.array].slots[i]

Array == [slots: Seq(Clients), cap: Nat]
Arrays == Seq(Array)

(* What TypeOK says of the arrays. *)
LEMMA ArraysFit ==
  ASSUME TypeOK
  PROVE  /\ arrays \in Arrays /\ Len(arrays) \in Nat /\ DOMAIN arrays = 1 .. Len(arrays)
         /\ \A a \in DOMAIN arrays :
              /\ arrays[a] \in Array /\ arrays[a].slots \in Seq(Clients)
              /\ Len(arrays[a].slots) \in Nat /\ Len(arrays[a].slots) <= arrays[a].cap
<1>1. arrays \in Arrays
  BY DEF TypeOK, Arrays, Array
<1>2. Len(arrays) \in Nat /\ DOMAIN arrays = 1 .. Len(arrays)
  BY <1>1 DEF Arrays
<1>3. ASSUME NEW a \in DOMAIN arrays
      PROVE  /\ arrays[a] \in Array /\ arrays[a].slots \in Seq(Clients)
             /\ Len(arrays[a].slots) \in Nat /\ Len(arrays[a].slots) <= arrays[a].cap
  <2>1. arrays[a] \in Array
    BY <1>1, <1>2, <1>3 DEF Arrays
  <2>2. arrays[a].slots \in Seq(Clients)
    BY <2>1 DEF Array
  <2>3. QED BY <2>1, <2>2 DEF TypeOK
<1>4. QED BY <1>1, <1>2, <1>3

(* A slice is the first elements of its array. *)
LEMMA ElementsOf ==
  TypeOK => \A s \in Slices : Room(s) =>
              /\ Elements(s) \in Seq(Clients)
              /\ Len(Elements(s)) = s.len
              /\ \A i \in 1 .. s.len : Elements(s)[i] = At(s, i)
<1> SUFFICES ASSUME TypeOK, NEW s \in Slices, Room(s)
             PROVE  /\ Elements(s) \in Seq(Clients)
                    /\ Len(Elements(s)) = s.len
                    /\ \A i \in 1 .. s.len : Elements(s)[i] = At(s, i)
  OBVIOUS
<1>1. CASE s.len = 0
  BY <1>1 DEF Elements
<1>2. CASE s.len # 0
  <2>1. s.array \in DOMAIN arrays /\ s.len \in 1 .. Len(arrays[s.array].slots)
    BY <1>2 DEF Room, Nil
  <2> DEFINE slots == arrays[s.array].slots
  <2>2. slots \in Seq(Clients)
    BY <2>1, ArraysFit
  <2>3. Elements(s) = SubSeq(slots, 1, s.len)
    BY <1>2 DEF Elements
  <2> HIDE DEF slots
  <2>4. s.len \in 1 .. Len(slots)
    BY <2>1 DEF slots
  <2>5. \A i \in 1 .. s.len : slots[i] \in Clients
    BY <2>2, <2>4
  <2>6. /\ SubSeq(slots, 1, s.len) \in Seq(Clients)
        /\ Len(SubSeq(slots, 1, s.len)) = s.len
        /\ \A i \in 1 .. s.len : SubSeq(slots, 1, s.len)[i] = slots[i]
    BY <2>2, <2>4, <2>5
  <2>7. QED BY <2>3, <2>6 DEF slots, At
<1>3. QED BY <1>1, <1>2

(* What TypeOK says of the slices. *)
LEMMA SlicesFit ==
  ASSUME TypeOK
  PROVE  /\ list \in Slices /\ Room(list)
         /\ \A u \in Updates : view[u] \in Slices /\ Room(view[u])
BY DEF TypeOK, Room

-----------------------------------------------------------------------------
(* The two critical sections that write to the list *)

\* The arrays stay where they are; a slot changes only where the list may write.
Grown(written) ==
  /\ arrays' \in Arrays
  /\ \A a \in DOMAIN arrays' : Len(arrays'[a].slots) <= arrays'[a].cap
  /\ \A a \in DOMAIN arrays :
       /\ a \in DOMAIN arrays' /\ Len(arrays[a].slots) <= Len(arrays'[a].slots)
       /\ \A i \in 1 .. Len(arrays[a].slots) :
            (a = list.array /\ i \in written) \/ arrays'[a].slots[i] = arrays[a].slots[i]

(* Writing one place of an array. *)
LEMMA PutWrites ==
  ASSUME NEW array \in Array, NEW c \in Clients,
         NEW n \in 0 .. Len(array.slots), n < array.cap, Len(array.slots) <= array.cap
  PROVE  /\ Put(array, n + 1, c) \in Array
         /\ Len(array.slots) <= Len(Put(array, n + 1, c).slots)
         /\ n + 1 <= Len(Put(array, n + 1, c).slots)
         /\ Len(Put(array, n + 1, c).slots) <= Put(array, n + 1, c).cap
         /\ Put(array, n + 1, c).slots[n + 1] = c
         /\ \A i \in 1 .. Len(array.slots) :
              i = n + 1 \/ Put(array, n + 1, c).slots[i] = array.slots[i]
<1> DEFINE s == array.slots
<1>1. s \in Seq(Clients) /\ Len(s) \in Nat /\ n \in Nat
  BY DEF Array
<1>2. CASE n + 1 <= Len(s)
  <2>1. Put(array, n + 1, c) = [array EXCEPT !.slots = [s EXCEPT ![n + 1] = c]]
    BY <1>2 DEF Put
  <2>2. /\ [s EXCEPT ![n + 1] = c] \in Seq(Clients)
        /\ Len([s EXCEPT ![n + 1] = c]) = Len(s)
        /\ [s EXCEPT ![n + 1] = c][n + 1] = c
        /\ \A i \in 1 .. Len(s) : i = n + 1 \/ [s EXCEPT ![n + 1] = c][i] = s[i]
    BY <1>1, <1>2
  <2>3. /\ Put(array, n + 1, c) \in Array
        /\ Put(array, n + 1, c).slots = [s EXCEPT ![n + 1] = c]
        /\ Put(array, n + 1, c).cap = array.cap
    BY <2>1, <2>2 DEF Array
  <2>4. QED BY <1>1, <1>2, <2>2, <2>3
<1>3. CASE ~(n + 1 <= Len(s))
  <2>1. Put(array, n + 1, c) = [array EXCEPT !.slots = Append(s, c)]
    BY <1>3 DEF Put
  <2>2. Len(s) = n
    BY <1>1, <1>3
  <2>3. /\ Append(s, c) \in Seq(Clients)
        /\ Len(Append(s, c)) = n + 1
        /\ Append(s, c)[n + 1] = c
        /\ \A i \in 1 .. n : Append(s, c)[i] = s[i]
    BY <1>1, <2>2
  <2>4. /\ Put(array, n + 1, c) \in Array
        /\ Put(array, n + 1, c).slots = Append(s, c)
        /\ Put(array, n + 1, c).cap = array.cap
    BY <2>1, <2>3 DEF Array
  <2>5. array.cap \in Nat
    BY DEF Array
  <2>6. Len(Put(array, n + 1, c).slots) = n + 1 /\ Put(array, n + 1, c).slots[n + 1] = c
    BY <2>3, <2>4
  <2>7. \A i \in 1 .. n : Put(array, n + 1, c).slots[i] = s[i]
    BY <2>3, <2>4
  <2>8. n + 1 <= Put(array, n + 1, c).cap
    BY <1>1, <2>2, <2>4, <2>5
  <2>9. QED BY <1>1, <2>2, <2>4, <2>6, <2>7, <2>8
<1>4. QED BY <1>2, <1>3

LEMMA RegisterWrites ==
  ASSUME TypeOK, NEW c \in Clients, Register(c)
  PROVE  /\ Grown({list.len + 1})
         /\ list' \in Slices /\ list' # Nil /\ list'.len = list.len + 1
         /\ list'.array = list.array \/ list'.array \notin DOMAIN arrays \cup {0}
         /\ list'.array \in DOMAIN arrays' /\ list'.len <= Len(arrays'[list'.array].slots)
         /\ At(list, list.len)' = c
         /\ \A i \in 1 .. list.len : arrays'[list'.array].slots[i] = At(list, i)
<1> DEFINE n == list.len
           full == list = Nil \/ n = arrays[list.array].cap
           larger == [slots |-> Append(Elements(list), c),
                      cap |-> IF n = 0 THEN 1 ELSE 2 * n]
<1>1. /\ arrays \in Arrays /\ n \in Nat /\ list \in Slices /\ Room(list)
      /\ \A a \in DOMAIN arrays : Len(arrays[a].slots) <= arrays[a].cap
  BY SlicesFit, ArraysFit DEF Slices
<1>2. list' = [array |-> IF full THEN Len(arrays) + 1 ELSE list.array, len |-> n + 1]
  BY DEF Register
<1>3. CASE full
  <2>1. arrays' = Append(arrays, larger) /\ list' = [array |-> Len(arrays) + 1, len |-> n + 1]
    BY <1>2, <1>3 DEF Register
  <2>2. /\ Elements(list) \in Seq(Clients) /\ Len(Elements(list)) = n
        /\ \A i \in 1 .. n : Elements(list)[i] = At(list, i)
    BY <1>1, ElementsOf
  <2>3. /\ larger.slots \in Seq(Clients) /\ Len(larger.slots) = n + 1
        /\ larger.slots[n + 1] = c
        /\ \A i \in 1 .. n : larger.slots[i] = At(list, i)
    BY <1>1, <2>2
  <2>4. larger \in Array /\ Len(larger.slots) <= larger.cap
    <3>1. larger.cap \in Nat /\ n + 1 <= larger.cap
      BY <1>1
    <3>2. QED BY <2>3, <3>1 DEF Array
  <2> HIDE DEF larger
  <2>5. /\ arrays' \in Arrays /\ Len(arrays') = Len(arrays) + 1
        /\ arrays'[Len(arrays) + 1] = larger
        /\ \A a \in 1 .. Len(arrays) : arrays'[a] = arrays[a]
    BY <1>1, <2>1, <2>4 DEF Arrays
  <2>6. DOMAIN arrays = 1 .. Len(arrays) /\ DOMAIN arrays' = 1 .. Len(arrays) + 1
        /\ Len(arrays) \in Nat
    BY <1>1, <2>5 DEF Arrays
  <2>7. \A a \in DOMAIN arrays : Len(arrays[a].slots) \in Nat
    BY ArraysFit
  <2>8. Grown({n + 1})
    BY <1>1, <2>4, <2>5, <2>6, <2>7, SMTT(30) DEF Grown
  <2>9. QED BY <1>1, <2>1, <2>3, <2>5, <2>6, <2>8 DEF At, Slices, Nil
<1>4. CASE ~full
  <2> DEFINE old == arrays[list.array]
             new == Put(old, n + 1, c)
  <2>1. arrays' = [arrays EXCEPT ![list.array] = new] /\ list' = [array |-> list.array, len |-> n + 1]
    BY <1>2, <1>4 DEF Register
  <2>2. /\ list.array \in DOMAIN arrays /\ n \in 1 .. Len(old.slots)
        /\ old \in Array /\ Len(old.slots) <= old.cap
    BY <1>1, <1>4, ArraysFit DEF Room
  <2>3. n < old.cap /\ n \in 0 .. Len(old.slots) /\ Len(old.slots) \in Nat
    <3>1. old.cap \in Nat /\ Len(old.slots) \in Nat
      BY <2>2 DEF Array
    <3>2. n # old.cap
      BY <1>4
    <3>3. QED BY <1>1, <2>2, <3>1, <3>2
  <2> HIDE DEF old, new
  <2>4. /\ new \in Array
        /\ Len(old.slots) <= Len(new.slots)
        /\ n + 1 <= Len(new.slots)
        /\ Len(new.slots) <= new.cap
        /\ new.slots[n + 1] = c
        /\ \A i \in 1 .. Len(old.slots) : i = n + 1 \/ new.slots[i] = old.slots[i]
    BY <2>2, <2>3, PutWrites DEF new
  <2>5. /\ arrays' \in Arrays /\ DOMAIN arrays' = DOMAIN arrays
        /\ arrays'[list.array] = new
        /\ \A a \in DOMAIN arrays : a = list.array \/ arrays'[a] = arrays[a]
    BY <1>1, <2>1, <2>2, <2>4 DEF Arrays
  <2>6. \A a \in DOMAIN arrays : Len(arrays[a].slots) \in Nat
    BY ArraysFit
  <2>7. Grown({n + 1})
    <3>1. ASSUME NEW a \in DOMAIN arrays
          PROVE  /\ Len(arrays[a].slots) <= Len(arrays'[a].slots)
                 /\ \A i \in 1 .. Len(arrays[a].slots) :
                      \/ a = list.array /\ i = n + 1
                      \/ arrays'[a].slots[i] = arrays[a].slots[i]
      BY <2>4, <2>5, <2>6 DEF old
    <3>2. \A a \in DOMAIN arrays' : Len(arrays'[a].slots) <= arrays'[a].cap
      BY <1>1, <2>4, <2>5
    <3>3. QED BY <2>5, <3>1, <3>2 DEF Grown
  <2>8. \A i \in 1 .. n : new.slots[i] = old.slots[i]
    BY <1>1, <2>3, <2>4, SMTT(30)
  <2>9. QED
    BY <1>1, <2>1, <2>2, <2>4, <2>5, <2>7, <2>8 DEF At, Slices, Nil, old
<1>5. QED BY <1>3, <1>4

LEMMA UnregisterWrites ==
  ASSUME TypeOK, NEW c \in Clients, unregisterSSEClient(c)
  PROVE  /\ Grown(1 .. list.len)
         /\ list.len \in Nat \ {0}
         /\ list' = IF list.len = 1 THEN Nil ELSE [list EXCEPT !.len = list.len - 1]
         /\ list.array \in DOMAIN arrays
         /\ \E i \in 1 .. list.len :
              /\ At(list, i) = c
              /\ \A j \in 1 .. list.len - 1 :
                   arrays'[list.array].slots[j] = At(list, IF j < i THEN j ELSE j + 1)
<1> DEFINE n == list.len
           old == arrays[list.array]
<1>1. /\ arrays \in Arrays /\ n \in Nat /\ list \in Slices /\ Room(list)
      /\ \A a \in DOMAIN arrays : Len(arrays[a].slots) <= arrays[a].cap
  BY SlicesFit, ArraysFit DEF Slices
<1>2. PICK i \in 1 .. n :
        /\ Elements(list)[i] = c
        /\ arrays' = [arrays EXCEPT ![list.array] = CloseGap(@, i, n)]
  BY DEF unregisterSSEClient
<1>3. /\ list.array \in DOMAIN arrays /\ n \in 1 .. Len(old.slots)
      /\ old \in Array /\ Len(old.slots) <= old.cap
  BY <1>1, <1>2, ArraysFit DEF Room, Nil
<1>4. At(list, i) = c
  BY <1>1, <1>2, ElementsOf
<1> DEFINE new == CloseGap(old, i, n)
           moved == [j \in DOMAIN old.slots |->
                       IF j \in i .. n - 1 THEN old.slots[j + 1] ELSE old.slots[j]]
<1>5. DOMAIN old.slots = 1 .. Len(old.slots) /\ Len(old.slots) \in Nat
  BY <1>3
<1>6. \A j \in 1 .. Len(old.slots) : moved[j] \in Clients
  <2>1. old.slots \in Seq(Clients)
    BY <1>3 DEF Array
  <2>2. \A j \in 1 .. Len(old.slots) : old.slots[j] \in Clients
    BY <2>1
  <2>3. QED BY <1>1, <1>2, <1>3, <1>5, <2>2
<1>7. moved \in Seq(Clients) /\ Len(moved) = Len(old.slots)
  <2>1. moved \in [1 .. Len(old.slots) -> Clients]
    BY <1>5, <1>6
  <2> HIDE DEF moved
  <2>2. moved \in Seq(Clients) /\ DOMAIN moved = 1 .. Len(old.slots)
    BY <1>5, <2>1, SeqDef
  <2>3. Len(moved) \in Nat /\ DOMAIN moved = 1 .. Len(moved)
    BY <2>2
  <2>4. QED BY <1>5, <2>2, <2>3
<1>8. new = [old EXCEPT !.slots = moved]
  BY DEF CloseGap
<1>9. /\ \A j \in 1 .. n - 1 : moved[j] = old.slots[IF j < i THEN j ELSE j + 1]
      /\ \A j \in 1 .. Len(old.slots) : j \in 1 .. n \/ moved[j] = old.slots[j]
  BY <1>1, <1>2, <1>3, <1>5
<1> HIDE DEF moved
<1>10. new \in Array /\ new.slots = moved /\ new.cap = old.cap
  BY <1>3, <1>7, <1>8 DEF Array
<1> HIDE DEF new
<1>11. /\ arrays' \in Arrays /\ DOMAIN arrays' = DOMAIN arrays
       /\ arrays'[list.array] = new
       /\ \A a \in DOMAIN arrays : a = list.array \/ arrays'[a] = arrays[a]
  BY <1>1, <1>2, <1>3, <1>10 DEF Arrays, new
<1>12. \A a \in DOMAIN arrays : Len(arrays[a].slots) \in Nat
  BY ArraysFit
<1>13. Grown(1 .. n)
  <2>1. ASSUME NEW a \in DOMAIN arrays
        PROVE  /\ Len(arrays[a].slots) <= Len(arrays'[a].slots)
               /\ \A j \in 1 .. Len(arrays[a].slots) :
                    \/ a = list.array /\ j \in 1 .. n
                    \/ arrays'[a].slots[j] = arrays[a].slots[j]
    BY <1>5, <1>7, <1>9, <1>10, <1>11, <1>12
  <2>2. \A a \in DOMAIN arrays' : Len(arrays'[a].slots) <= arrays'[a].cap
    BY <1>1, <1>3, <1>7, <1>10, <1>11
  <2>3. QED BY <1>11, <2>1, <2>2 DEF Grown
<1>14. list' = IF n = 1 THEN Nil ELSE [list EXCEPT !.len = n - 1]
  BY DEF unregisterSSEClient
<1>15. \A j \in 1 .. n - 1 : arrays'[list.array].slots[j] = At(list, IF j < i THEN j ELSE j + 1)
  BY <1>9, <1>10, <1>11 DEF At
<1>16. QED BY <1>1, <1>2, <1>3, <1>4, <1>13, <1>14, <1>15

-----------------------------------------------------------------------------
(* Types *)

(* A slice stays within its array when the array grows. *)
LEMMA RoomStays ==
  ASSUME TypeOK, NEW S, Grown(S), NEW s \in Slices, Room(s)
  PROVE  s = Nil \/ (s.array \in DOMAIN arrays' /\ s.len \in 1 .. Len(arrays'[s.array].slots))
<1>1. CASE s # Nil
  <2>1. s.array \in DOMAIN arrays /\ s.len \in 1 .. Len(arrays[s.array].slots)
    BY <1>1 DEF Room
  <2>2. /\ Len(arrays[s.array].slots) <= Len(arrays'[s.array].slots)
        /\ s.array \in DOMAIN arrays' /\ DOMAIN arrays' = 1 .. Len(arrays')
        /\ arrays'[s.array] \in Array
    BY <2>1 DEF Grown, Arrays
  <2>3. Len(arrays'[s.array].slots) \in Nat /\ Len(arrays[s.array].slots) \in Nat
    BY <2>1, <2>2, ArraysFit DEF Array
  <2>4. QED BY <2>1, <2>2, <2>3
<1>2. QED BY <1>1

(* What is left of TypeOK when an array and the list are written. *)
LEMMA GrowingType ==
  ASSUME TypeOK, NEW S, Grown(S), list' \in Slices,
         list' = Nil \/ (list'.array \in DOMAIN arrays'
                         /\ list'.len \in 1 .. Len(arrays'[list'.array].slots)),
         handler' \in [Clients -> {"new", "greeting", "waiting", "closing", "returned"}],
         disturbed' \subseteq Updates,
         UNCHANGED <<pump, peer, beat, view, next, copied, served>>
  PROVE  TypeOK'
<1>1. \A u \in Updates : view'[u] = Nil \/ (view'[u].array \in DOMAIN arrays'
                           /\ view'[u].len \in 1 .. Len(arrays'[view'[u].array].slots))
  BY RoomStays, SlicesFit
<1>2. arrays' \in Seq([slots: Seq(Clients), cap: Nat])
      /\ \A a \in DOMAIN arrays' : Len(arrays'[a].slots) <= arrays'[a].cap
  BY DEF Grown, Arrays, Array
<1>3. \A s \in {list'} \cup {view'[u] : u \in Updates} :
        s = Nil \/ (s.array \in DOMAIN arrays' /\ s.len \in 1 .. Len(arrays'[s.array].slots))
  BY <1>1
<1>4. QED BY <1>2, <1>3 DEF TypeOK

LEMMA RegisterType ==
  ASSUME TypeOK, NEW c \in Clients, Register(c)
  PROVE  TypeOK'
<1>1. handler' \in [Clients -> {"new", "greeting", "waiting", "closing", "returned"}]
  BY DEF Register, TypeOK
<1>2. disturbed' \subseteq Updates /\ UNCHANGED <<pump, peer, beat, view, next, copied, served>>
  BY DEF Register, broadcastVars, TypeOK
<1>3. list.len \in Nat
  BY SlicesFit DEF Slices
<1>4. /\ Grown({list.len + 1}) /\ list' \in Slices /\ list'.array \in DOMAIN arrays'
      /\ list'.len = list.len + 1 /\ list'.len <= Len(arrays'[list'.array].slots)
  BY RegisterWrites
<1>5. Len(arrays'[list'.array].slots) \in Nat
  <2>1. arrays'[list'.array] \in Array
    BY <1>4 DEF Grown, Arrays
  <2>2. QED BY <2>1 DEF Array
<1>6. list'.len \in 1 .. Len(arrays'[list'.array].slots)
  BY <1>3, <1>4, <1>5
<1>7. QED BY <1>1, <1>2, <1>4, <1>6, GrowingType

LEMMA UnregisterType ==
  ASSUME TypeOK, NEW c \in Clients, unregisterSSEClient(c)
  PROVE  TypeOK'
<1>1. handler' \in [Clients -> {"new", "greeting", "waiting", "closing", "returned"}]
  BY DEF unregisterSSEClient, TypeOK
<1>2. disturbed' \subseteq Updates /\ UNCHANGED <<pump, peer, beat, view, next, copied, served>>
  BY DEF unregisterSSEClient, TypeOK
<1>3. /\ Grown(1 .. list.len) /\ list.len \in Nat \ {0} /\ list.array \in DOMAIN arrays
      /\ list' = IF list.len = 1 THEN Nil ELSE [list EXCEPT !.len = list.len - 1]
  BY UnregisterWrites
<1>4. list \in Slices /\ Room(list) /\ list # Nil
  BY <1>3, SlicesFit DEF Nil
<1>5. \/ list'.array = list.array /\ list'.len = list.len - 1 /\ list'.len \in Nat \ {0}
      \/ list' = Nil
  BY <1>3, <1>4 DEF Slices
<1>6. list.array \in DOMAIN arrays' /\ list.len \in 1 .. Len(arrays'[list.array].slots)
  BY <1>3, <1>4, RoomStays
<1>7. arrays'[list.array] \in Array
  BY <1>3, <1>6 DEF Grown, Arrays
<1>8. Len(arrays'[list.array].slots) \in Nat
  BY <1>7 DEF Array
<1>9. list' = Nil \/ (list'.array \in DOMAIN arrays'
                      /\ list'.len \in 1 .. Len(arrays'[list'.array].slots))
  BY <1>3, <1>5, <1>6, <1>8
<1>10. list' \in Slices
  BY <1>3, <1>4, <1>5 DEF Nil, Slices
<1>11. QED BY <1>1, <1>2, <1>3, <1>9, <1>10, GrowingType

(* The steps that write to no array. *)
LEMMA StreamsType ==
  ASSUME TypeOK, UNCHANGED <<arrays, list, broadcastVars>>,
         handler' \in [Clients -> {"new", "greeting", "waiting", "closing", "returned"}],
         pump' \in [Clients -> {"none", "select", "writing", "sending", "done"}],
         peer' \in [Clients -> {"up", "stalled", "gone"}],
         beat' \in [at: {"sleep", "write", "send"}, index: Nat]
  PROVE  TypeOK'
BY DEF TypeOK, broadcastVars

LEMMA CopyListType ==
  ASSUME TypeOK, NEW u \in Updates, CopyList(u)
  PROVE  TypeOK'
<1>1. view' = [view EXCEPT ![u] = list] /\ UNCHANGED <<arrays, list>>
  BY DEF CopyList
<1>2. Elements(list) \in Seq(Clients) /\ list \in Slices /\ Room(list)
  BY ElementsOf, SlicesFit
<1>3. \A w \in Updates : view'[w] \in {view[w], list}
  BY <1>1 DEF TypeOK
<1>4. \A w \in Updates : view'[w] = Nil \/ (view'[w].array \in DOMAIN arrays
                           /\ view'[w].len \in 1 .. Len(arrays[view'[w].array].slots))
  BY <1>2, <1>3, SlicesFit DEF Room
<1>5. copied' \in [Updates -> Seq(Clients)] /\ next' \in [Updates -> Nat] /\ view' \in [Updates -> Slices]
  BY <1>1, <1>2 DEF CopyList, TypeOK
<1>6. UNCHANGED <<streamVars, beat, served, disturbed>>
  BY DEF CopyList
<1>7. QED BY <1>1, <1>4, <1>5, <1>6 DEF TypeOK, streamVars

LEMMA BroadcastWriteType ==
  ASSUME TypeOK, NEW u \in Updates, BroadcastWrite(u)
  PROVE  TypeOK'
<1>1. Elements(view[u]) \in Seq(Clients) /\ Len(Elements(view[u])) = view[u].len
  BY ElementsOf, SlicesFit
<1>2. next[u] \in 1 .. view[u].len
  BY DEF BroadcastWrite
<1>3. Elements(view[u])[next[u]] \in Clients
  BY <1>1, <1>2
<1>4. served[u] \in Seq(Clients) /\ next[u] \in Nat
  BY DEF TypeOK
<1>5. Append(served[u], Elements(view[u])[next[u]]) \in Seq(Clients)
  BY <1>3, <1>4
<1>6. served' \in [Updates -> Seq(Clients)]
  BY <1>5 DEF BroadcastWrite, TypeOK
<1>7. next' \in [Updates -> Nat]
  BY <1>4 DEF BroadcastWrite, TypeOK
<1>8. UNCHANGED <<arrays, list, handler, pump, peer, beat, view, copied, disturbed>>
  BY DEF BroadcastWrite, streamVars
<1>9. QED BY <1>6, <1>7, <1>8, ZenonT(30) DEF TypeOK

LEMMA NextType == TypeOK /\ [Next]_vars => TypeOK'
<1> SUFFICES ASSUME TypeOK, [Next]_vars PROVE TypeOK'
  OBVIOUS
<1>1. CASE UNCHANGED vars
  BY <1>1, StreamsType DEF vars, streamVars, TypeOK
<1>2. ASSUME NEW c \in Clients, Stream(c) \/ Peer(c) PROVE TypeOK'
  <2>1. CASE Greet(c) \/ SendDone(c)
    BY <2>1, StreamsType DEF Greet, SendDone, TypeOK
  <2>2. CASE Notice(c) \/ Block(c) \/ Unblock(c)
    BY <2>2, StreamsType DEF Notice, Block, Unblock, TypeOK
  <2>3. CASE Peer(c)
    BY <2>3, StreamsType DEF Peer, Stall, Resume, Disconnect, TypeOK
  <2>4. QED BY <1>2, <2>1, <2>2, <2>3 DEF Stream
<1>3. CASE BeatStart \/ BeatWrite \/ BeatFails \/ BeatEnd
  <2>1. beat' \in [at: {"sleep", "write", "send"}, index: Nat]
    <3>1. beat \in [at: {"sleep", "write", "send"}, index: Nat]
      BY DEF TypeOK
    <3>2. BeatStart \/ BeatEnd => beat' = [at |-> "write", index |-> 1] \/ beat' = [at |-> "sleep", index |-> 1]
      BY DEF BeatStart, BeatEnd, Idle
    <3>3. BeatWrite => beat' = [beat EXCEPT !.index = @ + 1]
      BY DEF BeatWrite
    <3>4. BeatFails => beat' = [beat EXCEPT !.at = "send"]
      BY DEF BeatFails
    <3>5. QED BY <1>3, <3>1, <3>2, <3>3, <3>4
  <2>2. QED
    BY <1>3, <2>1, StreamsType DEF BeatStart, BeatWrite, BeatFails, BeatEnd, heartbeatVars, TypeOK
<1>4. CASE BeatSend
  <2>1. beat' \in [at: {"sleep", "write", "send"}, index: Nat]
    BY <1>4 DEF BeatSend, TypeOK
  <2>2. handler' \in [Clients -> {"new", "greeting", "waiting", "closing", "returned"}]
        /\ pump' \in [Clients -> {"none", "select", "writing", "sending", "done"}]
    BY <1>4 DEF BeatSend, TypeOK
  <2>3. QED BY <1>4, <2>1, <2>2, StreamsType DEF BeatSend, heartbeatVars, TypeOK
<1>5. QED
  BY <1>1, <1>2, <1>3, <1>4, RegisterType, UnregisterType, CopyListType, BroadcastWriteType
  DEF Next, Heartbeat

LEMMA InitType == Init => TypeOK
BY DEF Init, TypeOK, Slices, Nil, Idle

(* Every slice stays within an array that is there.                          *)
THEOREM StreamsTypeOK == Spec => []TypeOK
BY InitType, NextType, PTL DEF Spec

-----------------------------------------------------------------------------
(* The list *)

(* ListMatches, slot by slot. *)
ListAt ==
  /\ \A c \in Clients : c \in Listed <=> \E i \in 1 .. list.len : At(list, i) = c
  /\ \A i \in 1 .. list.len : At(list, i) \in Clients
  /\ \A i, j \in 1 .. list.len : At(list, i) = At(list, j) => i = j

LEMMA ListUnfolded == TypeOK => (ListMatches <=> ListAt)
<1> SUFFICES ASSUME TypeOK PROVE ListMatches <=> ListAt
  OBVIOUS
<1> DEFINE E == Elements(list)
<1>1. /\ E \in Seq(Clients) /\ Len(E) = list.len
      /\ \A i \in 1 .. list.len : E[i] = At(list, i)
  BY ElementsOf, SlicesFit
<1>2. DOMAIN E = 1 .. list.len /\ \A i \in 1 .. list.len : E[i] \in Clients
  BY <1>1
<1>3. ListMatches <=> ToSet(E) = Listed /\ IsInjective(E)
  BY DEF ListMatches
<1> HIDE DEF E
<1>4. IsInjective(E) <=> \A i, j \in 1 .. list.len : At(list, i) = At(list, j) => i = j
  BY <1>1, <1>2 DEF IsInjective
<1>5. ToSet(E) = {At(list, i) : i \in 1 .. list.len}
  BY <1>1, <1>2 DEF ToSet
<1>6. Listed \subseteq Clients
  BY DEF Listed
<1>7. QED BY <1>1, <1>2, <1>3, <1>4, <1>5, <1>6 DEF ListAt

LEMMA RegisterLists ==
  ASSUME TypeOK, ListAt, NEW c \in Clients, Register(c)
  PROVE  ListAt'
<1>1. /\ list'.len = list.len + 1 /\ list.len \in Nat
      /\ arrays'[list'.array].slots[list'.len] = c
      /\ \A i \in 1 .. list.len : arrays'[list'.array].slots[i] = At(list, i)
  BY RegisterWrites, SlicesFit DEF Slices, At
<1>2. c \notin Listed /\ \A d \in Clients : d \in Listed' <=> d \in Listed \/ d = c
  BY DEF Register, Listed, TypeOK
<1>3. \A i \in 1 .. list'.len : arrays'[list'.array].slots[i] = IF i = list'.len THEN c ELSE At(list, i)
  BY <1>1
<1>4. \A i \in 1 .. list.len : At(list, i) # c
  BY <1>2 DEF ListAt
<1>5. \A d \in Clients : d \in Listed' <=>
        \E i \in 1 .. list'.len : arrays'[list'.array].slots[i] = d
  <2> SUFFICES ASSUME NEW d \in Clients
               PROVE  d \in Listed' <=> \E i \in 1 .. list'.len : arrays'[list'.array].slots[i] = d
    OBVIOUS
  <2>1. CASE d = c
    BY <1>1, <1>2, <2>1
  <2>2. CASE d # c
    BY <1>1, <1>2, <1>3, <2>2 DEF ListAt
  <2>3. QED BY <2>1, <2>2
<1>6. QED BY <1>1, <1>3, <1>4, <1>5 DEF ListAt, At

LEMMA UnregisterLists ==
  ASSUME TypeOK, ListAt, NEW c \in Clients, unregisterSSEClient(c)
  PROVE  ListAt'
<1> DEFINE n == list.len
           slot(j) == arrays'[list'.array].slots[j]
<1>1. PICK i \in 1 .. n :
        /\ At(list, i) = c
        /\ \A j \in 1 .. n - 1 :
             arrays'[list.array].slots[j] = At(list, IF j < i THEN j ELSE j + 1)
  BY UnregisterWrites
<1>2. n \in Nat \ {0} /\ list' = IF n = 1 THEN Nil ELSE [list EXCEPT !.len = n - 1]
  BY UnregisterWrites
<1>3. list'.len = n - 1 /\ (n # 1 => list'.array = list.array)
  BY <1>2, SlicesFit DEF Slices, Nil
<1>4. \A j \in 1 .. n - 1 : slot(j) = At(list, IF j < i THEN j ELSE j + 1)
  BY <1>1, <1>2, <1>3
<1>5. \A d \in Clients : d \in Listed' <=> d \in Listed /\ d # c
  BY DEF unregisterSSEClient, Listed, TypeOK
<1> HIDE DEF slot
<1>6. \A j \in 1 .. n - 1 : slot(j) # c /\ slot(j) \in Clients
  BY <1>1, <1>2, <1>4 DEF ListAt
<1>7. ASSUME NEW d \in Clients
      PROVE  d \in Listed' <=> \E j \in 1 .. n - 1 : slot(j) = d
  <2>1. ASSUME d \in Listed, d # c PROVE \E j \in 1 .. n - 1 : slot(j) = d
    <3>1. PICK k \in 1 .. n : At(list, k) = d
      BY <2>1 DEF ListAt
    <3>2. k # i
      BY <1>1, <2>1, <3>1
    <3>3. CASE k < i
      BY <1>2, <1>4, <3>1, <3>3
    <3>4. CASE k > i
      <4>1. k - 1 \in 1 .. n - 1 /\ ~(k - 1 < i) /\ (k - 1) + 1 = k
        BY <1>2, <3>4
      <4>2. QED BY <1>4, <3>1, <4>1
    <3>5. QED BY <1>2, <3>2, <3>3, <3>4
  <2>2. ASSUME NEW j \in 1 .. n - 1, slot(j) = d PROVE d \in Listed /\ d # c
    <3>1. (IF j < i THEN j ELSE j + 1) \in 1 .. n
      BY <1>2
    <3>2. QED BY <1>4, <1>6, <2>2, <3>1 DEF ListAt
  <2>3. QED BY <1>5, <2>1, <2>2
<1>8. \A j, k \in 1 .. n - 1 : slot(j) = slot(k) => j = k
  BY <1>1, <1>2, <1>4 DEF ListAt
<1>9. QED BY <1>3, <1>6, <1>7, <1>8 DEF ListAt, At, slot

LEMMA NextLists == TypeOK /\ ListAt /\ [Next]_vars => ListAt'
<1> SUFFICES ASSUME TypeOK, ListAt, [Next]_vars PROVE ListAt'
  OBVIOUS
<1>1. CASE UNCHANGED <<arrays, list>>
           /\ \A c \in Clients : handler'[c] = handler[c]
                \/ {handler[c], handler'[c]} \subseteq {"greeting", "waiting", "closing"}
  <2>1. \A c \in Clients : c \in Listed' <=> c \in Listed
    BY <1>1 DEF Listed
  <2>2. QED BY <1>1, <2>1 DEF ListAt, At
<1>2. UNCHANGED vars => UNCHANGED <<arrays, list, handler>>
  BY DEF vars, streamVars
<1>3. ASSUME NEW c \in Clients, Stream(c) \/ Peer(c) PROVE ListAt'
  <2>1. CASE Greet(c) \/ SendDone(c)
    BY <1>1, <2>1 DEF Greet, SendDone, TypeOK
  <2>2. CASE Notice(c) \/ Block(c) \/ Unblock(c) \/ Peer(c)
    BY <1>1, <2>2 DEF Notice, Block, Unblock, Peer, Stall, Resume, Disconnect
  <2>3. QED BY <1>3, <2>1, <2>2 DEF Stream
<1>4. BeatStart \/ BeatWrite \/ BeatFails \/ BeatEnd => UNCHANGED <<arrays, list, handler>>
  BY DEF BeatStart, BeatWrite, BeatFails, BeatEnd, heartbeatVars
<1>5. CASE BeatSend
  <2>1. \A d \in Clients : handler'[d] = handler[d]
          \/ (handler[d] = "waiting" /\ handler'[d] = "closing")
    BY <1>5 DEF BeatSend, TypeOK
  <2>2. QED BY <1>1, <1>5, <2>1 DEF BeatSend, heartbeatVars
<1>6. ASSUME NEW u \in Updates, CopyList(u) \/ BroadcastWrite(u)
      PROVE  UNCHANGED <<arrays, list, handler>>
  BY <1>6 DEF CopyList, BroadcastWrite, streamVars
<1>7. QED
  BY <1>1, <1>2, <1>3, <1>4, <1>5, <1>6, RegisterLists, UnregisterLists
  DEF Next, Heartbeat

(* The list holds the clients that are registered and not yet unregistered,  *)
(* each once, whatever appends and removals share an array.                  *)
THEOREM ListIsRight == Spec => []ListMatches
<1>1. Init => ListAt
  BY DEF Init, ListAt, Listed, Nil
<1>2. TypeOK /\ ListAt => ListMatches
  BY ListUnfolded
<1>3. QED BY <1>1, <1>2, InitType, NextType, NextLists, PTL DEF Spec

-----------------------------------------------------------------------------
(* The broadcasts *)

(* A broadcast nobody has disturbed: its slice still holds what was copied,  *)
(* since an append writes behind it, and it has served the first of them.    *)
Serving(u) ==
  /\ next[u] \in 1 .. view[u].len + 1
  /\ Len(copied[u]) = view[u].len /\ Len(served[u]) = next[u] - 1
  /\ \A i \in 1 .. view[u].len : At(view[u], i) = copied[u][i]
  /\ \A i \in 1 .. next[u] - 1 : served[u][i] = copied[u][i]
  /\ view[u].array = list.array => view[u].len <= list.len

Undisturbed ==
  \A u \in Updates : IF next[u] = 0 THEN served[u] = <<>> /\ copied[u] = <<>> /\ view[u] = Nil
                                    ELSE u \in disturbed \/ Serving(u)

(* Appending to the list leaves every slice copied before as it was. *)
LEMMA RegisterServes ==
  ASSUME TypeOK, Undisturbed, NEW c \in Clients, Register(c)
  PROVE  Undisturbed'
<1> SUFFICES ASSUME NEW u \in Updates, next[u] # 0, Serving(u) PROVE Serving(u)'
  BY DEF Undisturbed, Register, broadcastVars
<1>1. UNCHANGED <<view, next, copied, served>>
  BY DEF Register, broadcastVars
<1>2. /\ Grown({list.len + 1}) /\ list'.len = list.len + 1 /\ list.len \in Nat
      /\ list'.array = list.array \/ list'.array \notin DOMAIN arrays \cup {0}
  BY RegisterWrites, SlicesFit DEF Slices
<1>3. view[u] \in Slices /\ Room(view[u])
  BY SlicesFit
<1>4. view[u].len \in Nat /\ (view[u].array = 0 \/ view[u].array \in DOMAIN arrays)
  BY <1>3 DEF Slices, Room, Nil
<1>5. view[u].array = list'.array => view[u].len <= list'.len
  BY <1>2, <1>4 DEF Serving
<1>6. ASSUME NEW i \in 1 .. view[u].len
      PROVE  arrays'[view[u].array].slots[i] = At(view[u], i)
  <2>1. view[u].array \in DOMAIN arrays /\ view[u].len \in 1 .. Len(arrays[view[u].array].slots)
    BY <1>3, <1>4, <1>6 DEF Room, Nil
  <2>2. Len(arrays[view[u].array].slots) \in Nat
    BY <2>1, ArraysFit
  <2>3. i \in 1 .. Len(arrays[view[u].array].slots)
    BY <1>4, <2>1, <2>2
  <2>4. ~(view[u].array = list.array /\ i = list.len + 1)
    BY <1>2, <1>4 DEF Serving
  <2>5. QED BY <1>2, <2>1, <2>3, <2>4 DEF Grown, At
<1>7. QED BY <1>1, <1>5, <1>6 DEF Serving, At

LEMMA CopyListServes ==
  ASSUME TypeOK, Undisturbed, NEW u \in Updates, CopyList(u)
  PROVE  Undisturbed'
<1>1. /\ view' = [view EXCEPT ![u] = list] /\ next' = [next EXCEPT ![u] = 1]
      /\ copied' = [copied EXCEPT ![u] = Elements(list)]
      /\ UNCHANGED <<arrays, list, served, disturbed>> /\ next[u] = 0
  BY DEF CopyList
<1>2. /\ Elements(list) \in Seq(Clients) /\ Len(Elements(list)) = list.len
      /\ \A i \in 1 .. list.len : Elements(list)[i] = At(list, i)
      /\ list.len \in Nat
  BY ElementsOf, SlicesFit DEF Slices
<1>3. /\ view'[u] = list /\ next'[u] = 1 /\ copied'[u] = Elements(list)
      /\ served'[u] = <<>>
  BY <1>1 DEF Undisturbed, TypeOK
<1>4. Serving(u)'
  BY <1>1, <1>2, <1>3 DEF Serving, At
<1>5. ASSUME NEW w \in Updates, w # u
      PROVE  UNCHANGED <<view[w], next[w], copied[w], served[w]>>
  BY <1>1, <1>5 DEF TypeOK
<1>6. QED BY <1>1, <1>3, <1>4, <1>5, SMTT(30) DEF Undisturbed, Serving, At

LEMMA BroadcastWriteServes ==
  ASSUME TypeOK, Undisturbed, NEW u \in Updates, BroadcastWrite(u)
  PROVE  Undisturbed'
<1> DEFINE e == Elements(view[u])[next[u]]
<1>1. /\ next[u] \in 1 .. view[u].len /\ view[u].len \in Nat
      /\ served' = [served EXCEPT ![u] = Append(@, e)]
      /\ next' = [next EXCEPT ![u] = @ + 1]
      /\ UNCHANGED <<arrays, list, view, copied, disturbed>>
  BY SlicesFit DEF BroadcastWrite, Slices
<1>2. e = At(view[u], next[u]) /\ e \in Clients
  BY <1>1, ElementsOf, SlicesFit
<1> HIDE DEF e
<1>3. served'[u] = Append(served[u], e) /\ next'[u] = next[u] + 1 /\ next[u] \in Nat \ {0}
  BY <1>1 DEF TypeOK
<1>4. ASSUME Serving(u) PROVE Serving(u)'
  <2>1. served[u] \in Seq(Clients) /\ Len(served[u]) = next[u] - 1
    BY <1>4 DEF TypeOK, Serving
  <2>2. /\ Len(served'[u]) = next[u] /\ served'[u][next[u]] = e
        /\ \A i \in 1 .. next[u] - 1 : served'[u][i] = served[u][i]
    BY <1>2, <1>3, <2>1
  <2>3. e = copied[u][next[u]]
    BY <1>1, <1>2, <1>4 DEF Serving
  <2>4. \A i \in 1 .. next[u] : served'[u][i] = copied[u][i]
    BY <1>3, <1>4, <2>2, <2>3 DEF Serving
  <2>5. UNCHANGED <<arrays, list, view, copied>>
    BY <1>1
  <2>6. next'[u] \in 1 .. view[u].len + 1 /\ Len(served'[u]) = next'[u] - 1
    BY <1>1, <1>3, <2>2
  <2>7. \A i \in 1 .. next'[u] - 1 : served'[u][i] = copied[u][i]
    <3>1. next'[u] - 1 = next[u]
      BY <1>3
    <3>2. QED BY <2>4, <3>1
  <2>8. /\ Len(copied[u]) = view[u].len
        /\ \A i \in 1 .. view[u].len : arrays[view[u].array].slots[i] = copied[u][i]
        /\ view[u].array = list.array => view[u].len <= list.len
    BY <1>4 DEF Serving, At
  <2>9. QED BY <2>5, <2>6, <2>7, <2>8 DEF Serving, At
<1>5. ASSUME NEW w \in Updates, w # u
      PROVE  UNCHANGED <<view[w], next[w], copied[w], served[w]>>
  BY <1>1, <1>5 DEF TypeOK
<1>6. ASSUME NEW w \in Updates, w # u, Serving(w) PROVE Serving(w)'
  BY <1>1, <1>5, <1>6 DEF Serving, At
<1>7. next'[u] # 0 /\ (u \in disturbed \/ Serving(u))
  BY <1>3 DEF Undisturbed
<1>8. ASSUME NEW w \in Updates
      PROVE  IF next'[w] = 0
             THEN served'[w] = <<>> /\ copied'[w] = <<>> /\ view'[w] = Nil
             ELSE w \in disturbed' \/ Serving(w)'
  <2>1. CASE w = u
    BY <1>1, <1>4, <1>7, <2>1
  <2>2. CASE w # u
    BY <1>1, <1>5, <1>6, <2>2 DEF Undisturbed
  <2>3. QED BY <2>1, <2>2
<1>9. QED BY <1>8 DEF Undisturbed

LEMMA UnregisterDisturbs ==
  ASSUME TypeOK, Undisturbed, NEW c \in Clients, unregisterSSEClient(c)
  PROVE  Undisturbed'
<1>1. /\ UNCHANGED <<view, next, copied, served>>
      /\ disturbed' = disturbed \cup {u \in Updates : next[u] > 0}
  BY DEF unregisterSSEClient
<1>2. \A u \in Updates : next[u] = 0 \/ next[u] > 0
  BY DEF TypeOK
<1>3. QED BY <1>1, <1>2 DEF Undisturbed

LEMMA NextServes == TypeOK /\ Undisturbed /\ [Next]_vars => Undisturbed'
<1> SUFFICES ASSUME TypeOK, Undisturbed, [Next]_vars PROVE Undisturbed'
  OBVIOUS
<1>1. CASE UNCHANGED <<arrays, list, broadcastVars>>
  BY <1>1 DEF broadcastVars, Undisturbed, Serving, At
<1>2. UNCHANGED vars \/ (\E c \in Clients : Stream(c) \/ Peer(c))
        => UNCHANGED <<arrays, list, broadcastVars>>
  BY DEF vars, Stream, Greet, Notice, Block, Unblock, SendDone, Peer, Stall, Resume, Disconnect
<1>3. BeatStart \/ BeatWrite \/ BeatFails \/ BeatSend \/ BeatEnd
        => UNCHANGED <<arrays, list, broadcastVars>>
  BY DEF BeatStart, BeatWrite, BeatFails, BeatSend, BeatEnd, heartbeatVars
<1>4. QED
  BY <1>1, <1>2, <1>3, RegisterServes, UnregisterDisturbs, CopyListServes,
     BroadcastWriteServes DEF Next, Heartbeat

(* A broadcast skips a client, serves one twice or serves one that came      *)
(* later only when a client was unregistered under it.                       *)
THEOREM OnlyUnregistrationsDisturb == Spec => []OnlyRemovalsDisturb
<1>1. Init => Undisturbed
  BY DEF Init, Undisturbed
<1>2. TypeOK /\ Undisturbed => OnlyRemovalsDisturb
  <2> SUFFICES ASSUME TypeOK, Undisturbed, NEW u \in Updates \ disturbed
               PROVE  /\ IsPrefix(served[u], copied[u])
                      /\ next[u] > view[u].len => served[u] = copied[u]
    BY DEF OnlyRemovalsDisturb
  <2>1. served[u] \in Seq(Clients) /\ copied[u] \in Seq(Clients) /\ next[u] \in Nat
    BY DEF TypeOK
  <2>2. CASE next[u] = 0
    <3>1. served[u] = copied[u]
      BY <2>2 DEF Undisturbed
    <3>2. QED BY <2>1, <3>1 DEF IsPrefix
  <2>3. CASE next[u] # 0
    <3>1. Serving(u) /\ view[u].len \in Nat
      BY <2>3, SlicesFit DEF Undisturbed, Slices
    <3>2. /\ Len(served[u]) <= Len(copied[u]) /\ Len(served[u]) = next[u] - 1
          /\ \A i \in 1 .. Len(served[u]) : served[u][i] = copied[u][i]
      BY <2>1, <3>1 DEF Serving
    <3>3. SubSeq(copied[u], 1, Len(served[u])) = SubSeq(served[u], 1, Len(served[u]))
      BY <2>1, <3>2
    <3>4. ASSUME next[u] > view[u].len PROVE served[u] = copied[u]
      <4>1. Len(served[u]) = Len(copied[u])
        BY <2>1, <3>1, <3>4 DEF Serving
      <4>2. QED BY <2>1, <3>2, <4>1, SeqEqual
    <3>5. QED BY <3>2, <3>3, <3>4 DEF IsPrefix
  <2>4. QED BY <2>2, <2>3
<1>3. QED BY <1>1, <1>2, InitType, NextType, NextServes, PTL DEF Spec

-----------------------------------------------------------------------------
(* The deadlock of the heartbeat *)

\* While the heartbeat holds the mutex it is at an index of the list, or past it.
BeatInside ==
  /\ beat.index \in Nat \ {0}
  /\ beat.at = "send" => beat.index \in 1 .. list.len

LEMMA NextBeatInside == TypeOK /\ BeatInside /\ [Next]_vars => BeatInside'
<1> SUFFICES ASSUME TypeOK, BeatInside, [Next]_vars PROVE BeatInside'
  OBVIOUS
<1>1. beat \in [at: {"sleep", "write", "send"}, index: Nat] /\ list.len \in Nat
  BY DEF TypeOK, Slices
<1>2. ASSUME UNCHANGED <<beat, list>> PROVE BeatInside'
  BY <1>2 DEF BeatInside
<1>3. ASSUME MutexFree, UNCHANGED beat PROVE BeatInside'
  BY <1>3 DEF MutexFree, BeatInside
<1>4. ASSUME NEW c \in Clients, Register(c) \/ unregisterSSEClient(c) PROVE BeatInside'
  BY <1>3, <1>4 DEF Register, unregisterSSEClient
<1>5. ASSUME NEW c \in Clients, Stream(c) \/ Peer(c) PROVE BeatInside'
  BY <1>2, <1>5 DEF Stream, Greet, Notice, Block, Unblock, SendDone, Peer, Stall, Resume,
       Disconnect
<1>6. CASE BeatStart \/ BeatEnd
  BY <1>6 DEF BeatStart, BeatEnd, Idle, BeatInside
<1>7. CASE BeatWrite \/ BeatSend
  BY <1>1, <1>7 DEF BeatWrite, BeatSend, BeatInside
<1>8. CASE BeatFails
  BY <1>1, <1>8 DEF BeatFails, BeatInside, heartbeatVars
<1>9. ASSUME NEW u \in Updates, CopyList(u) \/ BroadcastWrite(u) PROVE BeatInside'
  BY <1>2, <1>9 DEF CopyList, BroadcastWrite
<1>10. CASE UNCHANGED vars
  BY <1>2, <1>10 DEF vars
<1>11. QED BY <1>4, <1>5, <1>6, <1>7, <1>8, <1>9, <1>10 DEF Next, Heartbeat

LEMMA StuckStays ==
  TypeOK /\ BeatInside /\ Next /\ Stuck => Stuck' /\ UNCHANGED <<list, view>>
<1> SUFFICES ASSUME TypeOK, BeatInside, Next, Stuck PROVE Stuck' /\ UNCHANGED <<list, view>>
  OBVIOUS
<1> DEFINE b == Beaten
<1>1. /\ b \in Clients /\ handler[b] = "closing" /\ pump[b] \in {"sending", "done"}
      /\ beat.at = "send"
  BY ElementsOf, SlicesFit DEF Stuck, BeatInside, Beaten
<1>2. ASSUME UNCHANGED <<arrays, list, beat, view>>, handler'[b] = "closing",
             pump'[b] \in {"sending", "done"}
      PROVE  Stuck' /\ UNCHANGED <<list, view>>
  <2>1. Beaten' = Beaten
    BY <1>2 DEF Beaten, Elements
  <2>2. QED BY <1>1, <1>2, <2>1 DEF Stuck
<1> HIDE DEF b
<1>3. ~MutexFree
  BY <1>1 DEF MutexFree
<1>4. \A c \in Clients : ~Register(c) /\ ~unregisterSSEClient(c)
  BY <1>3 DEF Register, unregisterSSEClient
<1>5. \A u \in Updates : ~CopyList(u)
  BY <1>3 DEF CopyList
<1>6. ~BeatStart /\ ~BeatWrite /\ ~BeatFails /\ ~BeatEnd
  BY <1>1 DEF BeatStart, BeatWrite, BeatFails, BeatEnd
<1>7. ~BeatSend
  BY <1>1 DEF BeatSend, b
<1>8. ASSUME NEW c \in Clients, Stream(c) \/ Peer(c)
      PROVE  Stuck' /\ UNCHANGED <<list, view>>
  <2>1. CASE Greet(c) \/ SendDone(c)
    <3>1. handler'[b] = "closing" /\ pump'[b] \in {"sending", "done"}
      BY <1>1, <2>1 DEF Greet, SendDone, TypeOK
    <3>2. QED BY <1>2, <2>1, <3>1 DEF Greet, SendDone, broadcastVars
  <2>2. CASE Notice(c) \/ Block(c) \/ Unblock(c)
    <3>1. handler'[b] = "closing" /\ pump'[b] \in {"sending", "done"}
      BY <1>1, <2>2 DEF Notice, Block, Unblock, TypeOK
    <3>2. QED BY <1>2, <2>2, <3>1 DEF Notice, Block, Unblock, broadcastVars
  <2>3. CASE Peer(c)
    BY <1>1, <1>2, <2>3 DEF Peer, Stall, Resume, Disconnect, broadcastVars
  <2>4. QED BY <1>8, <2>1, <2>2, <2>3 DEF Stream
<1>9. ASSUME NEW u \in Updates, BroadcastWrite(u) PROVE Stuck' /\ UNCHANGED <<list, view>>
  BY <1>1, <1>2, <1>9 DEF BroadcastWrite, streamVars
<1>10. QED BY <1>4, <1>5, <1>6, <1>7, <1>8, <1>9 DEF Next, Heartbeat

(* Once the heartbeat waits for a client nobody listens for, it waits for ever, *)
(* and holds the mutex of all polls.                                          *)
THEOREM HeartbeatNeverRecovers == Spec => DeadlockIsFinal
<1>1. Init => BeatInside
  BY DEF Init, Idle, BeatInside
<1>2. TypeOK /\ BeatInside /\ [Next]_vars => [Stuck => Stuck' /\ UNCHANGED <<list, view>>]_vars
  BY StuckStays
<1>3. QED BY <1>1, <1>2, InitType, NextType, NextBeatInside, PTL DEF Spec, DeadlockIsFinal
=============================================================================
