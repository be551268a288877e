--------------------------- MODULE Clients_proofs ---------------------------
(***************************************************************************)
(* The two client programs, the chat page of the console and the desktop   *)
(* shell: proofs for any number of messages, both modes of the page, and   *)
(* every number of retries.                                                *)
(***************************************************************************)
EXTENDS Playground, DesktopShell, SequenceTheorems, WellFoundedInduction, TLAPS

-----------------------------------------------------------------------------
(* Lists of messages.                                                      *)

\* A list whose keys have been given out (up to n), each to one message, in
\* which only the assistant's messages wait.
Sound(list, n) ==
    /\ list \in Seq(Message)
    /\ Len(list) <= n
    /\ \A i, j \in DOMAIN list : list[i].key = list[j].key => i = j
    /\ \A i \in DOMAIN list :
          /\ list[i].key <= n
          /\ list[i].status \in InFlight => list[i].from = "assistant"

\* No answer in another one's message.
Apart(list) == \A i \in DOMAIN list : list[i].text \subseteq {Typed, list[i].key}

\* All but the last message have ended.
Body(list) == \A i \in DOMAIN list : i < Len(list) => list[i].status \notin InFlight

\* All messages have ended.
Settled(list) == \A i \in DOMAIN list : list[i].status \notin InFlight

\* Message m stands for o: the same message as it was, or with a text typed by
\* the user.
StandsFor(m, o) ==
    /\ m.key = o.key /\ m.status = o.status /\ m.from = o.from
    /\ m.text = o.text \/ m.text = {Typed}

\* Every message of list stands for one of old or is a new one, with a key
\* above n, without an answer yet; only the last one may wait for it.
Carries(list, old, n) ==
    \A i \in DOMAIN list :
        \/ \E j \in DOMAIN old : StandsFor(list[i], old[j])
        \/ /\ list[i].key > n
           /\ list[i].text \subseteq {Typed}
           /\ i < Len(list) => list[i].status \notin InFlight

\* The last message of list may have changed into new.
LEMMA UpdateLast ==
  ASSUME NEW list \in Seq(Message), NEW new,
         list # <<>> => new \in Message
  PROVE  LET u == updateLastAssistantMessage(list, new)
         IN  /\ u \in Seq(Message) /\ Len(u) = Len(list) /\ DOMAIN u = DOMAIN list
             /\ \A i \in DOMAIN list : i < Len(list) => u[i] = list[i]
             /\ list # <<>> =>
                   /\ Len(list) \in DOMAIN list
                   /\ u[Len(list)] = IF list[Len(list)].from = "assistant"
                                     THEN new ELSE list[Len(list)]
  <1> DEFINE u == updateLastAssistantMessage(list, new)
  <1>1. Len(list) \in Nat /\ DOMAIN list = 1..Len(list)
    BY LenProperties
  <1>2. CASE list = <<>>
    <2>1. u = list
      BY <1>2 DEF updateLastAssistantMessage
    <2>2. Len(list) = 0
      BY <1>2
    <2> QED BY <2>1, <2>2, <1>1, <1>2
  <1>3. CASE list # <<>>
    <2>1. Len(list) \in 1..Len(list)
      BY <1>3, <1>1, EmptySeq
    <2>2. CASE list[Len(list)].from = "assistant"
      <3>1. u = [list EXCEPT ![Len(list)] = new]
        BY <1>3, <2>2 DEF updateLastAssistantMessage, Last
      <3>2. new \in Message
        BY <1>3
      <3>3. /\ u \in Seq(Message) /\ Len(u) = Len(list)
            /\ \A j \in 1..Len(list) : u[j] = IF j = Len(list) THEN new ELSE list[j]
        BY <3>1, <3>2, <2>1, ExceptSeq
      <3>4. DOMAIN u = 1..Len(u)
        BY <3>3, LenProperties
      <3> HIDE DEF u
      <3>5. Len(list) \in DOMAIN list /\ u[Len(list)] = new /\ DOMAIN u = DOMAIN list
        BY <3>3, <3>4, <2>1, <1>1
      <3>6. \A i \in DOMAIN list : i < Len(list) => u[i] = list[i]
        BY <3>3, <1>1
      <3> QED BY <3>3, <3>5, <3>6, <2>2 DEF u
    <2>3. CASE list[Len(list)].from # "assistant"
      <3>1. u = list
        BY <1>3, <2>3 DEF updateLastAssistantMessage, Last
      <3> QED BY <3>1, <2>1, <2>3, <1>1
    <2> QED BY <2>2, <2>3
  <1> QED BY <1>2, <1>3

\* The length and the positions of a sound list.
LEMMA SoundShape ==
  ASSUME NEW list, NEW n \in Nat, Sound(list, n)
  PROVE  /\ list \in Seq(Message) /\ Len(list) \in Nat /\ DOMAIN list = 1..Len(list)
         /\ \A i \in DOMAIN list : list[i] \in Message /\ list[i].key \in Nat
         /\ list # <<>> => Len(list) \in DOMAIN list
  <1>1. list \in Seq(Message)
    BY DEF Sound
  <1>2. Len(list) \in Nat /\ DOMAIN list = 1..Len(list)
    BY <1>1, LenProperties
  <1>3. list # <<>> => Len(list) \in DOMAIN list
    BY <1>1, <1>2, EmptySeq
  <1>4. \A i \in DOMAIN list : list[i] \in Message
    BY <1>1, <1>2, ElementOfSeq
  <1>5. \A m \in Message : m.key \in Nat
    BY PlaygroundAssumption DEF Message, Keys
  <1> QED BY <1>1, <1>2, <1>3, <1>4, <1>5

\* A list updated at its last message keeps its shape.
LEMMA UpdateSound ==
  ASSUME NEW n \in Nat, NEW list, Sound(list, n), NEW new,
         list # <<>> => /\ new \in Message
                        /\ new.key = list[Len(list)].key
                        /\ new.from = list[Len(list)].from
  PROVE  Sound(updateLastAssistantMessage(list, new), n)
  <1> DEFINE u == updateLastAssistantMessage(list, new)
  <1>1. /\ list \in Seq(Message) /\ Len(list) \in Nat /\ DOMAIN list = 1..Len(list)
        /\ list # <<>> => Len(list) \in DOMAIN list
    BY SoundShape
  <1>2. /\ u \in Seq(Message) /\ Len(u) = Len(list) /\ DOMAIN u = DOMAIN list
        /\ \A i \in DOMAIN list : i < Len(list) => u[i] = list[i]
        /\ list # <<>> => u[Len(list)] = IF list[Len(list)].from = "assistant"
                                         THEN new ELSE list[Len(list)]
    BY <1>1, UpdateLast
  <1> HIDE DEF u
  <1>3. ASSUME NEW i \in DOMAIN list
        PROVE  /\ u[i].key = list[i].key
               /\ u[i].status \in InFlight => u[i].from = "assistant"
    <2>1. CASE i < Len(list)
      BY <2>1, <1>2 DEF Sound
    <2>2. CASE i = Len(list)
      <3>1. list # <<>>
        BY <2>2, <1>1
      <3> QED BY <3>1, <2>2, <1>2 DEF Sound
    <2> QED BY <1>1, <2>1, <2>2
  <1>4. \A i, j \in DOMAIN u : u[i].key = u[j].key => i = j
    BY <1>3, <1>2 DEF Sound
  <1>5. Sound(u, n)
    BY <1>2, <1>3, <1>4 DEF Sound
  <1> QED BY <1>5 DEF u

\* A prefix of a sound list.
LEMMA PrefixOf ==
  ASSUME NEW n \in Nat, NEW list, Sound(list, n), NEW k \in 0..Len(list)
  PROVE  /\ Sound(SubSeq(list, 1, k), n)
         /\ Len(SubSeq(list, 1, k)) = k
         /\ \A i \in 1..k : SubSeq(list, 1, k)[i] = list[i] /\ i \in DOMAIN list
  <1> DEFINE s == SubSeq(list, 1, k)
  <1>1. /\ list \in Seq(Message) /\ Len(list) \in Nat /\ DOMAIN list = 1..Len(list)
        /\ \A i \in DOMAIN list : list[i] \in Message
    BY SoundShape
  <1>2. k \in Int /\ 1 \in Int /\ k \in Nat /\ k <= Len(list) /\ \A i \in 1..k : i \in DOMAIN list
    BY <1>1
  <1>3. \A i \in 1..k : list[i] \in Message
    BY <1>1, <1>2
  <1>4. /\ s \in Seq(Message)
        /\ Len(s) = IF 1 <= k THEN k - 1 + 1 ELSE 0
        /\ \A i \in 1..k - 1 + 1 : s[i] = list[1 + i - 1]
    BY <1>2, <1>3, SubSeqProperties
  <1> HIDE DEF s
  <1>5. Len(s) = k /\ \A i \in 1..k : s[i] = list[i]
    BY <1>4, <1>2
  <1>6. DOMAIN s = 1..k
    BY <1>4, <1>5, LenProperties
  <1>7. Sound(s, n)
    <2>1. Len(s) <= n
      BY <1>5, <1>2, <1>1 DEF Sound
    <2> QED BY <2>1, <1>4, <1>5, <1>6, <1>2 DEF Sound
  <1> QED BY <1>5, <1>7, <1>2 DEF s

\* A message with the next key is put at the end.
LEMMA PutLast ==
  ASSUME NEW n \in Nat, NEW list, Sound(list, n), NEW m \in Message, m.key = n + 1,
         m.status \in InFlight => m.from = "assistant"
  PROVE  /\ Sound(list \o <<m>>, n + 1)
         /\ Len(list \o <<m>>) = Len(list) + 1
         /\ \A i \in DOMAIN list : (list \o <<m>>)[i] = list[i]
         /\ (list \o <<m>>)[Len(list) + 1] = m
         /\ DOMAIN (list \o <<m>>) = 1..(Len(list) + 1)
  <1> DEFINE t == <<m>>
             s == list \o t
  <1>1. /\ list \in Seq(Message) /\ Len(list) \in Nat /\ DOMAIN list = 1..Len(list)
        /\ \A i \in DOMAIN list : list[i].key \in Nat
    BY SoundShape
  <1>2. t \in Seq(Message) /\ Len(t) = 1 /\ t[1] = m
    OBVIOUS
  <1> HIDE DEF t
  <1>3. /\ s \in Seq(Message)
        /\ Len(s) = Len(list) + Len(t)
        /\ \A i \in 1..Len(list) + Len(t) :
              s[i] = IF i <= Len(list) THEN list[i] ELSE t[i - Len(list)]
    BY <1>1, <1>2, ConcatProperties
  <1> HIDE DEF s
  <1>4. Len(s) = Len(list) + 1 /\ DOMAIN s = 1..(Len(list) + 1)
    BY <1>1, <1>2, <1>3, LenProperties
  <1>5. \A i \in DOMAIN list : s[i] = list[i] /\ i \in DOMAIN s /\ i < Len(s)
    BY <1>1, <1>2, <1>3, <1>4
  <1>6. s[Len(list) + 1] = m
    <2>1. s[Len(list) + 1] = t[Len(list) + 1 - Len(list)]
      BY <1>1, <1>2, <1>3
    <2> QED BY <2>1, <1>1, <1>2
  <1>7. ASSUME NEW i \in DOMAIN s
        PROVE  (i \in DOMAIN list /\ s[i] = list[i]) \/ (i = Len(list) + 1 /\ s[i] = m)
    <2>1. i \in DOMAIN list \/ i = Len(list) + 1
      BY <1>1, <1>4
    <2> QED BY <2>1, <1>5, <1>6
  <1>8. \A i \in DOMAIN list : list[i].key <= n
    BY DEF Sound
  <1>9. Sound(s, n + 1)
    <2>1. Len(s) <= n + 1
      BY <1>1, <1>4 DEF Sound
    <2>2. ASSUME NEW i \in DOMAIN s
          PROVE  s[i].key <= n + 1 /\ (s[i].status \in InFlight => s[i].from = "assistant")
      <3>1. CASE i \in DOMAIN list /\ s[i] = list[i]
        BY <3>1, <1>1, <1>8 DEF Sound
      <3>2. CASE i = Len(list) + 1 /\ s[i] = m
        BY <3>2
      <3> QED BY <3>1, <3>2, <1>7
    <2>3. ASSUME NEW i \in DOMAIN s, NEW j \in DOMAIN s, s[i].key = s[j].key PROVE i = j
      <3>1. CASE i \in DOMAIN list /\ j \in DOMAIN list
        BY <3>1, <2>3, <1>5 DEF Sound
      <3>2. CASE i \notin DOMAIN list
        <4>1. i = Len(list) + 1 /\ s[i].key = n + 1
          BY <3>2, <1>7
        <4>2. j \notin DOMAIN list
          BY <4>1, <2>3, <1>1, <1>5, <1>8
        <4> QED BY <4>1, <4>2, <1>7
      <3>3. CASE j \notin DOMAIN list
        <4>1. j = Len(list) + 1 /\ s[j].key = n + 1
          BY <3>3, <1>7
        <4>2. i \notin DOMAIN list
          BY <4>1, <2>3, <1>1, <1>5, <1>8
        <4> QED BY <4>1, <4>2, <1>7
      <3> QED BY <3>1, <3>2, <3>3
    <2> QED BY <2>1, <2>2, <2>3, <1>3 DEF Sound
  <1> QED BY <1>4, <1>5, <1>6, <1>9 DEF s, t

\* A message is removed.
LEMMA Removal ==
  ASSUME NEW n \in Nat, NEW list, Sound(list, n), NEW k \in DOMAIN list
  PROVE  Sound(RemoveAt(list, k), n) /\ Carries(RemoveAt(list, k), list, n)
  <1> DEFINE a == SubSeq(list, 1, k - 1)
             b == SubSeq(list, k + 1, Len(list))
             s == a \o b
  <1>1. /\ list \in Seq(Message) /\ Len(list) \in Nat /\ DOMAIN list = 1..Len(list)
        /\ \A i \in DOMAIN list : list[i] \in Message
    BY SoundShape
  <1>2. k \in Nat /\ 1 <= k /\ k <= Len(list)
    BY <1>1
  <1>3. a \in Seq(Message) /\ Len(a) = k - 1 /\ \A i \in 1..k - 1 : a[i] = list[i]
    <2>1. k - 1 \in 0..Len(list)
      BY <1>1, <1>2
    <2> QED BY <2>1, PrefixOf DEF Sound
  <1>4. /\ b \in Seq(Message) /\ Len(b) = Len(list) - k
        /\ \A i \in 1..Len(list) - k : b[i] = list[k + i]
    <2>1. k + 1 \in Int /\ Len(list) \in Int
      BY <1>1, <1>2
    <2>2. \A i \in (k + 1)..Len(list) : list[i] \in Message
      BY <1>1, <1>2
    <2>3. /\ b \in Seq(Message)
          /\ Len(b) = IF k + 1 <= Len(list) THEN Len(list) - (k + 1) + 1 ELSE 0
          /\ \A i \in 1..Len(list) - (k + 1) + 1 : b[i] = list[k + 1 + i - 1]
      BY <2>1, <2>2, SubSeqProperties, SMTT(30)
    <2> HIDE DEF b
    <2>4. Len(b) = Len(list) - k
      BY <2>3, <1>1, <1>2
    <2>5. ASSUME NEW i \in 1..Len(list) - k PROVE b[i] = list[k + i]
      <3>1. i \in 1..Len(list) - (k + 1) + 1 /\ k + 1 + i - 1 = k + i
        BY <1>1, <1>2
      <3> QED BY <3>1, <2>3
    <2> QED BY <2>3, <2>4, <2>5
  <1> HIDE DEF a, b
  <1>5. /\ s \in Seq(Message)
        /\ Len(s) = Len(a) + Len(b)
        /\ \A i \in 1..Len(a) + Len(b) : s[i] = IF i <= Len(a) THEN a[i] ELSE b[i - Len(a)]
    BY <1>3, <1>4, ConcatProperties
  <1> HIDE DEF s
  <1>6. Len(s) = Len(list) - 1 /\ DOMAIN s = 1..(Len(list) - 1)
    BY <1>1, <1>2, <1>3, <1>4, <1>5, LenProperties
  <1> DEFINE at(i) == IF i < k THEN i ELSE i + 1
  <1>7. ASSUME NEW i \in DOMAIN s PROVE at(i) \in DOMAIN list /\ s[i] = list[at(i)]
    <2>1. CASE i < k
      <3>0. Len(a) = k - 1 /\ Len(b) = Len(list) - k
        BY <1>3, <1>4
      <3>a. Len(list) \in Nat /\ DOMAIN list = 1..Len(list) /\ i \in 1..(Len(list) - 1)
        BY <1>1, <1>6
      <3>1. /\ i \in 1..k - 1 /\ i <= Len(a) /\ i \in 1..Len(a) + Len(b)
            /\ at(i) = i /\ i \in DOMAIN list
        BY <2>1, <3>0, <3>a, <1>2
      <3>2. s[i] = a[i]
        BY <3>1, <1>5
      <3>3. a[i] = list[i]
        BY <3>1, <1>3
      <3> QED BY <3>1, <3>2, <3>3
    <2>2. CASE ~(i < k)
      <3>0. Len(a) = k - 1 /\ Len(b) = Len(list) - k
        BY <1>3, <1>4
      <3>a. Len(list) \in Nat /\ DOMAIN list = 1..Len(list) /\ i \in 1..(Len(list) - 1)
        BY <1>1, <1>6
      <3> HIDE DEF at
      <3>b. ~(i <= Len(a)) /\ i \in 1..Len(a) + Len(b) /\ i + 1 \in DOMAIN list
        BY <3>0, <3>a, <2>2, <1>2
      <3>c. i - Len(a) \in 1..Len(list) - k /\ k + (i - Len(a)) = i + 1
        BY <3>0, <3>a, <2>2, <1>2
      <3>1. /\ ~(i <= Len(a)) /\ i \in 1..Len(a) + Len(b) /\ at(i) = i + 1 /\ i + 1 \in DOMAIN list
            /\ i - Len(a) \in 1..Len(list) - k /\ k + (i - Len(a)) = i + 1
        BY <2>2, <3>b, <3>c DEF at
      <3>2. s[i] = b[i - Len(a)]
        BY <3>1, <1>5
      <3>3. b[i - Len(a)] = list[k + (i - Len(a))]
        BY <3>1, <1>4
      <3> QED BY <3>1, <3>2, <3>3
    <2> QED BY <2>1, <2>2
  <1>8. \A i, j \in DOMAIN s : at(i) = at(j) => i = j
    BY <1>6, <1>2, <1>1
  <1> HIDE DEF at
  <1>9. Sound(s, n)
    <2>1. Len(s) <= n
      BY <1>6, <1>1 DEF Sound
    <2> QED BY <2>1, <1>5, <1>7, <1>8 DEF Sound
  <1>10. Carries(s, list, n)
    BY <1>7 DEF Carries, StandsFor
  <1>11. RemoveAt(list, k) = s
    BY DEF s, a, b, RemoveAt
  <1> QED BY <1>9, <1>10, <1>11

\* The text of a message is replaced.
LEMMA Editing ==
  ASSUME NEW n \in Nat, NEW list, Sound(list, n), NEW k \in DOMAIN list
  PROVE  LET e == [list EXCEPT ![k].text = {Typed}]
         IN  /\ Sound(e, n) /\ Carries(e, list, n) /\ Len(e) = Len(list)
             /\ \A i \in DOMAIN e : i \in DOMAIN list /\ StandsFor(e[i], list[i])
  <1> DEFINE new == [list[k] EXCEPT !.text = {Typed}]
             e == [list EXCEPT ![k].text = {Typed}]
  <1>1. /\ list \in Seq(Message) /\ Len(list) \in Nat /\ DOMAIN list = 1..Len(list)
        /\ list[k] \in Message
    BY SoundShape
  <1>2. /\ new \in Message /\ new.key = list[k].key /\ new.status = list[k].status
        /\ new.from = list[k].from /\ new.text = {Typed}
    BY <1>1 DEF Message
  <1>3. e = [list EXCEPT ![k] = new]
    OBVIOUS
  <1> HIDE DEF new, e
  <1>4. /\ e \in Seq(Message) /\ Len(e) = Len(list)
        /\ \A i \in 1..Len(list) : e[i] = IF i = k THEN new ELSE list[i]
    <2>1. k \in 1..Len(list)
      BY <1>1
    <2> QED BY <2>1, <1>1, <1>2, <1>3, ExceptSeq
  <1>5. DOMAIN e = DOMAIN list
    BY <1>4, <1>1, LenProperties
  <1>6. \A i \in DOMAIN list : e[i].key = list[i].key /\ e[i].status = list[i].status
                               /\ e[i].from = list[i].from
                               /\ (e[i].text = list[i].text \/ e[i].text = {Typed})
    BY <1>1, <1>2, <1>4
  <1>7. Sound(e, n)
    BY <1>4, <1>5, <1>6 DEF Sound
  <1>8. \A i \in DOMAIN e : i \in DOMAIN list /\ StandsFor(e[i], list[i])
    BY <1>5, <1>6 DEF StandsFor
  <1>9. Carries(e, list, n)
    BY <1>8 DEF Carries
  <1> QED BY <1>4, <1>7, <1>8, <1>9 DEF e

\* A set of positions that is not empty has a largest one.
LEMMA Largest ==
  ASSUME NEW n \in Nat, NEW T, T \subseteq 1..n, T # {}
  PROVE  \E i \in T : \A j \in T : j <= i
  <1> DEFINE R == OpToRel(<, Nat)
             U == {n - i : i \in T}
  <1>1. IsWellFoundedOn(R, Nat)
    BY NatLessThanWellFounded, Zenon
  <1>2. \A x, y \in Nat : <<x, y>> \in R <=> x < y
    BY DEF OpToRel
  <1>3. \A i \in T : n - i \in Nat
    OBVIOUS
  <1>4. U \subseteq Nat /\ U # {}
    BY <1>3
  <1> HIDE DEF R, U
  <1>5. PICK x \in U : \A y \in U : ~(<<y, x>> \in R)
    BY <1>1, <1>4, WFMin, Zenon
  <1>6. \A y \in U : ~(y < x)
    BY <1>2, <1>4, <1>5
  <1>7. PICK i \in T : x = n - i
    BY DEF U
  <1>8. \A j \in T : n - j \in U
    BY DEF U
  <1>9. \A j \in T : j <= i
    BY <1>6, <1>7, <1>8
  <1> QED BY <1>9

\* What a reload makes of a stored list.
LEMMA Sanitized ==
  ASSUME NEW n \in Nat, NEW list, Sound(list, n)
  PROVE  LET s == sanitizeMessagesOnLoad(list)
         IN  /\ Sound(s, n)
             /\ Len(s) = Len(list) /\ DOMAIN s = DOMAIN list
             /\ \A i \in DOMAIN list :
                   /\ s[i].key = list[i].key
                   /\ list[i].status \notin InFlight => s[i] = list[i]
             /\ Apart(list) => Apart(s)
             /\ Body(list) => Settled(s)
  <1> DEFINE s == sanitizeMessagesOnLoad(list)
             stuck == {i \in DOMAIN list : list[i].status \in InFlight}
             k == CHOOSE i \in stuck : \A j \in stuck : j <= i
             new == IF list[k].text # {} THEN Completed(list[k]) ELSE Erroneous(list[k])
  <1>1. /\ list \in Seq(Message) /\ Len(list) \in Nat /\ DOMAIN list = 1..Len(list)
        /\ \A i \in DOMAIN list : list[i] \in Message
    BY SoundShape
  <1>2. CASE stuck = {}
    <2>1. s = list
      BY <1>2 DEF sanitizeMessagesOnLoad
    <2>2. Settled(list)
      BY <1>2 DEF Settled
    <2> QED BY <2>1, <2>2
  <1>3. CASE stuck # {}
    <2>1. k \in stuck
      <3>1. stuck \subseteq 1..Len(list)
        BY <1>1
      <3>2. \E i \in stuck : \A j \in stuck : j <= i
        BY <3>1, <1>1, <1>3, Largest
      <3> QED BY <3>2
    <2>2. s = [list EXCEPT ![k] = new]
      BY <1>3 DEF sanitizeMessagesOnLoad
    <2>3. list[k] \in Message
      BY <1>1, <2>1
    <2>4. /\ new \in Message /\ new.key = list[k].key /\ new.from = list[k].from
          /\ new.status \notin InFlight
          /\ new.text = list[k].text \/ new.text = {Typed}
      BY <2>3 DEF Message, Completed, Erroneous, InFlight
    <2>5. Body(list) => \A i \in stuck : i = k
      BY <2>1, <1>1 DEF Body
    <2> HIDE DEF new, k
    <2>6. /\ s \in Seq(Message) /\ Len(s) = Len(list)
          /\ \A i \in 1..Len(list) : s[i] = IF i = k THEN new ELSE list[i]
      <3>1. k \in 1..Len(list)
        BY <1>1, <2>1
      <3> HIDE DEF s
      <3> QED BY <3>1, <2>2, <2>4, <1>1, ExceptSeq
    <2>7. DOMAIN s = DOMAIN list
      BY <2>6, <1>1, LenProperties
    <2> HIDE DEF s
    <2>8. Sound(s, n)
      <3>1. \A i \in DOMAIN list : s[i].key = list[i].key /\ s[i].from = list[i].from
        BY <2>4, <2>6, <1>1
      <3>2. \A i \in DOMAIN list : s[i].status \in InFlight => list[i].status \in InFlight
        BY <2>4, <2>6, <1>1
      <3> QED BY <3>1, <3>2, <2>6, <2>7 DEF Sound
    <2>9. Apart(list) => Apart(s)
      BY <2>4, <2>6, <2>7, <1>1 DEF Apart
    <2>10. Body(list) => Settled(s)
      BY <2>4, <2>5, <2>6, <2>7, <1>1 DEF Settled
    <2>11. \A i \in DOMAIN list : /\ s[i].key = list[i].key
                                  /\ list[i].status \notin InFlight => s[i] = list[i]
      BY <2>4, <2>6, <2>1, <1>1
    <2> QED BY <2>6, <2>7, <2>8, <2>9, <2>10, <2>11 DEF s
  <1> QED BY <1>2, <1>3

-----------------------------------------------------------------------------
(* Lists that end in a new question for the endpoint.                      *)

\* A list made from old, with keys up to n, that ends in the message for the
\* answer to request k.
Asks(list, old, n, k) ==
    /\ Sound(list, k)
    /\ Carries(list, old, n)
    /\ list # <<>>
    /\ list[Len(list)] = createLoadingAssistantMessage(k)

\* What the two constructors make.
LEMMA NewMessages ==
  ASSUME NEW k \in Keys
  PROVE  /\ createLoadingAssistantMessage(k) \in Message
         /\ createLoadingAssistantMessage(k).key = k
         /\ createLoadingAssistantMessage(k).from = "assistant"
         /\ createLoadingAssistantMessage(k).status = "loading"
         /\ createLoadingAssistantMessage(k).text = {}
         /\ createUserMessage(k) \in Message
         /\ createUserMessage(k).key = k
         /\ createUserMessage(k).status = "complete"
         /\ createUserMessage(k).text = {Typed}
  BY DEF createLoadingAssistantMessage, createUserMessage, Message, InFlight, Typed

\* A loading message is put behind a list that carries old.
LEMMA AskLast ==
  ASSUME NEW n \in Nat, NEW old, NEW b \in Nat, n <= b, NEW base, Sound(base, b),
         b + 1 <= MaxKeys,
         \A i \in DOMAIN base : \/ \E j \in DOMAIN old : StandsFor(base[i], old[j])
                                \/ /\ base[i].key > n
                                   /\ base[i].text \subseteq {Typed}
                                   /\ base[i].status \notin InFlight
  PROVE  Asks(base \o <<createLoadingAssistantMessage(b + 1)>>, old, n, b + 1)
  <1> DEFINE m == createLoadingAssistantMessage(b + 1)
             s == base \o <<m>>
  <1>1. b + 1 \in Keys
    BY PlaygroundAssumption DEF Keys
  <1>2. /\ m \in Message /\ m.key = b + 1 /\ m.from = "assistant"
        /\ m.status = "loading" /\ m.text = {}
    BY <1>1, NewMessages
  <1> HIDE DEF m
  <1>3. /\ Sound(s, b + 1)
        /\ Len(s) = Len(base) + 1
        /\ \A i \in DOMAIN base : s[i] = base[i]
        /\ s[Len(base) + 1] = m
        /\ DOMAIN s = 1..(Len(base) + 1)
    BY <1>2, PutLast
  <1> HIDE DEF s
  <1>4. Len(base) \in Nat /\ DOMAIN base = 1..Len(base)
    BY SoundShape
  <1>5. s # <<>> /\ s[Len(s)] = m
    <2>1. Len(<<>>) = 0
      OBVIOUS
    <2> QED BY <2>1, <1>3, <1>4
  <1>6. Carries(s, old, n)
    <2> SUFFICES ASSUME NEW i \in DOMAIN s
                 PROVE  \/ \E j \in DOMAIN old : StandsFor(s[i], old[j])
                        \/ /\ s[i].key > n
                           /\ s[i].text \subseteq {Typed}
                           /\ i < Len(s) => s[i].status \notin InFlight
      BY DEF Carries
    <2>1. CASE i \in DOMAIN base
      BY <2>1, <1>3
    <2>2. CASE i = Len(base) + 1
      BY <2>2, <1>2, <1>3
    <2> QED BY <2>1, <2>2, <1>3, <1>4
  <1> QED BY <1>3, <1>5, <1>6 DEF Asks, s, m

\* Two messages are put at the end one after the other.
LEMMA TwoLast ==
  ASSUME NEW list \in Seq(Message), NEW u \in Message, NEW m \in Message
  PROVE  list \o <<u, m>> = (list \o <<u>>) \o <<m>>
  <1> DEFINE a == <<u, m>>
             b == <<u>>
             c == <<m>>
             p == list \o a
             q == list \o b
             s == q \o c
  <1>1. /\ a \in Seq(Message) /\ Len(a) = 2 /\ a[1] = u /\ a[2] = m
        /\ b \in Seq(Message) /\ Len(b) = 1 /\ b[1] = u
        /\ c \in Seq(Message) /\ Len(c) = 1 /\ c[1] = m
    OBVIOUS
  <1>2. Len(list) \in Nat /\ list \in Seq(Message)
    BY LenProperties
  <1> HIDE DEF a, b, c
  <1>3. /\ p \in Seq(Message) /\ Len(p) = Len(list) + Len(a)
        /\ \A i \in 1..Len(list) + Len(a) :
              p[i] = IF i <= Len(list) THEN list[i] ELSE a[i - Len(list)]
    BY <1>1, <1>2, ConcatProperties
  <1>4. /\ q \in Seq(Message) /\ Len(q) = Len(list) + Len(b)
        /\ \A i \in 1..Len(list) + Len(b) :
              q[i] = IF i <= Len(list) THEN list[i] ELSE b[i - Len(list)]
    BY <1>1, <1>2, ConcatProperties
  <1> HIDE DEF p, q
  <1>5. /\ s \in Seq(Message) /\ Len(s) = Len(q) + Len(c)
        /\ \A i \in 1..Len(q) + Len(c) :
              s[i] = IF i <= Len(q) THEN q[i] ELSE c[i - Len(q)]
    <2>1. q \in Seq(Message) /\ c \in Seq(Message)
      BY <1>1, <1>4
    <2> QED BY <2>1, ConcatProperties
  <1> HIDE DEF s
  <1>6. Len(p) = Len(list) + 2 /\ Len(q) = Len(list) + 1 /\ Len(s) = Len(list) + 2
    BY <1>1, <1>2, <1>3, <1>4, <1>5
  <1>7. ASSUME NEW i \in 1..Len(p) PROVE p[i] = s[i]
    <2>1. CASE i <= Len(list)
      <3>1. p[i] = list[i]
        BY <2>1, <1>2, <1>1, <1>3, <1>6
      <3>2. q[i] = list[i]
        BY <2>1, <1>2, <1>1, <1>4, <1>6
      <3>3. s[i] = q[i]
        BY <2>1, <1>2, <1>1, <1>5, <1>6
      <3> QED BY <3>1, <3>2, <3>3
    <2>2. CASE i = Len(list) + 1
      <3>1. p[i] = a[i - Len(list)]
        BY <2>2, <1>2, <1>1, <1>3, <1>6
      <3>2. q[i] = b[i - Len(list)]
        BY <2>2, <1>2, <1>1, <1>4, <1>6, SMTT(30)
      <3>3. s[i] = q[i]
        BY <2>2, <1>2, <1>1, <1>5, <1>6, SMTT(30)
      <3>4. i - Len(list) = 1
        BY <2>2, <1>2
      <3> QED BY <3>1, <3>2, <3>3, <3>4, <1>1
    <2>3. CASE i = Len(list) + 2
      <3>1. p[i] = a[i - Len(list)]
        BY <2>3, <1>2, <1>1, <1>3, <1>6
      <3>2. s[i] = c[i - Len(q)]
        <4>1. i \in 1..Len(q) + Len(c) /\ ~(i <= Len(q))
          BY <2>3, <1>2, <1>1, <1>6
        <4> QED BY <4>1, <1>5
      <3>3. i - Len(list) = 2 /\ i - Len(q) = 1
        BY <2>3, <1>2, <1>6
      <3> QED BY <3>1, <3>2, <3>3, <1>1
    <2> QED BY <2>1, <2>2, <2>3, <1>2, <1>6
  <1>8. p = s
    BY <1>3, <1>5, <1>6, <1>7, SeqEqual
  <1> QED BY <1>8 DEF p, q, s, a, b, c

\* handleSendMessage.
LEMMA AskSend ==
  ASSUME NEW n \in Nat, NEW list, Sound(list, n), n + 2 <= MaxKeys
  PROVE  Asks(list \o <<createUserMessage(n + 1), createLoadingAssistantMessage(n + 2)>>,
              list, n, n + 2)
  <1> DEFINE u == createUserMessage(n + 1)
             m == createLoadingAssistantMessage(n + 2)
             base == list \o <<u>>
  <1>1. n + 1 \in Keys /\ n + 2 \in Keys /\ n + 1 \in Nat
    BY PlaygroundAssumption DEF Keys
  <1>2. /\ u \in Message /\ u.key = n + 1 /\ u.status = "complete" /\ u.text = {Typed}
        /\ m \in Message
    BY <1>1, NewMessages
  <1>3. /\ list \in Seq(Message) /\ Len(list) \in Nat /\ DOMAIN list = 1..Len(list)
    BY SoundShape
  <1> HIDE DEF u, m
  <1>4. u.status \notin InFlight
    BY <1>2 DEF InFlight
  <1>5. /\ Sound(base, n + 1)
        /\ Len(base) = Len(list) + 1
        /\ \A i \in DOMAIN list : base[i] = list[i]
        /\ base[Len(list) + 1] = u
        /\ DOMAIN base = 1..(Len(list) + 1)
    BY <1>2, <1>4, PutLast
  <1>6. list \o <<u, m>> = base \o <<m>>
    BY <1>2, <1>3, TwoLast
  <1> HIDE DEF base
  <1>7. ASSUME NEW i \in DOMAIN base
        PROVE  \/ \E j \in DOMAIN list : StandsFor(base[i], list[j])
               \/ /\ base[i].key > n
                  /\ base[i].text \subseteq {Typed}
                  /\ base[i].status \notin InFlight
    <2>1. CASE i \in DOMAIN list
      BY <2>1, <1>5 DEF StandsFor
    <2>2. CASE i = Len(list) + 1
      BY <2>2, <1>2, <1>4, <1>5
    <2> QED BY <2>1, <2>2, <1>3, <1>5
  <1>8. n + 1 + 1 = n + 2 /\ n <= n + 1 /\ n + 1 + 1 <= MaxKeys
    OBVIOUS
  <1>9. Asks(base \o <<createLoadingAssistantMessage(n + 1 + 1)>>, list, n, n + 1 + 1)
    BY <1>1, <1>5, <1>7, <1>8, AskLast
  <1> QED BY <1>6, <1>8, <1>9 DEF m, u

\* handleRegenerateMessage: the messages before the i-th are kept.
LEMMA AskAgain ==
  ASSUME NEW n \in Nat, NEW list, Sound(list, n), n < MaxKeys, NEW k \in DOMAIN list
  PROVE  Asks(SubSeq(list, 1, k - 1) \o <<createLoadingAssistantMessage(n + 1)>>,
              list, n, n + 1)
  <1> DEFINE base == SubSeq(list, 1, k - 1)
  <1>1. Len(list) \in Nat /\ DOMAIN list = 1..Len(list)
    BY SoundShape
  <1>2. k - 1 \in 0..Len(list) /\ n + 1 <= MaxKeys /\ n <= n
    BY <1>1, PlaygroundAssumption
  <1>3. /\ Sound(base, n) /\ Len(base) = k - 1
        /\ \A i \in 1..k - 1 : base[i] = list[i] /\ i \in DOMAIN list
    BY <1>2, PrefixOf
  <1> HIDE DEF base
  <1>4. DOMAIN base = 1..k - 1
    BY <1>3, SoundShape
  <1>5. \A i \in DOMAIN base : \E j \in DOMAIN list : StandsFor(base[i], list[j])
    BY <1>3, <1>4 DEF StandsFor
  <1>6. Asks(base \o <<createLoadingAssistantMessage(n + 1)>>, list, n, n + 1)
    BY <1>2, <1>3, <1>5, AskLast
  <1> QED BY <1>6 DEF base

\* SaveEditAndSubmit: the messages up to the edited one are kept.
LEMMA AskEdited ==
  ASSUME NEW n \in Nat, NEW list, Sound(list, n), n < MaxKeys, NEW k \in DOMAIN list
  PROVE  Asks(SubSeq([list EXCEPT ![k].text = {Typed}], 1, k)
                  \o <<createLoadingAssistantMessage(n + 1)>>, list, n, n + 1)
  <1> DEFINE e == [list EXCEPT ![k].text = {Typed}]
             base == SubSeq(e, 1, k)
  <1>1. Len(list) \in Nat /\ DOMAIN list = 1..Len(list)
    BY SoundShape
  <1>2. /\ Sound(e, n) /\ Len(e) = Len(list)
        /\ \A i \in DOMAIN e : i \in DOMAIN list /\ StandsFor(e[i], list[i])
    BY Editing
  <1> HIDE DEF e
  <1>3. k \in 0..Len(e) /\ n + 1 <= MaxKeys /\ n <= n
    BY <1>1, <1>2, PlaygroundAssumption
  <1>4. /\ Sound(base, n) /\ Len(base) = k
        /\ \A i \in 1..k : base[i] = e[i] /\ i \in DOMAIN e
    BY <1>2, <1>3, PrefixOf
  <1> HIDE DEF base
  <1>5. DOMAIN base = 1..k
    BY <1>4, SoundShape
  <1>6. \A i \in DOMAIN base : \E j \in DOMAIN list : StandsFor(base[i], list[j])
    BY <1>2, <1>4, <1>5
  <1>7. Asks(base \o <<createLoadingAssistantMessage(n + 1)>>, list, n, n + 1)
    BY <1>3, <1>4, <1>6, AskLast
  <1> QED BY <1>7 DEF base, e

-----------------------------------------------------------------------------
(* What a list inherits from the one it was made from.                     *)

\* Whatever has ended in old ends the same way in list; r: a race excuses
\* everything but an error.
KeepsFinal(old, list, r) ==
    \A i \in DOMAIN old, j \in DOMAIN list :
        old[i].key = list[j].key =>
            /\ old[i].status = "error" => list[j].status = "error"
            /\ ~r /\ old[i].status = "complete" => list[j].status = "complete"

\* Texts that do not mix, ended messages, and ends.
LEMMA Inherits ==
  ASSUME NEW n \in Nat, NEW old, Sound(old, n), NEW list, Carries(list, old, n), NEW r
  PROVE  /\ Apart(old) => Apart(list)
         /\ Settled(old) => Body(list)
         /\ Settled(old) /\ Sound(list, n) => Settled(list)
         /\ KeepsFinal(old, list, r)
  <1>1. ASSUME Apart(old), NEW i \in DOMAIN list PROVE list[i].text \subseteq {Typed, list[i].key}
    BY <1>1 DEF Apart, Carries, StandsFor
  <1>2. ASSUME Settled(old), NEW i \in DOMAIN list, i < Len(list)
        PROVE  list[i].status \notin InFlight
    BY <1>2 DEF Settled, Carries, StandsFor
  <1>3. ASSUME Settled(old), Sound(list, n), NEW i \in DOMAIN list
        PROVE  list[i].status \notin InFlight
    <2>1. list[i].key <= n /\ list[i].key \in Nat
      BY <1>3, SoundShape DEF Sound
    <2>2. ~(list[i].key > n)
      BY <2>1
    <2> QED BY <2>2, <1>3 DEF Settled, Carries, StandsFor
  <1>4. ASSUME NEW i \in DOMAIN old, NEW j \in DOMAIN list, old[i].key = list[j].key
        PROVE  list[j].status = old[i].status
    <2>1. old[i].key <= n /\ old[i].key \in Nat
      BY SoundShape DEF Sound
    <2>2. ~(list[j].key > n)
      BY <2>1, <1>4
    <2>3. PICK l \in DOMAIN old : StandsFor(list[j], old[l])
      BY <2>2 DEF Carries
    <2>4. l = i
      BY <2>3, <1>4 DEF StandsFor, Sound
    <2> QED BY <2>3, <2>4 DEF StandsFor
  <1>5. KeepsFinal(old, list, r)
    BY <1>4 DEF KeepsFinal
  <1> QED BY <1>1, <1>2, <1>3, <1>5 DEF Apart, Body, Settled

\* A list keeps its own ends.
LEMMA KeepsItself ==
  ASSUME NEW n, NEW list, Sound(list, n), NEW r PROVE KeepsFinal(list, list, r)
  BY DEF Sound, KeepsFinal

\* So does one that has the same keys and only changes messages that wait.
LEMMA KeepsMore ==
  ASSUME NEW old, NEW list, NEW new, NEW r, KeepsFinal(old, list, r),
         DOMAIN new = DOMAIN list,
         \A i \in DOMAIN list : /\ new[i].key = list[i].key
                                /\ list[i].status \in {"error", "complete"} =>
                                      new[i].status = list[i].status
  PROVE  KeepsFinal(old, new, r)
  BY DEF KeepsFinal

-----------------------------------------------------------------------------
(* The state of the page.                                                  *)

\* The types of everything but the lists.
Scalars ==
    /\ stream \in BOOLEAN
    /\ shown.isGenerating \in BOOLEAN
    /\ net \in [Keys -> {"unused", "open", "closed"}]
    /\ source \in Keys \cup {None}
    /\ editing \in Keys \cup {None}
    /\ complete \in BOOLEAN
    /\ made \in 0..MaxKeys
    /\ raced \in BOOLEAN

\* What holds of the current list, of the one on display and of the stored one.
ListInv(list) ==
    /\ Sound(list, made)
    /\ ~raced => Apart(list)
    /\ stream /\ ~raced => Body(list)

\* PlaygroundInv and SettledWhenIdle, list by list.
ChatInv ==
    /\ Scalars
    /\ ListInv(messages) /\ ListInv(shown.messages) /\ ListInv(storage)
    /\ OneStream
    /\ StopOffered
    /\ AnswerComesLast
    /\ stream /\ ~raced /\ source = None => Settled(messages)
    /\ stream /\ ~raced /\ ~shown.isGenerating => Settled(shown.messages)
    /\ RenderFollows

\* What FinalStays says of one step.
FinalStep ==
    \A m \in Range(shown.messages), n \in Range(shown'.messages) :
        stream /\ m.key = n.key =>
            /\ m.status = "error" => n.status = "error"
            /\ ~raced' /\ m.status = "complete" => n.status = "complete"

\* Zero is not a key.
LEMMA NoneIsNoKey == None \notin Keys /\ \A k \in Keys : k \in Nat
  BY PlaygroundAssumption DEF None, Keys

\* The page starts empty.
LEMMA InitChat == Init => ChatInv
  <1> SUFFICES ASSUME Init PROVE ChatInv
    OBVIOUS
  <1>1. /\ messages = <<>> /\ storage = <<>> /\ source = None /\ made = 0 /\ raced = FALSE
        /\ shown = [messages |-> <<>>, isGenerating |-> FALSE]
        /\ net = [k \in Keys |-> "unused"]
    BY DEF Init
  <1>2. shown.messages = <<>> /\ shown.isGenerating = FALSE /\ \A k \in Keys : net[k] # "open"
    BY <1>1
  <1>3. Scalars
    <2>1. stream \in BOOLEAN /\ complete \in BOOLEAN /\ editing = None
      BY PlaygroundAssumption DEF Init
    <2>2. made \in 0..MaxKeys
      BY <1>1, PlaygroundAssumption
    <2>3. net \in [Keys -> {"unused", "open", "closed"}]
      BY <1>1
    <2> QED BY <2>1, <2>2, <2>3, <1>1, <1>2 DEF Scalars
  <1>4. <<>> \in Seq(Message) /\ Len(<<>>) = 0 /\ DOMAIN <<>> = {}
    OBVIOUS
  <1>5. Sound(<<>>, 0) /\ Apart(<<>>) /\ Body(<<>>) /\ Settled(<<>>)
    BY <1>4 DEF Sound, Apart, Body, Settled
  <1>6. ListInv(messages) /\ ListInv(shown.messages) /\ ListInv(storage)
    BY <1>1, <1>2, <1>5 DEF ListInv
  <1>7. OneStream /\ StopOffered /\ AnswerComesLast
    BY <1>1, <1>2 DEF OneStream, StopOffered, AnswerComesLast
  <1>8. RenderFollows
    BY <1>1, <1>2, <1>4 DEF RenderFollows, Follows
  <1> QED BY <1>1, <1>2, <1>3, <1>5, <1>6, <1>7, <1>8 DEF ChatInv

\* What follows from the list on display keeping its ends.
LEMMA FinalByKeeping ==
  ASSUME NEW list, shown'.messages = list, stream => KeepsFinal(shown.messages, list, raced')
  PROVE  FinalStep
  BY DEF FinalStep, KeepsFinal, Range

\* A click ends with one list everywhere.
LEMMA Clicked ==
  ASSUME NEW list, NEW src \in Keys \cup {None}, Click(list, src), stream' = stream,
         stream \in BOOLEAN, net' \in [Keys -> {"unused", "open", "closed"}],
         editing' \in Keys \cup {None}, complete' \in BOOLEAN, made' \in 0..MaxKeys,
         raced' \in BOOLEAN,
         Sound(list, made'),
         ~raced' => Apart(list),
         stream /\ ~raced' => Body(list),
         stream /\ ~raced' /\ src = None => Settled(list),
         \A k \in Keys : ~raced' /\ net'[k] = "open" =>
             /\ stream => src = k
             /\ list # <<>> /\ list[Len(list)].key = k
             /\ stream => list[Len(list)].status \in InFlight,
         stream => KeepsFinal(shown.messages, list, raced')
  PROVE  ChatInv' /\ FinalStep
  <1>1. /\ messages' = list /\ storage' = list /\ source' = src
        /\ shown'.messages = list /\ shown'.isGenerating = (src # None)
    BY DEF Click
  <1>2. Scalars'
    BY <1>1 DEF Scalars
  <1>3. ListInv(messages)' /\ ListInv(shown.messages)' /\ ListInv(storage)'
    BY <1>1 DEF ListInv
  <1>4. OneStream' /\ StopOffered' /\ AnswerComesLast'
    BY <1>1 DEF OneStream, StopOffered, AnswerComesLast
  <1>5. /\ (stream /\ ~raced /\ source = None => Settled(messages))'
        /\ (stream /\ ~raced /\ ~shown.isGenerating => Settled(shown.messages))'
    BY <1>1
  <1>6. RenderFollows'
    BY <1>1 DEF RenderFollows, Follows
  <1>7. FinalStep
    BY <1>1, FinalByKeeping
  <1> QED BY <1>2, <1>3, <1>4, <1>5, <1>6, <1>7 DEF ChatInv

\* An action that passes the guards unraced meets a page at rest.
LEMMA Quiet ==
  ASSUME ChatInv, Guarded \/ Unguarded
  PROVE  /\ raced' \in BOOLEAN
         /\ ~raced' => /\ ~raced /\ source = None
                       /\ \A k \in Keys : net[k] # "open"
                       /\ stream => Settled(shown.messages)
  <1>1. raced \in BOOLEAN /\ stream \in BOOLEAN
    BY DEF ChatInv, Scalars
  <1>2. CASE Guarded
    <2>1. ~shown.isGenerating /\ raced' = (raced \/ (~stream /\ Busy))
      BY <1>2 DEF Guarded
    <2>2. source = None
      BY <2>1 DEF ChatInv, StopOffered
    <2>3. raced' \in BOOLEAN
      BY <2>1, <1>1, Zenon
    <2>4. ASSUME ~raced' PROVE ~raced /\ (stream \/ ~Busy)
      BY <2>4, <2>1, <1>1
    <2>5. ASSUME ~raced', NEW k \in Keys PROVE net[k] # "open"
      <3>1. CASE stream
        BY <3>1, <2>2, <2>4, <2>5, NoneIsNoKey DEF ChatInv, OneStream
      <3>2. CASE ~Busy
        BY <3>2 DEF Busy
      <3> QED BY <3>1, <3>2, <2>4, <2>5
    <2> QED BY <2>1, <2>2, <2>3, <2>4, <2>5 DEF ChatInv
  <1>3. CASE Unguarded
    <2>1. raced' = (raced \/ Busy)
      BY <1>3 DEF Unguarded
    <2>2. raced' \in BOOLEAN
      BY <2>1, <1>1, Zenon
    <2>3. ASSUME ~raced' PROVE ~raced /\ ~Busy
      BY <2>3, <2>1, <1>1
    <2>4. ~Busy => /\ messages = shown.messages /\ source = None
                   /\ \A k \in Keys : net[k] # "open"
      BY DEF Busy, Pending
    <2> QED BY <2>2, <2>3, <2>4 DEF ChatInv
  <1> QED BY <1>2, <1>3

\* Sending a list that ends in a new question.
LEMMA Sending ==
  ASSUME ChatInv, Guarded \/ Unguarded, NEW list, NEW k \in Keys, k > made, made' = k,
         Asks(list, shown.messages, made, k), sendChat(list, k), stream' = stream,
         editing' \in Keys \cup {None}
  PROVE  ChatInv' /\ FinalStep
  <1>1. /\ raced' \in BOOLEAN
        /\ ~raced' => /\ ~raced /\ source = None
                      /\ \A j \in Keys : net[j] # "open"
                      /\ stream => Settled(shown.messages)
    BY Quiet
  <1>2. /\ stream \in BOOLEAN /\ made \in Nat /\ made' \in 0..MaxKeys /\ source \in Keys \cup {None}
        /\ net \in [Keys -> {"unused", "open", "closed"}] /\ complete \in BOOLEAN
        /\ Sound(shown.messages, made) /\ (~raced => Apart(shown.messages))
    BY PlaygroundAssumption DEF ChatInv, Scalars, ListInv, Keys
  <1>3. /\ Sound(list, k) /\ Carries(list, shown.messages, made) /\ list # <<>>
        /\ list[Len(list)] = createLoadingAssistantMessage(k)
    BY DEF Asks
  <1>4. /\ ~raced' => Apart(list)
        /\ stream /\ ~raced' => Body(list)
        /\ KeepsFinal(shown.messages, list, raced')
    <2>1. PICK old : old = shown.messages
      OBVIOUS
    <2>2. PICK r : r = raced'
      OBVIOUS
    <2>3. PICK n \in Nat : n = made
      BY <1>2
    <2>4. /\ Apart(old) => Apart(list)
          /\ Settled(old) => Body(list)
          /\ KeepsFinal(old, list, r)
      BY <2>1, <2>3, <1>2, <1>3, Inherits
    <2> QED BY <2>1, <2>2, <2>4, <1>1, <1>2
  <1>5. k \in Nat
    BY NoneIsNoKey
  <1>6. /\ list \in Seq(Message) /\ Len(list) \in DOMAIN list /\ Len(list) \in Nat
        /\ DOMAIN list = 1..Len(list)
        /\ list[Len(list)] \in Message
    BY <1>3, <1>5, SoundShape
  <1>7. /\ list[Len(list)].key = k /\ list[Len(list)].from = "assistant"
        /\ list[Len(list)].status = "loading" /\ list[Len(list)].text = {}
    BY <1>3, NewMessages
  <1>8. CASE stream /\ net' = [net EXCEPT ![k] = "open"] /\ complete' = FALSE /\ Click(list, k)
    <2>1. net' \in [Keys -> {"unused", "open", "closed"}]
      BY <1>8, <1>2
    <2>2. \A j \in Keys : net'[j] = "open" => j = k \/ net[j] = "open"
      BY <1>8, <1>2
    <2>3. \A j \in Keys : ~raced' /\ net'[j] = "open" => j = k
      BY <2>2, <1>1
    <2>4. list[Len(list)].status \in InFlight
      BY <1>7 DEF InFlight
    <2>5. k \in Keys \cup {None} /\ k # None /\ complete' \in BOOLEAN
      BY <1>8, NoneIsNoKey
    <2> QED BY <1>1, <1>2, <1>3, <1>4, <1>7, <1>8, <2>1, <2>3, <2>4, <2>5, Clicked
  <1>9. CASE /\ stream /\ net' = [net EXCEPT ![k] = "closed"] /\ complete' = FALSE
             /\ Click(updateLastAssistantMessage(list, Erroneous(Last(list))), None)
    <2> DEFINE new == Erroneous(list[Len(list)])
               u == updateLastAssistantMessage(list, new)
    <2>1. /\ new \in Message /\ new.key = k /\ new.from = "assistant" /\ new.status = "error"
          /\ new.text = {Typed}
      BY <1>6, <1>7 DEF Erroneous, Message
    <2>2. Click(u, None)
      BY <1>9 DEF Last
    <2> HIDE DEF new
    <2>3. Sound(u, k)
      BY <2>1, <1>3, <1>5, <1>7, UpdateSound
    <2>4. /\ u \in Seq(Message) /\ Len(u) = Len(list) /\ DOMAIN u = DOMAIN list
          /\ \A i \in DOMAIN list : i < Len(list) => u[i] = list[i]
          /\ u[Len(list)] = new
      BY <2>1, <1>3, <1>6, <1>7, UpdateLast
    <2> HIDE DEF u
    <2>5. \A i \in DOMAIN list : i = Len(list) \/ i < Len(list)
      BY <1>6
    <2>6. ~raced' => Apart(u)
      BY <2>1, <2>4, <2>5, <1>4 DEF Apart
    <2>7. stream /\ ~raced' => Settled(u)
      BY <2>1, <2>4, <2>5, <1>4 DEF Settled, Body, InFlight
    <2>8. Settled(u) => Body(u)
      BY DEF Settled, Body
    <2>9. KeepsFinal(shown.messages, u, raced')
      <3>1. \A i \in DOMAIN shown.messages : shown.messages[i].key <= made
                                            /\ shown.messages[i].key \in Nat
        BY <1>2, SoundShape DEF Sound
      <3>2. \A i \in DOMAIN shown.messages : shown.messages[i].key # k
        BY <3>1, <1>2, <1>5
      <3>3. \A j \in DOMAIN u : u[j].key = k \/ u[j] = list[j]
        BY <2>1, <2>4, <2>5
      <3> QED BY <3>2, <3>3, <2>4, <1>4 DEF KeepsFinal
    <2>10. /\ net' \in [Keys -> {"unused", "open", "closed"}] /\ complete' \in BOOLEAN
           /\ \A j \in Keys : net'[j] = "open" => net[j] = "open"
      BY <1>9, <1>2
    <2>11. \A j \in Keys : ~(~raced' /\ net'[j] = "open")
      BY <2>10, <1>1
    <2>12. Sound(u, made')
      BY <2>3
    <2> QED BY <1>1, <1>2, <2>2, <2>6, <2>7, <2>8, <2>9, <2>10, <2>11, <2>12, Clicked
  <1>10. CASE /\ ~stream /\ net' = [net EXCEPT ![k] = "open"] /\ complete' = complete
              /\ Click(list, source)
    <2>1. PICK src \in Keys \cup {None} : src = source
      BY <1>2
    <2>2. Click(list, src)
      BY <1>10, <2>1
    <2>3. net' \in [Keys -> {"unused", "open", "closed"}]
      BY <1>10, <1>2
    <2>4. \A j \in Keys : net'[j] = "open" => j = k \/ net[j] = "open"
      BY <1>10, <1>2
    <2>5. \A j \in Keys : ~raced' /\ net'[j] = "open" => j = k
      BY <2>4, <1>1
    <2>6. complete' \in BOOLEAN /\ Sound(list, made')
      BY <1>10, <1>2, <1>3
    <2> QED BY <1>1, <1>2, <1>3, <1>4, <1>7, <1>10, <2>2, <2>3, <2>5, <2>6, Clicked
  <1> QED BY <1>8, <1>9, <1>10 DEF sendChat

\* A click that rewrites the list on display and sends nothing.
LEMMA Rewriting ==
  ASSUME ChatInv, Guarded \/ Unguarded, NEW list, Sound(list, made),
         Carries(list, shown.messages, made), Click(list, source),
         UNCHANGED <<stream, net, complete, made>>, editing' \in Keys \cup {None}
  PROVE  ChatInv' /\ FinalStep
  <1>1. /\ raced' \in BOOLEAN
        /\ ~raced' => /\ ~raced /\ source = None
                      /\ \A j \in Keys : net[j] # "open"
                      /\ stream => Settled(shown.messages)
    BY Quiet
  <1>2. /\ stream \in BOOLEAN /\ made \in Nat /\ made \in 0..MaxKeys /\ source \in Keys \cup {None}
        /\ net \in [Keys -> {"unused", "open", "closed"}] /\ complete \in BOOLEAN
        /\ Sound(shown.messages, made) /\ (~raced => Apart(shown.messages))
    BY DEF ChatInv, Scalars, ListInv
  <1>3. PICK src \in Keys \cup {None} : src = source
    BY <1>2
  <1>4. /\ ~raced' => Apart(list)
        /\ stream /\ ~raced' => Body(list) /\ Settled(list)
        /\ KeepsFinal(shown.messages, list, raced')
    <2>1. PICK old : old = shown.messages
      OBVIOUS
    <2>2. PICK r : r = raced'
      OBVIOUS
    <2>3. PICK n \in Nat : n = made
      BY <1>2
    <2>4. /\ Apart(old) => Apart(list)
          /\ Settled(old) => Body(list) /\ Settled(list)
          /\ KeepsFinal(old, list, r)
      BY <2>1, <2>3, <1>2, Inherits
    <2> QED BY <2>1, <2>2, <2>4, <1>1, <1>2
  <1>5. \A j \in Keys : ~(~raced' /\ net'[j] = "open")
    BY <1>1
  <1>6. Sound(list, made') /\ made' \in 0..MaxKeys /\ Click(list, src)
    BY <1>2, <1>3
  <1> QED BY <1>1, <1>2, <1>4, <1>5, <1>6, Clicked

\* A list that is ahead of the render keeps the ends that are shown.
LEMMA FollowsKeeps ==
  ASSUME NEW n \in Nat, Sound(shown.messages, n), NEW list, Sound(list, n), Follows(list)
  PROVE  KeepsFinal(shown.messages, list, raced)
  <1> SUFFICES ASSUME NEW i \in DOMAIN shown.messages, NEW j \in DOMAIN list,
                      shown.messages[i].key = list[j].key
               PROVE  /\ shown.messages[i].status = "error" => list[j].status = "error"
                      /\ ~raced /\ shown.messages[i].status = "complete" =>
                            list[j].status = "complete"
    BY DEF KeepsFinal
  <1>1. DOMAIN list = 1..Len(list) /\ DOMAIN shown.messages = 1..Len(shown.messages)
    BY SoundShape
  <1>2. DOMAIN list = DOMAIN shown.messages
    BY <1>1 DEF Follows
  <1>3. shown.messages[j].key = shown.messages[i].key
    BY DEF Follows
  <1>4. i = j
    BY <1>2, <1>3 DEF Sound
  <1> QED BY <1>4 DEF Follows

\* A click that shows the current list, with its last message ended or not.
LEMMA Showing ==
  ASSUME ChatInv, NEW list, Sound(list, made), DOMAIN list = DOMAIN messages,
         Len(list) = Len(messages),
         \A i \in DOMAIN messages :
             /\ list[i].key = messages[i].key
             /\ list[i].text = messages[i].text
             /\ list[i].status = messages[i].status
                    \/ (messages[i].status \in InFlight /\ list[i].status = "complete"),
         NEW src \in {source, None}, Click(list, src), stream' = stream, raced' = raced,
         complete' = complete, made' = made, editing' \in Keys \cup {None},
         net' \in [Keys -> {"unused", "open", "closed"}],
         src = None /\ stream /\ ~raced => Settled(list),
         \A k \in Keys : ~raced /\ net'[k] = "open" =>
             /\ stream => src = k
             /\ list # <<>> /\ list[Len(list)].key = k
             /\ stream => list[Len(list)].status \in InFlight
  PROVE  ChatInv' /\ FinalStep
  <1>1. /\ stream \in BOOLEAN /\ made \in Nat /\ made \in 0..MaxKeys /\ source \in Keys \cup {None}
        /\ raced \in BOOLEAN /\ complete \in BOOLEAN
        /\ Sound(shown.messages, made)
        /\ Sound(messages, made)
        /\ ~raced => Apart(messages)
        /\ stream /\ ~raced => Body(messages)
    BY DEF ChatInv, Scalars, ListInv
  <1>2. ~raced => Apart(list)
    BY <1>1 DEF Apart
  <1>3. stream /\ ~raced => Body(list)
    BY <1>1 DEF Body, InFlight
  <1>4. stream => KeepsFinal(shown.messages, list, raced')
    <2> SUFFICES ASSUME stream PROVE KeepsFinal(shown.messages, list, raced')
      OBVIOUS
    <2>1. KeepsFinal(shown.messages, messages, raced)
      <3>1. Follows(messages)
        BY DEF ChatInv, RenderFollows
      <3> QED BY <3>1, <1>1, FollowsKeeps
    <2>2. \A i \in DOMAIN messages : messages[i].status \in {"error", "complete"} =>
              list[i].status = messages[i].status
      BY DEF InFlight
    <2>3. PICK old : old = shown.messages
      OBVIOUS
    <2>4. PICK r : r = raced
      OBVIOUS
    <2>5. PICK cur : cur = messages
      OBVIOUS
    <2>6. KeepsFinal(old, list, r)
      BY <2>1, <2>2, <2>3, <2>4, <2>5, KeepsMore
    <2> QED BY <2>3, <2>4, <2>6
  <1>5. src \in Keys \cup {None} /\ made' \in 0..MaxKeys /\ Sound(list, made')
        /\ raced' \in BOOLEAN /\ complete' \in BOOLEAN
    BY <1>1
  <1> QED BY <1>1, <1>2, <1>3, <1>4, <1>5, Clicked

\* What updateLastAssistantMessage makes of the current list.
LEMMA UpdateCurrent ==
  ASSUME ChatInv, NEW new,
         messages # <<>> => /\ new \in Message
                            /\ new.key = messages[Len(messages)].key
                            /\ new.from = messages[Len(messages)].from
  PROVE  LET u == updateLastAssistantMessage(messages, new)
         IN  /\ Sound(u, made)
             /\ Len(u) = Len(messages) /\ DOMAIN u = DOMAIN messages
             /\ \A i \in DOMAIN messages :
                   /\ u[i].key = messages[i].key
                   /\ i < Len(messages) \/ i = Len(messages)
                   /\ i < Len(messages) => u[i] = messages[i]
                   /\ i = Len(messages) => u[i] = IF messages[i].from = "assistant"
                                                  THEN new ELSE messages[i]
             /\ messages # <<>> => Len(messages) \in DOMAIN messages
             /\ messages = <<>> => DOMAIN messages = {}
  <1> DEFINE u == updateLastAssistantMessage(messages, new)
  <1>1. made \in Nat /\ Sound(messages, made)
    BY DEF ChatInv, Scalars, ListInv
  <1>2. /\ messages \in Seq(Message) /\ Len(messages) \in Nat /\ DOMAIN messages = 1..Len(messages)
        /\ messages # <<>> => Len(messages) \in DOMAIN messages
    BY <1>1, SoundShape
  <1>3. Sound(u, made)
    BY <1>1, UpdateSound
  <1>4. /\ u \in Seq(Message) /\ Len(u) = Len(messages) /\ DOMAIN u = DOMAIN messages
        /\ \A i \in DOMAIN messages : i < Len(messages) => u[i] = messages[i]
        /\ messages # <<>> => u[Len(messages)] = IF messages[Len(messages)].from = "assistant"
                                                 THEN new ELSE messages[Len(messages)]
    BY <1>2, UpdateLast
  <1>5. messages = <<>> => Len(messages) = 0
    OBVIOUS
  <1> HIDE DEF u
  <1>6. ASSUME NEW i \in DOMAIN messages
        PROVE  /\ i < Len(messages) \/ i = Len(messages)
               /\ messages # <<>>
    BY <1>2, <1>5
  <1>7. ASSUME NEW i \in DOMAIN messages
        PROVE  /\ i = Len(messages) => u[i] = IF messages[i].from = "assistant"
                                              THEN new ELSE messages[i]
               /\ u[i].key = messages[i].key
    BY <1>4, <1>6
  <1> QED BY <1>2, <1>3, <1>4, <1>6, <1>7 DEF u

\* An update that is queued by the request of key k.
LEMMA Queued ==
  ASSUME ChatInv, NEW k \in Keys, net[k] = "open", NEW new,
         messages # <<>> => /\ new \in Message
                            /\ new.key = messages[Len(messages)].key
                            /\ new.from = messages[Len(messages)].from
                            /\ ~raced => new.text \subseteq {Typed, k}
                            /\ messages[Len(messages)].status = "error" /\ stream =>
                                  new.status = "error",
         Queue(updateLastAssistantMessage(messages, new)),
         \/ net' = net /\ source' = source /\ (~raced => new.status \in InFlight)
         \/ /\ net' = [net EXCEPT ![k] = "closed"]
            /\ source' = source
            /\ ~stream
         \/ /\ net' = [net EXCEPT ![k] = "closed"]
            /\ source' = None
            /\ ~raced => new.status \notin InFlight,
         UNCHANGED <<stream, editing, made, raced>>, complete' \in BOOLEAN
  PROVE  ChatInv' /\ FinalStep
  <1> DEFINE u == updateLastAssistantMessage(messages, new)
  <1>1. /\ Sound(u, made)
        /\ Len(u) = Len(messages) /\ DOMAIN u = DOMAIN messages
        /\ \A i \in DOMAIN messages :
              /\ u[i].key = messages[i].key
              /\ i < Len(messages) \/ i = Len(messages)
              /\ i < Len(messages) => u[i] = messages[i]
              /\ i = Len(messages) => u[i] = IF messages[i].from = "assistant"
                                             THEN new ELSE messages[i]
        /\ messages # <<>> => Len(messages) \in DOMAIN messages
        /\ messages = <<>> => DOMAIN messages = {}
    BY UpdateCurrent
  <1>2. /\ messages' = u /\ shown' = shown
        /\ storage' = storage \/ storage' = u
    BY DEF Queue
  <1> HIDE DEF u
  <1>3. /\ Scalars /\ ListInv(messages) /\ ListInv(shown.messages) /\ ListInv(storage)
        /\ OneStream /\ StopOffered /\ AnswerComesLast /\ RenderFollows
    BY DEF ChatInv
  <1>4. /\ net \in [Keys -> {"unused", "open", "closed"}] /\ source \in Keys \cup {None}
        /\ made \in Nat /\ raced \in BOOLEAN /\ stream \in BOOLEAN
        /\ Sound(messages, made) /\ Sound(shown.messages, made)
    BY <1>3 DEF Scalars, ListInv
  <1>5. /\ net' \in [Keys -> {"unused", "open", "closed"}]
        /\ \A j \in Keys : net'[j] = "open" => net[j] = "open"
        /\ source' \in Keys \cup {None} /\ (source' # None => source' = source)
    BY <1>4
  <1>6. Scalars'
    BY <1>2, <1>3, <1>5 DEF Scalars
  \* While nothing has raced the last message is the request's.
  <1>7. ASSUME ~raced
        PROVE  /\ messages # <<>> /\ Len(messages) \in DOMAIN messages
               /\ messages[Len(messages)].key = k
               /\ \A j \in Keys : net[j] = "open" => j = k
               /\ stream => /\ source = k
                            /\ messages[Len(messages)].status \in InFlight
                            /\ u[Len(messages)] = new
    <2>1. /\ messages # <<>> /\ Len(messages) \in DOMAIN messages
          /\ messages[Len(messages)].key = k
          /\ \A j \in Keys : net[j] = "open" => j = k
          /\ stream => /\ source = k
                       /\ messages[Len(messages)].status \in InFlight
      BY <1>7, <1>1, <1>3 DEF AnswerComesLast, OneStream
    <2>2. messages[Len(messages)].status \in InFlight =>
              messages[Len(messages)].from = "assistant"
      BY <2>1, <1>4 DEF Sound
    <2> QED BY <2>1, <2>2, <1>1
  <1>8. ListInv(messages)'
    <2>1. ~raced => Apart(u)
      <3> SUFFICES ASSUME ~raced, NEW i \in DOMAIN u
                   PROVE  u[i].text \subseteq {Typed, u[i].key}
        BY DEF Apart
      <3>1. messages[i].text \subseteq {Typed, messages[i].key}
        BY <1>1, <1>3 DEF ListInv, Apart
      <3>2. CASE u[i] = messages[i]
        BY <3>1, <3>2
      <3>3. CASE u[i] = new /\ i = Len(messages)
        BY <3>3, <1>7, <1>1
      <3> QED BY <3>2, <3>3, <1>1
    <2>2. stream /\ ~raced => Body(u)
      BY <1>1, <1>3 DEF ListInv, Body
    <2> QED BY <2>1, <2>2, <1>1, <1>2 DEF ListInv
  <1>9. ListInv(shown.messages)' /\ ListInv(storage)'
    BY <1>2, <1>3, <1>8 DEF ListInv
  <1>10. StopOffered'
    BY <1>2, <1>3, <1>5 DEF StopOffered
  <1>11. OneStream'
    <2> SUFFICES ASSUME stream, ~raced, NEW j \in Keys, net'[j] = "open" PROVE source' = j
      BY DEF OneStream
    <2>1. j = k /\ source = k
      BY <1>5, <1>7
    <2>2. net'[k] = "open"
      BY <2>1
    <2>3. net' # [net EXCEPT ![k] = "closed"]
      BY <2>2, <1>4
    <2> QED BY <2>1, <2>3
  <1>12. AnswerComesLast'
    <2> SUFFICES ASSUME ~raced, NEW j \in Keys, net'[j] = "open"
                 PROVE  /\ u # <<>> /\ u[Len(u)].key = j
                        /\ stream => u[Len(u)].status \in InFlight
      BY <1>2 DEF AnswerComesLast
    <2>1. j = k /\ net'[k] = "open"
      BY <1>5, <1>7
    <2>2. net' # [net EXCEPT ![k] = "closed"]
      BY <2>1, <1>4
    <2>3. new.status \in InFlight
      BY <2>2
    <2>4. u # <<>>
      <3>1. Len(messages) \in DOMAIN u
        BY <1>1, <1>7
      <3> QED BY <3>1
    <2> QED BY <2>1, <2>3, <2>4, <1>1, <1>7
  <1>13. (stream /\ ~raced /\ source = None => Settled(messages))'
    <2> SUFFICES ASSUME stream, ~raced, source' = None, NEW i \in DOMAIN u
                 PROVE  u[i].status \notin InFlight
      BY <1>2 DEF Settled
    <2>1. source = k /\ k # None
      BY <1>7, NoneIsNoKey
    <2>2. new.status \notin InFlight
      BY <2>1
    <2>3. CASE i < Len(messages)
      BY <2>3, <1>1, <1>3 DEF ListInv, Body
    <2>4. CASE i = Len(messages)
      BY <2>4, <2>2, <1>7
    <2> QED BY <2>3, <2>4, <1>1
  <1>14. (stream /\ ~raced /\ ~shown.isGenerating => Settled(shown.messages))'
    BY <1>2 DEF ChatInv
  <1>15. RenderFollows'
    <2> SUFFICES ASSUME stream PROVE Follows(messages)' /\ Follows(storage)'
      BY DEF RenderFollows
    <2>1. Follows(messages) /\ Follows(storage)
      BY <1>3 DEF RenderFollows
    <2>2. ASSUME NEW i \in DOMAIN u
          PROVE  /\ u[i].key = shown.messages[i].key
                 /\ shown.messages[i].status = "error" => u[i].status = "error"
                 /\ ~raced /\ shown.messages[i].status = "complete" => u[i].status = "complete"
      <3>1. /\ messages[i].key = shown.messages[i].key
            /\ shown.messages[i].status = "error" => messages[i].status = "error"
            /\ ~raced /\ shown.messages[i].status = "complete" => messages[i].status = "complete"
        BY <2>1, <1>1 DEF Follows
      <3>2. CASE u[i] = messages[i]
        BY <3>1, <3>2
      <3>3. CASE i = Len(messages) /\ u[i] = new
        <4>1. messages # <<>>
          BY <1>1
        <4>2. shown.messages[i].status = "error" => u[i].status = "error"
          BY <3>1, <3>3, <4>1
        <4>3. ~raced => messages[i].status # "complete"
          BY <3>3, <1>7 DEF InFlight
        <4> QED BY <4>2, <4>3, <3>1, <1>1
      <3> QED BY <3>2, <3>3, <1>1
    <2>3. Len(u) = Len(shown.messages)
      BY <2>1, <1>1 DEF Follows
    <2> QED BY <2>1, <2>2, <2>3, <1>2 DEF Follows
  <1>16. FinalStep
    <2>1. PICK list : list = shown.messages
      OBVIOUS
    <2>2. PICK r : r = raced'
      OBVIOUS
    <2>3. PICK n : n = made
      OBVIOUS
    <2>4. KeepsFinal(list, list, r)
      BY <2>1, <2>3, <1>4, KeepsItself
    <2> QED BY <2>1, <2>2, <2>4, <1>2, FinalByKeeping
  <1> QED BY <1>6, <1>8, <1>9, <1>10, <1>11, <1>12, <1>13, <1>14, <1>15, <1>16 DEF ChatInv

\* A request that ends, or goes on, without an update of its own.
LEMMA EndedQuietly ==
  ASSUME ChatInv, NEW k \in Keys, net[k] = "open",
         net' = net \/ net' = [net EXCEPT ![k] = "closed"],
         messages' = messages, shown' = shown, storage' \in {storage, messages},
         UNCHANGED <<stream, source, complete, editing, made, raced>>
  PROVE  ChatInv' /\ FinalStep
  <1>1. /\ Scalars /\ ListInv(messages) /\ ListInv(shown.messages) /\ ListInv(storage)
        /\ OneStream /\ StopOffered /\ AnswerComesLast /\ RenderFollows
    BY DEF ChatInv
  <1>2. /\ net' \in [Keys -> {"unused", "open", "closed"}]
        /\ \A j \in Keys : net'[j] = "open" => net[j] = "open"
    BY <1>1 DEF Scalars
  <1>3. Scalars'
    BY <1>1, <1>2 DEF Scalars
  <1>4. ListInv(messages)' /\ ListInv(shown.messages)' /\ ListInv(storage)'
    BY <1>1 DEF ListInv
  <1>5. OneStream' /\ StopOffered' /\ AnswerComesLast'
    BY <1>1, <1>2 DEF OneStream, StopOffered, AnswerComesLast
  <1>6. RenderFollows'
    BY <1>1 DEF RenderFollows, Follows
  <1>7. FinalStep
    <2>1. PICK list : list = shown.messages
      OBVIOUS
    <2>2. PICK r : r = raced'
      OBVIOUS
    <2>3. PICK n : n = made
      OBVIOUS
    <2>4. KeepsFinal(list, list, r)
      BY <2>1, <2>3, <1>1, KeepsItself DEF ListInv
    <2> QED BY <2>1, <2>2, <2>4, FinalByKeeping
  <1> QED BY <1>3, <1>4, <1>5, <1>6, <1>7 DEF ChatInv

-----------------------------------------------------------------------------
(* The actions.                                                            *)

\* handleSubmit and handleSuggestionClick send the list on display with two new
\* messages.
LEMMA SendStep ==
  ASSUME ChatInv, handleSubmit \/ handleSuggestionClick PROVE ChatInv' /\ FinalStep
  <1>1. (Guarded \/ Unguarded) /\ handleSendMessage
    BY DEF handleSubmit, handleSuggestionClick
  <1>2. PICK list : list = shown.messages \o <<createUserMessage(made + 1),
                                createLoadingAssistantMessage(made + 2)>>
    OBVIOUS
  <1>3. PICK n \in Nat : n = made
    BY DEF ChatInv, Scalars
  <1>4. made + 2 <= MaxKeys /\ made' = made + 2 /\ sendChat(list, made + 2) /\ stream' = stream
        /\ editing' = editing
    BY <1>1, <1>2 DEF handleSendMessage
  <1>5. n + 2 \in Keys /\ n + 2 > n
    BY <1>3, <1>4, PlaygroundAssumption DEF Keys
  <1>6. Asks(list, shown.messages, n, n + 2)
    BY <1>2, <1>3, <1>4, AskSend DEF ChatInv, ListInv
  <1>7. editing' \in Keys \cup {None}
    BY <1>4 DEF ChatInv, Scalars
  <1>8. PICK k \in Keys : k = n + 2
    BY <1>5
  <1>9. k > made /\ made' = k /\ Asks(list, shown.messages, made, k) /\ sendChat(list, k)
    BY <1>3, <1>4, <1>5, <1>6, <1>8
  <1> QED BY <1>1, <1>4, <1>7, <1>9, Sending

\* handleRegenerateMessage asks again from before the message.
LEMMA RegenerateStep ==
  ASSUME ChatInv, NEW i \in 1..Len(shown.messages), handleRegenerateMessage(i)
  PROVE  ChatInv' /\ FinalStep
  <1>1. PICK list : list = SubSeq(shown.messages, 1, i - 1)
                               \o <<createLoadingAssistantMessage(made + 1)>>
    OBVIOUS
  <1>2. PICK n \in Nat : n = made
    BY DEF ChatInv, Scalars
  <1>3. Guarded /\ made < MaxKeys /\ made' = made + 1 /\ sendChat(list, made + 1)
        /\ stream' = stream /\ editing' = editing /\ i \in DOMAIN shown.messages
    BY <1>1 DEF handleRegenerateMessage, HasActions
  <1>4. n + 1 \in Keys /\ n + 1 > n
    BY <1>2, <1>3, PlaygroundAssumption DEF Keys
  <1>5. Asks(list, shown.messages, n, n + 1)
    BY <1>1, <1>2, <1>3, AskAgain DEF ChatInv, ListInv
  <1>6. editing' \in Keys \cup {None}
    BY <1>3 DEF ChatInv, Scalars
  <1>7. PICK k \in Keys : k = n + 1
    BY <1>4
  <1>8. k > made /\ made' = k /\ Asks(list, shown.messages, made, k) /\ sendChat(list, k)
    BY <1>2, <1>3, <1>4, <1>5, <1>7
  <1> QED BY <1>3, <1>6, <1>8, Sending

\* SaveEditAndSubmit asks again from the edited message.
LEMMA ResubmitStep ==
  ASSUME ChatInv, NEW i \in 1..Len(shown.messages), SaveEditAndSubmit(i)
  PROVE  ChatInv' /\ FinalStep
  <1>1. PICK list : list = SubSeq(Edited(i), 1, i)
                               \o <<createLoadingAssistantMessage(made + 1)>>
    OBVIOUS
  <1>2. PICK n \in Nat : n = made
    BY DEF ChatInv, Scalars
  <1>3. Unguarded /\ made < MaxKeys /\ made' = made + 1 /\ sendChat(list, made + 1)
        /\ stream' = stream /\ editing' = None /\ i \in DOMAIN shown.messages
    BY <1>1 DEF SaveEditAndSubmit
  <1>4. n + 1 \in Keys /\ n + 1 > n
    BY <1>2, <1>3, PlaygroundAssumption DEF Keys
  <1>5. Asks(list, shown.messages, n, n + 1)
    BY <1>1, <1>2, <1>3, AskEdited DEF ChatInv, ListInv, Edited
  <1>6. PICK k \in Keys : k = n + 1
    BY <1>4
  <1>7. k > made /\ made' = k /\ Asks(list, shown.messages, made, k) /\ sendChat(list, k)
    BY <1>2, <1>3, <1>4, <1>5, <1>6
  <1> QED BY <1>3, <1>7, Sending

\* handleDeleteMessage.
LEMMA DeleteStep ==
  ASSUME ChatInv, NEW i \in 1..Len(shown.messages), handleDeleteMessage(i)
  PROVE  ChatInv' /\ FinalStep
  <1>1. PICK list : list = RemoveAt(shown.messages, i)
    OBVIOUS
  <1>2. Guarded /\ i \in DOMAIN shown.messages /\ Click(list, source)
        /\ UNCHANGED <<stream, net, complete, editing, made>>
    BY <1>1 DEF handleDeleteMessage, HasActions
  <1>3. made \in Nat /\ Sound(shown.messages, made) /\ editing \in Keys \cup {None}
    BY DEF ChatInv, Scalars, ListInv
  <1>4. Sound(list, made) /\ Carries(list, shown.messages, made)
    BY <1>1, <1>2, <1>3, Removal
  <1> QED BY <1>2, <1>3, <1>4, Rewriting

\* SaveEdit.
LEMMA SaveStep ==
  ASSUME ChatInv, NEW i \in 1..Len(shown.messages), SaveEdit(i)
  PROVE  ChatInv' /\ FinalStep
  <1>1. PICK list : list = Edited(i)
    OBVIOUS
  <1>2. Unguarded /\ i \in DOMAIN shown.messages /\ Click(list, source) /\ editing' = None
        /\ UNCHANGED <<stream, net, complete, made>>
    BY <1>1 DEF SaveEdit
  <1>3. made \in Nat /\ Sound(shown.messages, made)
    BY DEF ChatInv, Scalars, ListInv
  <1>4. Sound(list, made) /\ Carries(list, shown.messages, made)
    BY <1>1, <1>2, <1>3, Editing DEF Edited
  <1> QED BY <1>2, <1>4, Rewriting

\* Opening and closing the editor render the current list.
LEMMA EditorStep ==
  ASSUME ChatInv, Click(messages, source), editing' \in Keys \cup {None},
         UNCHANGED <<stream, net, complete, made, raced>>
  PROVE  ChatInv' /\ FinalStep
  <1>1. PICK list : list = messages
    OBVIOUS
  <1>2. PICK src \in {source, None} : src = source
    OBVIOUS
  <1>3. /\ Sound(list, made) /\ net \in [Keys -> {"unused", "open", "closed"}]
        /\ Click(list, src)
    BY <1>1, <1>2 DEF ChatInv, ListInv, Scalars
  <1>4. src = None /\ stream /\ ~raced => Settled(list)
    BY <1>1, <1>2 DEF ChatInv
  <1>5. \A k \in Keys : ~raced /\ net'[k] = "open" =>
             /\ stream => src = k
             /\ list # <<>> /\ list[Len(list)].key = k
             /\ stream => list[Len(list)].status \in InFlight
    BY <1>1, <1>2 DEF ChatInv, OneStream, AnswerComesLast
  <1> QED BY <1>1, <1>3, <1>4, <1>5, Showing

\* handleEditMessage opens the editor of a message that is shown.
LEMMA OpenStep ==
  ASSUME ChatInv, NEW i \in 1..Len(shown.messages), handleEditMessage(i)
  PROVE  ChatInv' /\ FinalStep
  <1>1. shown.messages[i] \in Message
    BY SoundShape DEF ChatInv, ListInv, Scalars, handleEditMessage, HasActions
  <1>2. editing' \in Keys \cup {None}
    BY <1>1 DEF handleEditMessage, Message
  <1> QED BY <1>2, EditorStep DEF handleEditMessage

\* handleEditOpenChange.
LEMMA CloseStep ==
  ASSUME ChatInv, handleEditOpenChange PROVE ChatInv' /\ FinalStep
  BY EditorStep DEF handleEditOpenChange

\* stopGeneration ends the last message and closes the stream that is referenced.
LEMMA StopStep ==
  ASSUME ChatInv, stopGeneration PROVE ChatInv' /\ FinalStep
  <1>1. PICK new : new = StopFinal(Last(messages))
    OBVIOUS
  <1>2. PICK list : list = updateLastAssistantMessage(messages, new)
    OBVIOUS
  <1>3. /\ made \in Nat /\ Sound(messages, made) /\ editing \in Keys \cup {None}
        /\ source \in Keys \cup {None} /\ net \in [Keys -> {"unused", "open", "closed"}]
        /\ stream /\ ~raced => Body(messages)
    BY DEF ChatInv, Scalars, ListInv
  <1>4. /\ Click(list, None) /\ UNCHANGED <<stream, complete, editing, made, raced>>
        /\ net' = IF source # None THEN [net EXCEPT ![source] = "closed"] ELSE net
    BY <1>1, <1>2 DEF stopGeneration
  <1>5. messages # <<>> =>
          /\ new \in Message
          /\ new.key = messages[Len(messages)].key
          /\ new.from = messages[Len(messages)].from
          /\ new.text = messages[Len(messages)].text
          /\ new.status \notin InFlight
          /\ new.status = messages[Len(messages)].status
                 \/ (messages[Len(messages)].status \in InFlight /\ new.status = "complete")
    <2> SUFFICES ASSUME messages # <<>>
                 PROVE  /\ new \in Message
                        /\ new.key = messages[Len(messages)].key
                        /\ new.from = messages[Len(messages)].from
                        /\ new.text = messages[Len(messages)].text
                        /\ new.status \notin InFlight
                        /\ new.status = messages[Len(messages)].status
                               \/ (messages[Len(messages)].status \in InFlight /\ new.status = "complete")
      OBVIOUS
    <2>1. messages[Len(messages)] \in Message
      BY <1>3, SoundShape
    <2> QED BY <2>1, <1>1 DEF Last, StopFinal, Completed, Message, InFlight
  <1>6. /\ Sound(list, made)
        /\ Len(list) = Len(messages) /\ DOMAIN list = DOMAIN messages
        /\ \A i \in DOMAIN messages :
              /\ list[i].key = messages[i].key
              /\ i < Len(messages) \/ i = Len(messages)
              /\ i < Len(messages) => list[i] = messages[i]
              /\ i = Len(messages) => list[i] = IF messages[i].from = "assistant"
                                                THEN new ELSE messages[i]
        /\ messages = <<>> => DOMAIN messages = {}
    BY <1>2, <1>5, UpdateCurrent
  <1>7. ASSUME NEW i \in DOMAIN messages
        PROVE  /\ list[i].key = messages[i].key
               /\ list[i].text = messages[i].text
               /\ list[i].status = messages[i].status
                      \/ (messages[i].status \in InFlight /\ list[i].status = "complete")
    BY <1>5, <1>6
  <1>8. stream /\ ~raced => Settled(list)
    <2> SUFFICES ASSUME stream, ~raced, NEW i \in DOMAIN list PROVE list[i].status \notin InFlight
      BY DEF Settled
    <2>1. CASE i < Len(messages)
      BY <2>1, <1>3, <1>6 DEF Body
    <2>2. CASE i = Len(messages)
      BY <2>2, <1>3, <1>5, <1>6 DEF Sound
    <2> QED BY <2>1, <2>2, <1>6
  <1>9. net' \in [Keys -> {"unused", "open", "closed"}]
    BY <1>3, <1>4
  <1>10. ASSUME NEW k \in Keys, net'[k] = "open", ~raced PROVE ~stream /\ net[k] = "open"
    BY <1>3, <1>4, <1>10, NoneIsNoKey DEF ChatInv, OneStream
  <1>11. \A k \in Keys : ~raced /\ net'[k] = "open" =>
             /\ stream => None = k
             /\ list # <<>> /\ list[Len(list)].key = k
             /\ stream => list[Len(list)].status \in InFlight
    <2> SUFFICES ASSUME NEW k \in Keys, ~raced, net'[k] = "open"
                 PROVE  list # <<>> /\ list[Len(list)].key = k
      BY <1>10
    <2>1. messages # <<>> /\ messages[Len(messages)].key = k
      BY <1>10 DEF ChatInv, AnswerComesLast
    <2>2. Len(messages) \in DOMAIN messages
      BY <2>1, <1>3, SoundShape
    <2>3. list # <<>>
      <3>1. Len(messages) \in DOMAIN list
        BY <2>2, <1>6
      <3> QED BY <3>1
    <2> QED BY <2>1, <2>2, <2>3, <1>6
  <1>12. None \in {source, None}
    OBVIOUS
  <1> QED BY <1>3, <1>4, <1>6, <1>7, <1>8, <1>9, <1>11, <1>12, Showing

\* Reload puts right the one message that can wait.
LEMMA ReloadStep ==
  ASSUME ChatInv, Reload PROVE ChatInv' /\ FinalStep
  <1>1. PICK list : list = sanitizeMessagesOnLoad(storage)
    OBVIOUS
  <1>2. /\ Click(list, None) /\ UNCHANGED <<stream, made, raced>> /\ complete' = FALSE
        /\ editing' = None
        /\ net' = [k \in Keys |-> IF net[k] = "open" THEN "closed" ELSE net[k]]
    BY <1>1 DEF Reload
  <1>3. /\ made \in Nat /\ made \in 0..MaxKeys /\ Sound(storage, made) /\ Sound(shown.messages, made)
        /\ net \in [Keys -> {"unused", "open", "closed"}] /\ stream \in BOOLEAN /\ raced \in BOOLEAN
        /\ ~raced => Apart(storage)
        /\ stream /\ ~raced => Body(storage)
    BY DEF ChatInv, Scalars, ListInv
  <1>4. /\ Sound(list, made)
        /\ Len(list) = Len(storage) /\ DOMAIN list = DOMAIN storage
        /\ \A i \in DOMAIN storage :
              /\ list[i].key = storage[i].key
              /\ storage[i].status \notin InFlight => list[i] = storage[i]
        /\ Apart(storage) => Apart(list)
        /\ Body(storage) => Settled(list)
    BY <1>1, <1>3, Sanitized
  <1>5. Settled(list) => Body(list)
    BY DEF Settled, Body
  <1>6. stream => KeepsFinal(shown.messages, list, raced')
    <2> SUFFICES ASSUME stream PROVE KeepsFinal(shown.messages, list, raced')
      OBVIOUS
    <2>1. KeepsFinal(shown.messages, storage, raced)
      <3>1. Follows(storage)
        BY DEF ChatInv, RenderFollows
      <3> QED BY <3>1, <1>3, FollowsKeeps
    <2>2. \A i \in DOMAIN storage : storage[i].status \in {"error", "complete"} =>
              list[i].status = storage[i].status
      BY <1>4 DEF InFlight
    <2>3. PICK old : old = shown.messages
      OBVIOUS
    <2>4. PICK r : r = raced
      OBVIOUS
    <2>5. PICK cur : cur = storage
      OBVIOUS
    <2>6. KeepsFinal(old, list, r)
      BY <2>1, <2>2, <2>3, <2>4, <2>5, <1>4, KeepsMore
    <2> QED BY <2>3, <2>4, <2>6, <1>2
  <1>7. /\ net' \in [Keys -> {"unused", "open", "closed"}]
        /\ \A k \in Keys : net'[k] # "open"
    BY <1>2, <1>3
  <1>8. /\ None \in Keys \cup {None} /\ editing' \in Keys \cup {None} /\ complete' \in BOOLEAN
        /\ made' \in 0..MaxKeys /\ raced' \in BOOLEAN /\ Sound(list, made')
    BY <1>2, <1>3, <1>4
  <1> QED BY <1>2, <1>3, <1>4, <1>5, <1>6, <1>7, <1>8, Clicked

\* Render shows and saves the current list.
LEMMA RenderStep ==
  ASSUME ChatInv, Render PROVE ChatInv' /\ FinalStep
  <1>1. Click(messages, source)
    BY DEF Render, Click
  <1>2. editing' \in Keys \cup {None} /\ UNCHANGED <<stream, net, complete, made, raced>>
    BY DEF Render, ChatInv, Scalars
  <1> QED BY <1>1, <1>2, EditorStep

\* The last message of the current list, seen from the request of key k.
LEMMA LastOne ==
  ASSUME ChatInv, NEW k \in Keys, net[k] = "open"
  PROVE  /\ messages # <<>> => Last(messages) \in Message
         /\ messages[Len(messages)] = Last(messages)
         /\ ~raced => /\ messages # <<>>
                      /\ Last(messages).key = k
                      /\ Last(messages).text \subseteq {Typed, k}
                      /\ stream => Last(messages).status \in InFlight
  <1>1. made \in Nat /\ Sound(messages, made)
    BY DEF ChatInv, Scalars, ListInv
  <1>2. messages # <<>> => Len(messages) \in DOMAIN messages /\ Last(messages) \in Message
    BY <1>1, SoundShape DEF Last
  <1> QED BY <1>2 DEF ChatInv, AnswerComesLast, ListInv, Apart, Last

\* A chunk goes into the message that waits for it.
LEMMA UpdateStep ==
  ASSUME ChatInv, NEW k \in Keys, handleStreamUpdate(k) PROVE ChatInv' /\ FinalStep
  <1>1. PICK new : new = IF Last(messages).status = "error" THEN Last(messages)
                         ELSE Received(Last(messages), k)
    OBVIOUS
  <1>2. /\ net[k] = "open" /\ Queue(updateLastAssistantMessage(messages, new))
        /\ UNCHANGED <<stream, net, source, complete, editing, made, raced>>
        /\ stream
    BY <1>1 DEF handleStreamUpdate, Streams
  <1>3. /\ messages # <<>> => Last(messages) \in Message
        /\ messages[Len(messages)] = Last(messages)
        /\ ~raced => /\ messages # <<>>
                     /\ Last(messages).key = k
                     /\ Last(messages).text \subseteq {Typed, k}
                     /\ Last(messages).status \in InFlight
    BY <1>2, LastOne
  <1>4. messages # <<>> => /\ new \in Message
                           /\ new.key = Last(messages).key
                           /\ new.from = Last(messages).from
                           /\ new.text \subseteq Last(messages).text \cup {k}
                           /\ Last(messages).status = "error" => new.status = "error"
                           /\ Last(messages).status # "error" => new.status = "streaming"
    BY <1>1, <1>3 DEF Received, Message, InFlight
  <1>5. ~raced => new.status \in InFlight
    BY <1>3, <1>4 DEF InFlight
  <1>6. complete' \in BOOLEAN
    BY <1>2 DEF ChatInv, Scalars
  <1> QED BY <1>2, <1>3, <1>4, <1>5, <1>6, Queued

\* [DONE] ends the message of its stream.
LEMMA CompleteStep ==
  ASSUME ChatInv, NEW k \in Keys, handleStreamComplete(k) PROVE ChatInv' /\ FinalStep
  <1>1. PICK new : new = StreamFinal(Last(messages))
    OBVIOUS
  <1>2. /\ net[k] = "open" /\ Queue(updateLastAssistantMessage(messages, new))
        /\ net' = [net EXCEPT ![k] = "closed"] /\ source' = None /\ complete' = TRUE
        /\ UNCHANGED <<stream, editing, made, raced>>
        /\ stream
    BY <1>1 DEF handleStreamComplete, Streams
  <1>3. /\ messages # <<>> => Last(messages) \in Message
        /\ messages[Len(messages)] = Last(messages)
        /\ ~raced => /\ messages # <<>>
                     /\ Last(messages).key = k
                     /\ Last(messages).text \subseteq {Typed, k}
    BY <1>2, LastOne
  <1>4. messages # <<>> => /\ new \in Message
                           /\ new.key = Last(messages).key
                           /\ new.from = Last(messages).from
                           /\ new.text = Last(messages).text
                           /\ Last(messages).status = "error" => new.status = "error"
                           /\ new.status \notin InFlight
    BY <1>1, <1>3 DEF StreamFinal, Completed, Message, InFlight
  <1>5. ~raced => new.status \notin InFlight
    BY <1>3, <1>4
  <1> QED BY <1>2, <1>3, <1>4, <1>5, Queued

\* An update to an error, by a stream or by a plain request.
LEMMA ErrorStep ==
  ASSUME ChatInv, NEW k \in Keys, net[k] = "open",
         Queue(updateLastAssistantMessage(messages, Erroneous(Last(messages)))),
         net' = [net EXCEPT ![k] = "closed"],
         source' = None \/ (~stream /\ source' = source),
         UNCHANGED <<stream, complete, editing, made, raced>>
  PROVE  ChatInv' /\ FinalStep
  <1>1. PICK new : new = Erroneous(Last(messages))
    OBVIOUS
  <1>2. /\ messages # <<>> => Last(messages) \in Message
        /\ messages[Len(messages)] = Last(messages)
        /\ ~raced => messages # <<>>
    BY LastOne
  <1>3. messages # <<>> => /\ new \in Message
                           /\ new.key = Last(messages).key
                           /\ new.from = Last(messages).from
                           /\ new.text = {Typed}
                           /\ new.status = "error"
    BY <1>1, <1>2 DEF Erroneous, Message
  <1>4. ~raced => new.status \notin InFlight
    BY <1>2, <1>3 DEF InFlight
  <1>5. complete' \in BOOLEAN /\ Queue(updateLastAssistantMessage(messages, new))
    BY <1>1 DEF ChatInv, Scalars
  <1> QED BY <1>2, <1>3, <1>4, <1>5, Queued

\* An update that changes nothing.
LEMMA NothingStep ==
  ASSUME ChatInv, NEW k \in Keys, net[k] = "open", Queue(messages),
         net' = [net EXCEPT ![k] = "closed"],
         UNCHANGED <<stream, source, complete, editing, made, raced>>
  PROVE  ChatInv' /\ FinalStep
  <1>1. messages' = messages /\ shown' = shown /\ storage' \in {storage, messages}
    BY DEF Queue
  <1> QED BY <1>1, EndedQuietly

\* The answer to a plain request, its error, or an answer without a choice.
LEMMA PlainStep ==
  ASSUME ChatInv, NEW k \in Keys, sendNonStreamingChat(k) PROVE ChatInv' /\ FinalStep
  <1>1. PICK new : new = [Last(messages) EXCEPT !.text = {k}, !.status = "complete"]
    OBVIOUS
  <1>2. /\ net[k] = "open" /\ ~stream
        /\ net' = [net EXCEPT ![k] = "closed"]
        /\ UNCHANGED <<stream, source, complete, editing, made, raced>>
    BY DEF sendNonStreamingChat
  <1>3. CASE Queue(updateLastAssistantMessage(messages, new))
    <2>1. /\ messages # <<>> => Last(messages) \in Message
          /\ messages[Len(messages)] = Last(messages)
      BY <1>2, LastOne
    <2>2. messages # <<>> => /\ new \in Message
                             /\ new.key = Last(messages).key
                             /\ new.from = Last(messages).from
                             /\ new.text = {k}
      BY <1>1, <2>1 DEF Message
    <2>3. complete' \in BOOLEAN
      BY <1>2 DEF ChatInv, Scalars
    <2> QED BY <1>2, <1>3, <2>1, <2>2, <2>3, Queued
  <1>4. CASE Queue(updateLastAssistantMessage(messages, Erroneous(Last(messages))))
    BY <1>2, <1>4, ErrorStep
  <1>5. CASE Queue(messages)
    BY <1>2, <1>5, NothingStep
  <1> QED BY <1>1, <1>3, <1>4, <1>5 DEF sendNonStreamingChat

\* Every step of the page keeps its invariant and the ends it has shown.
LEMMA NextChat == ChatInv /\ [Next]_vars => ChatInv' /\ FinalStep
  <1> SUFFICES ASSUME ChatInv, [Next]_vars PROVE ChatInv' /\ FinalStep
    OBVIOUS
  <1>1. CASE UserClick
    BY <1>1, SendStep, CloseStep, StopStep, RegenerateStep, DeleteStep, OpenStep, SaveStep,
       ResubmitStep DEF UserClick
  <1>2. CASE Reload
    BY <1>2, ReloadStep
  <1>3. CASE Render
    BY <1>3, RenderStep
  <1>4. ASSUME NEW k \in Keys, RequestEvent(k) PROVE ChatInv' /\ FinalStep
    <2>1. CASE handleStreamUpdate(k)
      BY <2>1, UpdateStep
    <2>2. CASE handleStreamComplete(k)
      BY <2>2, CompleteStep
    <2>3. CASE handleError(k)
      <3>1. net[k] = "open" /\ UNCHANGED <<stream, complete, editing, made, raced>>
        BY <2>3 DEF handleError, Streams
      <3>2. CASE ~complete
        <4>1. /\ net' = [net EXCEPT ![k] = "closed"] /\ source' = None
              /\ Queue(updateLastAssistantMessage(messages, Erroneous(Last(messages))))
          BY <2>3, <3>2 DEF handleError
        <4> QED BY <3>1, <4>1, ErrorStep
      <3>3. CASE complete
        <4>1. /\ net' = net \/ net' = [net EXCEPT ![k] = "closed"]
              /\ messages' = messages /\ shown' = shown /\ storage' = storage /\ source' = source
          BY <2>3, <3>3 DEF handleError
        <4> QED BY <3>1, <4>1, EndedQuietly
      <3> QED BY <3>2, <3>3
    <2>4. CASE ServerEnds(k)
      BY <2>4, EndedQuietly DEF ServerEnds, Streams
    <2>5. CASE sendNonStreamingChat(k)
      BY <2>5, PlainStep
    <2> QED BY <1>4, <2>1, <2>2, <2>3, <2>4, <2>5 DEF RequestEvent
  <1>5. CASE UNCHANGED vars
    <2>1. /\ stream' = stream /\ messages' = messages /\ shown' = shown /\ storage' = storage
          /\ net' = net /\ source' = source /\ complete' = complete /\ editing' = editing
          /\ made' = made /\ raced' = raced
      BY <1>5 DEF vars
    <2>2. Scalars' /\ OneStream' /\ StopOffered' /\ AnswerComesLast' /\ RenderFollows'
      BY <2>1 DEF ChatInv, Scalars, OneStream, StopOffered, AnswerComesLast, RenderFollows, Follows
    <2>3. ListInv(messages)' /\ ListInv(shown.messages)' /\ ListInv(storage)'
      BY <2>1 DEF ChatInv, ListInv
    <2>4. ChatInv'
      BY <2>1, <2>2, <2>3 DEF ChatInv
    <2>5. PICK list : list = shown.messages
      OBVIOUS
    <2>6. PICK r : r = raced'
      OBVIOUS
    <2>7. PICK n : n = made
      OBVIOUS
    <2>8. KeepsFinal(list, list, r)
      BY <2>5, <2>7, KeepsItself DEF ChatInv, ListInv
    <2>9. FinalStep
      BY <2>1, <2>5, <2>6, <2>8, FinalByKeeping
    <2> QED BY <2>4, <2>9
  <1> QED BY <1>1, <1>2, <1>3, <1>4, <1>5 DEF Next

\* ChatInv says what the run checks, list by list.
LEMMA ChatImplies == ChatInv => PlaygroundInv /\ AnswersStayApart /\ SettledWhenIdle
  <1> SUFFICES ASSUME ChatInv PROVE PlaygroundInv /\ AnswersStayApart /\ SettledWhenIdle
    OBVIOUS
  <1>1. /\ Scalars /\ ListInv(messages) /\ ListInv(shown.messages) /\ ListInv(storage)
        /\ OneStream /\ StopOffered /\ AnswerComesLast /\ RenderFollows
    BY DEF ChatInv
  <1>2. \A list \in Lists : ListInv(list)
    BY <1>1 DEF Lists
  <1>3. TypeOK
    <2>1. \A list \in {messages, shown.messages, storage} :
              /\ Len(list) <= made
              /\ list \in Seq(Message)
              /\ \A i, j \in DOMAIN list : list[i].key = list[j].key => i = j
      BY <1>1 DEF ListInv, Sound
    <2> QED BY <1>1, <2>1 DEF TypeOK, Scalars
  <1>4. KeysMade /\ TextsApart /\ OnlyLastWaits
    BY <1>2 DEF KeysMade, TextsApart, OnlyLastWaits, ListInv, Sound, Apart, Body
  <1>5. ShownSettled
    BY DEF ChatInv, ShownSettled, Settled
  <1>6. ReloadSettles
    <2> SUFFICES ASSUME stream, ~raced
                 PROVE  \A m \in Range(sanitizeMessagesOnLoad(storage)) : m.status \notin InFlight
      BY DEF ReloadSettles
    <2>1. Settled(sanitizeMessagesOnLoad(storage))
      BY <1>1, Sanitized DEF ListInv, Scalars
    <2> QED BY <2>1 DEF Settled, Range
  <1>7. AnswersStayApart
    BY <1>1 DEF AnswersStayApart, ListInv, Apart, Range
  <1>8. SettledWhenIdle
    BY DEF ChatInv, SettledWhenIdle, Settled, Range
  <1> QED BY <1>1, <1>3, <1>4, <1>5, <1>6, <1>7, <1>8 DEF PlaygroundInv

\* The invariant of the page, for any number of messages and both modes.
THEOREM ChatInductive == Spec => []ChatInv
  <1>1. ChatInv /\ [Next]_vars => ChatInv'
    BY NextChat
  <1> QED BY <1>1, InitChat, PTL DEF Spec

\* However late React renders and whenever the page is reloaded: at most one stream
\* is open and Stop closes it, and a reload leaves no message waiting
\* (use-stream-request.ts, sanitizeMessagesOnLoad).
THEOREM PageInOrder == Spec => []PlaygroundInv
  BY ChatInductive, ChatImplies, PTL

\* Every event is applied to the last message of the list; still, while the guards
\* hold, it is the message of its own request.
THEOREM NoMixing == Spec => []AnswersStayApart
  BY ChatInductive, ChatImplies, PTL

\* When sseSourceRef is empty, by [DONE], an error, Stop or a reload, no message of
\* a streaming page waits.
THEOREM NothingLeftWaiting == Spec => []SettledWhenIdle
  BY ChatInductive, ChatImplies, PTL

\* Late chunks, [DONE], Stop, edits and reloads never show an ended message as
\* anything else.
THEOREM EndsStay == Spec => FinalStays
  <1>1. ChatInv /\ [Next]_vars => [FinalStep]_vars
    BY NextChat
  <1>2. FinalStays <=> [][FinalStep]_vars
    BY DEF FinalStays, FinalStep
  <1> QED BY <1>1, <1>2, ChatInductive, PTL DEF Spec

-----------------------------------------------------------------------------
(* The desktop shell.                                                      *)

\* The invariants hold when the application starts.
LEMMA InitShell == ShellInit => ShellInv /\ ServerDiesWithApp
  <1> SUFFICES ASSUME ShellInit PROVE ShellInv /\ ServerDiesWithApp
    OBVIOUS
  <1>1. ShellTypeOK
    BY DEF ShellInit, ShellTypeOK, Alive
  <1>2. ProbeBudget /\ ProbesBounded
    <2>1. MaxRetries \in Nat /\ MaxRetries > 0
      BY DesktopAssumption
    <2>2. attempt = 0 /\ requests = 0 /\ timers = 0 /\ probe = "pending"
      BY DEF ShellInit
    <2> QED
      BY <2>1, <2>2 DEF ProbeBudget, ProbesBounded
  <1> QED
    BY <1>1, <1>2 DEF ShellInit, ShellInv, ServerDiesWithApp

-----------------------------------------------------------------------------
(* The desktop shell: the probes. *)

\* A step that leaves the probes alone, and no dead child behind it alive.
LEMMA ProbesLeftAlone ==
  ASSUME ProbeBudget, ProbesBounded, UNCHANGED probing, phase # "launch" => phase' # "launch",
         phase = "launch" => phase' = "launch", child = "dead" => child' = "dead"
  PROVE  ProbeBudget' /\ ProbesBounded'
  BY DEF ProbeBudget, ProbesBounded, probing

\* A probe that ends, by two handlers at once too, leaves the number of
\* attempts, timers and requests within the budget.
LEMMA EndedProbe ==
  ASSUME ShellTypeOK, ProbeBudget, ProbesBounded, NEW n \in {1, 2}, requests > 0, ProbeEnded(n),
         UNCHANGED <<attempt, phase, child>>, Running
  PROVE  /\ requests' \in Nat /\ timers' \in Nat /\ probe' \in {"pending", "resolved", "rejected"}
         /\ ProbeBudget' /\ ProbesBounded'
  <1>1. attempt \in Nat /\ requests \in Nat /\ timers \in Nat /\ MaxRetries \in Nat
    BY DesktopAssumption DEF ShellTypeOK
  <1>2. requests' = requests - 1 /\ phase' # "launch"
    BY DEF ProbeEnded, Running
  <1>3. CASE attempt >= MaxRetries /\ Settle("rejected") /\ timers' = timers
    BY <1>1, <1>2, <1>3 DEF Settle, ShellTypeOK, ProbeBudget, ProbesBounded
  <1>4. CASE attempt < MaxRetries /\ timers' = timers + n /\ probe' = probe
    BY <1>1, <1>2, <1>4 DEF ShellTypeOK, ProbeBudget, ProbesBounded
  <1> QED
    BY <1>3, <1>4 DEF ProbeEnded

-----------------------------------------------------------------------------
(* The desktop shell: windows and quitting. *)

\* Types after a window has been closed.
LEMMA CloseType ==
  ASSUME ShellTypeOK, CloseWindow
  PROVE  main' \in {"none", "shown", "hidden"} /\ stray' \in BOOLEAN
  BY DEF ShellTypeOK, CloseWindow

\* Types after a window has been created.
LEMMA CreateType ==
  ASSUME ShellTypeOK, createWindow
  PROVE  main' \in {"none", "shown", "hidden"} /\ stray' \in BOOLEAN
  BY DEF ShellTypeOK, createWindow

\* After the server has closed the child is dead, whatever the application
\* does next.
LEMMA ClosedType ==
  ASSUME ShellTypeOK, NEW bad \in BOOLEAN, ServerClosed(bad)
  PROVE  /\ child' = "dead" /\ ref' \in BOOLEAN
         /\ dialogs' \subseteq {"start", "crash"}
         /\ main' \in {"none", "shown", "hidden"} /\ stray' \in BOOLEAN
         /\ phase' = phase \/ phase' = "exited"
  BY CloseType DEF ShellTypeOK, ServerClosed, windows

\* A quit that exits at once has no server to wait for.
LEMMA QuitType ==
  ASSUME ShellTypeOK, NEW explicit \in BOOLEAN, Quit(explicit)
  PROVE  /\ isQuitting' \in BOOLEAN /\ asked' \in BOOLEAN /\ armed' \in BOOLEAN
         /\ signal' \in {"none", "SIGTERM", "SIGKILL"}
         /\ main' \in {"none", "shown", "hidden"} /\ stray' \in BOOLEAN
         /\ phase' = phase \/ (phase' = "exited" /\ ~ref)
  BY DEF ShellTypeOK, Quit, windows

-----------------------------------------------------------------------------

\* Every step of the shell preserves the invariants.
LEMMA NextShell ==
  ASSUME ShellInv, ServerDiesWithApp, [ShellNext]_shellVars
  PROVE  ShellInv' /\ ServerDiesWithApp'
  <1> USE DEF mode, windows, quitting
  <1>0. ShellTypeOK /\ ProbeBudget /\ ProbesBounded /\ MaxRetries \in Nat \ {0}
    BY DesktopAssumption DEF ShellInv
  <1> DEFINE Goal == ShellInv' /\ ServerDiesWithApp'
  <1>1. CASE UNCHANGED shellVars
    BY <1>1 DEF shellVars, ShellInv, ShellTypeOK, ProbeBudget, ProbesBounded, ServerDiesWithApp
  <1>2. CASE startServer
    <2>1. ShellTypeOK'
      <3>1. /\ child' \in Alive \cup {"none", "unspawned", "dead"} /\ ref' \in BOOLEAN
            /\ child' \in Alive => ref'
        BY <1>0, <1>2 DEF startServer, ShellTypeOK, Alive
      <3>2. attempt' \in Nat /\ requests' \in Nat /\ phase' = "starting"
        BY <1>2 DEF startServer
      <3>3. UNCHANGED <<mode, timers, probe, windows, dialogs, quitting>>
        BY <1>2 DEF startServer
      <3> QED
        BY <1>0, <3>1, <3>2, <3>3 DEF ShellTypeOK
    <2>2. ProbeBudget' /\ ProbesBounded'
      <3>1. /\ MaxRetries \in Nat /\ MaxRetries > 0 /\ phase' = "starting"
            /\ attempt' = 1 /\ requests' = 1 /\ timers' = 0 /\ probe' = "pending"
        BY <1>0, <1>2 DEF startServer, ProbeBudget
      <3> QED
        BY <3>1 DEF ProbeBudget, ProbesBounded
    <2> QED
      BY <1>2, <2>1, <2>2 DEF startServer, ShellInv, ServerDiesWithApp
  <1>3. CASE Started
    <2>1. ShellTypeOK'
      <3>1. main' \in {"none", "shown", "hidden"} /\ stray' \in BOOLEAN
        BY <1>0, <1>3, CreateType DEF Started, ShellTypeOK
      <3>2. dialogs' \subseteq {"start", "crash"} /\ phase' \in {"up", "failed"}
        BY <1>0, <1>3 DEF Started, ShellTypeOK
      <3>3. UNCHANGED <<mode, child, ref, probing, quitting>>
        BY <1>3 DEF Started
      <3> QED
        BY <1>0, <3>1, <3>2, <3>3 DEF ShellTypeOK, probing
    <2>2. ProbeBudget' /\ ProbesBounded'
      BY <1>0, <1>3, ProbesLeftAlone DEF Started
    <2> QED
      BY <1>3, <2>1, <2>2 DEF Started, ShellInv, ServerDiesWithApp
  <1>4. CASE ProbeAnswered
    <2>1. ShellTypeOK'
      BY <1>0, <1>4 DEF ProbeAnswered, Settle, ShellTypeOK
    <2>2. ProbeBudget' /\ ProbesBounded'
      BY <1>0, <1>4 DEF ProbeAnswered, Running, Settle, ShellTypeOK, ProbeBudget, ProbesBounded
    <2> QED
      BY <1>4, <2>1, <2>2 DEF ProbeAnswered, ShellInv, ServerDiesWithApp
  <1>5. CASE ProbeRefused \/ ProbeTimedOut
    <2>1. /\ requests' \in Nat /\ timers' \in Nat /\ probe' \in {"pending", "resolved", "rejected"}
          /\ ProbeBudget' /\ ProbesBounded'
      BY <1>0, <1>5, EndedProbe DEF ProbeRefused, ProbeTimedOut
    <2>2. UNCHANGED <<mode, phase, child, ref, attempt, windows, dialogs, quitting>>
      BY <1>5 DEF ProbeRefused, ProbeTimedOut
    <2>3. ShellTypeOK'
      BY <1>0, <2>1, <2>2 DEF ShellTypeOK
    <2> QED
      BY <2>1, <2>2, <2>3 DEF ShellInv, ServerDiesWithApp
  <1>6. CASE tryConnect
    <2>1. ShellTypeOK'
      BY <1>0, <1>6 DEF tryConnect, ShellTypeOK
    <2>2. ProbeBudget' /\ ProbesBounded'
      BY <1>0, <1>6 DEF tryConnect, Running, ShellTypeOK, ProbeBudget, ProbesBounded
    <2> QED
      BY <1>6, <2>1, <2>2 DEF tryConnect, ShellInv, ServerDiesWithApp
  <1>7. CASE ServerListens
    <2>1. ShellTypeOK'
      BY <1>0, <1>7 DEF ServerListens, ShellTypeOK, Alive, probing
    <2>2. ProbeBudget' /\ ProbesBounded'
      BY <1>0, <1>7, ProbesLeftAlone DEF ServerListens
    <2> QED
      BY <1>7, <2>1, <2>2 DEF ServerListens, ShellInv, ServerDiesWithApp, Alive
  <1>8. CASE SpawnFails
    <2>1. ShellTypeOK' /\ child' = "dead" /\ phase' # "launch" /\ phase # "launch"
      BY <1>0, <1>8, ClosedType, ZenonT(60) DEF SpawnFails, Settle, Running, ShellTypeOK, Alive
    <2>2. ProbeBudget' /\ ProbesBounded'
      BY <1>0, <1>8, <2>1 DEF SpawnFails, Settle, ProbeBudget, ProbesBounded
    <2> QED
      BY <2>1, <2>2 DEF ShellInv, ServerDiesWithApp, Alive
  <1>9. CASE ServerKilled
    <2>1. ShellTypeOK'
      BY <1>0, <1>9 DEF ServerKilled, ShellTypeOK, Alive, probing
    <2>2. ProbeBudget' /\ ProbesBounded'
      BY <1>0, <1>9, ProbesLeftAlone DEF ServerKilled
    <2> QED
      BY <1>9, <2>1, <2>2 DEF ServerKilled, ShellInv, ServerDiesWithApp, Alive
  <1>10. ASSUME NEW bad \in BOOLEAN, ServerExits(bad) PROVE Goal
    <2>1. ShellTypeOK' /\ child' = "dead" /\ phase' # "launch" /\ phase # "launch"
      BY <1>0, <1>10, ClosedType DEF ServerExits, Running, ShellTypeOK, Alive, probing
    <2>2. ProbeBudget' /\ ProbesBounded'
      BY <1>0, <1>10, <2>1, ProbesLeftAlone DEF ServerExits
    <2> QED
      BY <2>1, <2>2 DEF ShellInv, ServerDiesWithApp, Alive
  <1>11. CASE WindowClosed \/ Activate \/ TrayShow
    <2>1. UNCHANGED <<mode, phase, child, ref, probing, dialogs, quitting>>
      BY <1>11 DEF WindowClosed, Activate, TrayShow
    <2>2. main' \in {"none", "shown", "hidden"} /\ stray' \in BOOLEAN
      BY <1>0, <1>11, CloseType, CreateType DEF WindowClosed, Activate, TrayShow, ShellTypeOK
    <2>3. ShellTypeOK'
      BY <1>0, <2>1, <2>2 DEF ShellTypeOK, probing
    <2>4. ProbeBudget' /\ ProbesBounded'
      BY <1>0, <2>1, ProbesLeftAlone
    <2> QED
      BY <2>1, <2>3, <2>4 DEF ShellInv, ServerDiesWithApp
  <1>12. ASSUME NEW explicit \in BOOLEAN, Quit(explicit), Running,
                UNCHANGED <<mode, child, ref, probing>>, dialogs' \subseteq dialogs
         PROVE  Goal
    <2>1. /\ ShellTypeOK' /\ (phase' = phase \/ (phase' = "exited" /\ ~ref))
          /\ phase \notin {"launch", "exited"}
      BY <1>0, <1>12, QuitType DEF ShellTypeOK, Running, probing
    <2>2. ProbeBudget' /\ ProbesBounded'
      BY <1>0, <1>12, <2>1, ProbesLeftAlone
    <2> QED
      BY <1>0, <1>12, <2>1, <2>2 DEF ShellInv, ServerDiesWithApp, ShellTypeOK
  <1>13. CASE TrayQuit
    BY <1>12, <1>13 DEF TrayQuit, Running
  <1>14. CASE SystemQuit
    BY <1>12, <1>14 DEF SystemQuit
  <1>15. ASSUME NEW d \in {"start", "crash"}, AnswerDialog(d) PROVE Goal
    BY <1>12, <1>15 DEF AnswerDialog
  <1>16. CASE ForceExit
    <2>1. ShellTypeOK'
      BY <1>0, <1>16 DEF ForceExit, ShellTypeOK, probing
    <2>2. ProbeBudget' /\ ProbesBounded'
      BY <1>0, <1>16, ProbesLeftAlone DEF ForceExit, Running
    <2> QED
      BY <1>0, <1>16, <2>1, <2>2 DEF ForceExit, ShellInv, ServerDiesWithApp, ShellTypeOK
  <1> QED
    BY <1>1, <1>2, <1>3, <1>4, <1>5, <1>6, <1>7, <1>8, <1>9, <1>10, <1>11, <1>13, <1>14, <1>15, <1>16
    DEF ShellNext, Probe

\* Whatever maxRetries is: though a probe that times out is retried twice, fewer
\* than twice as many probes are ever made, and the promise is rejected only at
\* the limit or because the server could not be started.
THEOREM ShellInductive == ShellSpec => []ShellInv
  BY InitShell, NextShell, PTL DEF ShellSpec

\* No path out of the application leaves its server running unkilled.
THEOREM NoOrphan == ShellSpec => []ServerDiesWithApp
  BY InitShell, NextShell, PTL DEF ShellSpec
=============================================================================
