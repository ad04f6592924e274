------------------------- MODULE HidControllerProofs -------------------------
(* Theorems about module HidController, for any functions, items, modules, *)
(* modes and any length of the queues.                                     *)
EXTENDS HidController, TLAPS

LEMMA MessageCases ==
  ASSUME NEW msg \in Message
  PROVE  /\ msg.op \in {"Hold", "Release", "Send", "Motion", "Type", "Switch", "SendCommand"}
         /\ msg.op = "Hold" => msg.item \in Item /\ msg = Hold(msg.item)
         /\ msg.op = "Release" => msg.item \in Item /\ msg = Release(msg.item)
         /\ msg.op = "Send" => msg.device \in Device /\ msg = Send(msg.device)
         /\ msg.op = "Motion" => msg = Motion
         /\ msg.op = "Type" => msg.items \in Texts
         /\ msg.op \in {"Switch", "SendCommand"} => msg.name \in Names
BY DEF Message, Hold, Release, Send, Motion

LEMMA MessagesMade ==
  /\ \A item \in Item : Hold(item) \in Message /\ Release(item) \in Message
  /\ \A d \in Device : Send(d) \in Message
  /\ Motion \in Message
  /\ \A items \in Texts : Type(items) \in Message
  /\ \A name \in Names : SwitchTo(name) \in Message /\ CommandTo(name) \in Message
BY DEF Message, Hold, Release, Send, Motion, Type, SwitchTo, CommandTo

LEMMA MessageParts ==
  ASSUME NEW x
  PROVE  /\ Hold(x).op = "Hold" /\ Hold(x).item = x
         /\ Release(x).op = "Release" /\ Release(x).item = x
         /\ Send(x).op = "Send" /\ Send(x).device = x
         /\ Motion.op = "Motion"
         /\ Type(x).op = "Type"
         /\ SwitchTo(x).op = "Switch" /\ SwitchTo(x).name = x
         /\ CommandTo(x).op = "SendCommand"
BY DEF Hold, Release, Send, Motion, Type, SwitchTo, CommandTo

LEMMA DefCases ==
  ASSUME NEW f \in Function
  PROVE  /\ Def[f].kind \in {"Hold", "Type", "Shortcut", "Switch", "Toggle", "SendCommand", "Move", "Repeat"}
         /\ f \in OfKind("Hold") => Def[f].kind = "Hold" /\ Def[f].item \in Item
         /\ Def[f].kind = "Hold" => f \in OfKind("Hold") /\ Def[f].item \in Item
         /\ Def[f].kind = "Type" => Def[f].items \in Texts
         /\ Def[f].kind = "Shortcut" => /\ f \in OfKind("Shortcut")
                                        /\ Def[f].modifiers \in Seq(Item) /\ Def[f].keys \in Seq(Item)
         /\ Def[f].kind \in {"Switch", "SendCommand"} => Def[f].name \in Names
         /\ Def[f].kind \in {"Move", "Repeat"} => Def[f].directions \in 1 .. 2
<1>1. Def[f] \in Definition
  BY FunctionAssumption
<1>2. QED
  BY <1>1 DEF Definition, OfKind, Texts

-----------------------------------------------------------------------------
(* Sequences of messages. *)

(* Message a comes after place i of s, with no switch between them. *)
Then(s, i, a) ==
  \E j \in i + 1 .. Len(s) : s[j] = a /\ \A k \in i + 1 .. j : s[k].op # "Switch"

(* No switch comes after place i of s. *)
StaysAfter(s, i) == \A k \in i + 1 .. Len(s) : s[k].op # "Switch"

LEMMA TailPlaces ==
  ASSUME NEW S, NEW s \in Seq(S), s # <<>>
  PROVE  /\ Tail(s) \in Seq(S) /\ Len(Tail(s)) = Len(s) - 1 /\ Len(s) \in Nat
         /\ Head(s) = s[1] /\ s[1] \in S /\ 1 \in DOMAIN s
         /\ \A i \in 1 .. Len(s) - 1 : Tail(s)[i] = s[i + 1]
         /\ DOMAIN Tail(s) = 1 .. Len(s) - 1 /\ DOMAIN s = 1 .. Len(s)
OBVIOUS

LEMMA ConcatPlaces ==
  ASSUME NEW S, NEW s \in Seq(S), NEW t \in Seq(S)
  PROVE  /\ s \o t \in Seq(S) /\ Len(s \o t) = Len(s) + Len(t)
         /\ Len(s) \in Nat /\ Len(t) \in Nat
         /\ \A i \in 1 .. Len(s) : (s \o t)[i] = s[i]
         /\ \A i \in 1 .. Len(t) : (s \o t)[Len(s) + i] = t[i]
         /\ DOMAIN (s \o t) = 1 .. Len(s) + Len(t)
         /\ DOMAIN s = 1 .. Len(s) /\ DOMAIN t = 1 .. Len(t)
<1>1. \A i \in 1 .. Len(t) : (s \o t)[Len(s) + i] = t[i]
  <2>1. TAKE i \in 1 .. Len(t)
  <2>2. Len(s) + i \in 1 .. Len(s) + Len(t) /\ ~(Len(s) + i <= Len(s)) /\ Len(s) + i - Len(s) = i
    OBVIOUS
  <2>3. QED
    BY <2>2
<1>2. QED
  BY <1>1

LEMMA ConcatAt ==
  ASSUME NEW S, NEW s \in Seq(S), NEW t \in Seq(S), NEW u, u = s \o t
  PROVE  /\ u \in Seq(S) /\ Len(u) = Len(s) + Len(t)
         /\ \A i \in 1 .. Len(s) : u[i] = s[i]
         /\ \A i \in 1 .. Len(t) : u[Len(s) + i] = t[i]
BY ConcatPlaces

LEMMA ConcatSet ==
  ASSUME NEW S, NEW s \in Seq(S), NEW t \in Seq(S)
  PROVE  ToSet(s) \cup ToSet(t) \subseteq ToSet(s \o t)
<1>1. /\ DOMAIN (s \o t) = 1 .. Len(s) + Len(t) /\ Len(s) \in Nat /\ Len(t) \in Nat
      /\ \A i \in 1 .. Len(s) : (s \o t)[i] = s[i]
      /\ \A i \in 1 .. Len(t) : (s \o t)[Len(s) + i] = t[i]
      /\ DOMAIN s = 1 .. Len(s) /\ DOMAIN t = 1 .. Len(t)
  BY ConcatPlaces
<1>2. /\ \A i \in 1 .. Len(s) : i \in 1 .. Len(s) + Len(t)
      /\ \A i \in 1 .. Len(t) : Len(s) + i \in 1 .. Len(s) + Len(t)
  BY <1>1
<1>3. ASSUME NEW x \in ToSet(s) PROVE x \in ToSet(s \o t)
  <2>1. PICK i \in 1 .. Len(s) : s[i] = x
    BY <1>1 DEF ToSet
  <2>2. i \in DOMAIN (s \o t) /\ (s \o t)[i] = x
    BY <1>1, <1>2, <2>1
  <2>3. QED
    BY <2>2 DEF ToSet
<1>4. ASSUME NEW x \in ToSet(t) PROVE x \in ToSet(s \o t)
  <2>1. PICK i \in 1 .. Len(t) : t[i] = x
    BY <1>1 DEF ToSet
  <2>2. Len(s) + i \in DOMAIN (s \o t) /\ (s \o t)[Len(s) + i] = x
    BY <1>1, <1>2, <2>1
  <2>3. QED
    BY <2>2 DEF ToSet
<1>5. QED
  BY <1>3, <1>4

(* The place of an element of s \o t. *)
LEMMA ConcatSplit ==
  ASSUME NEW S, NEW s \in Seq(S), NEW t \in Seq(S), NEW i \in 1 .. Len(s) + Len(t)
  PROVE  \/ i \in 1 .. Len(s) /\ (s \o t)[i] = s[i]
         \/ i - Len(s) \in 1 .. Len(t) /\ (s \o t)[i] = t[i - Len(s)] /\ i = Len(s) + (i - Len(s))
<1>1. CASE i <= Len(s)
  BY <1>1
<1>2. CASE ~(i <= Len(s))
  BY <1>2
<1>3. QED
  BY <1>1, <1>2

LEMMA ThenTail ==
  ASSUME NEW S, NEW s \in Seq(S), s # <<>>, NEW i \in 0 .. Len(s) - 1, NEW a, Then(s, i + 1, a)
  PROVE  Then(Tail(s), i, a)
<1>1. PICK j \in i + 2 .. Len(s) : s[j] = a /\ \A k \in i + 2 .. j : s[k].op # "Switch"
  BY DEF Then
<1>2. j - 1 \in i + 1 .. Len(s) - 1 /\ Tail(s)[j - 1] = s[j]
  BY <1>1, TailPlaces
<1>3. ASSUME NEW k \in i + 1 .. j - 1 PROVE Tail(s)[k].op # "Switch"
  <2>1. Tail(s)[k] = s[k + 1] /\ k + 1 \in i + 2 .. j
    BY <1>2, TailPlaces
  <2>2. QED
    BY <1>1, <2>1
<1>4. Len(Tail(s)) = Len(s) - 1
  OBVIOUS
<1>5. QED
  BY <1>1, <1>2, <1>3, <1>4 DEF Then

(* What comes after the start comes after the first message, unless it is  *)
(* that; and the first message is no switch.                               *)
LEMMA ThenRest ==
  ASSUME NEW S, NEW s \in Seq(S), s # <<>>, NEW a, Then(s, 0, a)
  PROVE  s[1].op # "Switch" /\ (s[1] = a \/ Then(Tail(s), 0, a))
<1>1. PICK j \in 0 + 1 .. Len(s) : s[j] = a /\ \A k \in 0 + 1 .. j : s[k].op # "Switch"
  BY DEF Then
<1>2. j \in 1 .. Len(s) /\ \A k \in 1 .. j : s[k].op # "Switch"
  BY <1>1
<1>3. s[1].op # "Switch"
  BY <1>2
<1>4. CASE j = 1
  BY <1>1, <1>3, <1>4
<1>5. CASE j # 1
  <2>1. j \in 1 + 1 .. Len(s) /\ \A k \in 1 + 1 .. j : s[k].op # "Switch"
    BY <1>2, <1>5
  <2>2. Then(s, 0 + 1, a)
    BY <1>1, <2>1 DEF Then
  <2>3. 0 \in 0 .. Len(s) - 1
    BY <1>2
  <2>4. QED
    BY <1>3, <2>2, <2>3, ThenTail
<1>6. QED
  BY <1>4, <1>5

LEMMA ThenLonger ==
  ASSUME NEW S, NEW s \in Seq(S), NEW t \in Seq(S), NEW i \in 0 .. Len(s), NEW a, Then(s, i, a)
  PROVE  Then(s \o t, i, a)
<1>1. PICK j \in i + 1 .. Len(s) : s[j] = a /\ \A k \in i + 1 .. j : s[k].op # "Switch"
  BY DEF Then
<1>2. /\ \A k \in i + 1 .. j : k \in 1 .. Len(s)
      /\ j \in 1 .. Len(s) /\ j \in i + 1 .. Len(s) + Len(t)
  BY <1>1
<1>3. (s \o t)[j] = a /\ \A k \in i + 1 .. j : (s \o t)[k].op # "Switch"
  BY <1>1, <1>2, ConcatPlaces
<1>4. Len(s \o t) = Len(s) + Len(t)
  OBVIOUS
<1>5. QED
  BY <1>2, <1>3, <1>4 DEF Then

LEMMA ThenAdded ==
  ASSUME NEW S, NEW s \in Seq(S), NEW t \in Seq(S), NEW i \in 0 .. Len(t), NEW a, Then(t, i, a)
  PROVE  Then(s \o t, Len(s) + i, a)
<1>1. PICK j \in i + 1 .. Len(t) : t[j] = a /\ \A k \in i + 1 .. j : t[k].op # "Switch"
  BY DEF Then
<1>2. Len(s) + j \in Len(s) + i + 1 .. Len(s) + Len(t) /\ (s \o t)[Len(s) + j] = a
  BY <1>1, ConcatPlaces
<1>3. ASSUME NEW k \in Len(s) + i + 1 .. Len(s) + j PROVE (s \o t)[k].op # "Switch"
  <2>1. k - Len(s) \in i + 1 .. j /\ k - Len(s) \in 1 .. Len(t) /\ k = Len(s) + (k - Len(s))
    BY <1>1
  <2>2. (s \o t)[k] = t[k - Len(s)]
    BY <2>1, ConcatPlaces
  <2>3. QED
    BY <1>1, <2>1, <2>2
<1>4. Len(s \o t) = Len(s) + Len(t)
  OBVIOUS
<1>5. QED
  BY <1>2, <1>3, <1>4 DEF Then

(* What is added comes after a place that no switch comes after. *)
LEMMA ThenReached ==
  ASSUME NEW S, NEW s \in Seq(S), NEW t \in Seq(S), NEW i \in 0 .. Len(s), NEW a,
         StaysAfter(s, i), Then(t, 0, a)
  PROVE  Then(s \o t, i, a)
<1>1. PICK j \in 0 + 1 .. Len(t) : t[j] = a /\ \A k \in 0 + 1 .. j : t[k].op # "Switch"
  BY DEF Then
<1>2. j \in 1 .. Len(t) /\ \A k \in 1 .. j : t[k].op # "Switch"
  BY <1>1
<1>3. Len(s) + j \in i + 1 .. Len(s) + Len(t) /\ (s \o t)[Len(s) + j] = a
  BY <1>1, <1>2, ConcatPlaces
<1>4. ASSUME NEW k \in i + 1 .. Len(s) + j PROVE (s \o t)[k].op # "Switch"
  <2>1. k \in 1 .. Len(s) + Len(t)
    BY <1>2
  <2>2. CASE k \in 1 .. Len(s) /\ (s \o t)[k] = s[k]
    <3>1. k \in i + 1 .. Len(s)
      BY <2>2
    <3>2. QED
      BY <2>2, <3>1 DEF StaysAfter
  <2>3. CASE k - Len(s) \in 1 .. Len(t) /\ (s \o t)[k] = t[k - Len(s)]
    <3>1. k - Len(s) \in 1 .. j
      BY <1>2, <2>3
    <3>2. QED
      BY <1>2, <2>3, <3>1
  <2>4. QED
    BY <2>1, <2>2, <2>3, ConcatSplit
<1>5. Len(s \o t) = Len(s) + Len(t)
  OBVIOUS
<1>6. QED
  BY <1>3, <1>4, <1>5 DEF Then

LEMMA StaysTail ==
  ASSUME NEW S, NEW s \in Seq(S), s # <<>>, NEW i \in 0 .. Len(s) - 1, StaysAfter(s, i + 1)
  PROVE  StaysAfter(Tail(s), i)
<1>1. ASSUME NEW k \in i + 1 .. Len(s) - 1 PROVE Tail(s)[k].op # "Switch"
  <2>1. Tail(s)[k] = s[k + 1] /\ k + 1 \in i + 1 + 1 .. Len(s)
    BY TailPlaces
  <2>2. QED
    BY <2>1 DEF StaysAfter
<1>2. Len(Tail(s)) = Len(s) - 1
  OBVIOUS
<1>3. QED
  BY <1>1, <1>2 DEF StaysAfter

LEMMA StaysRest ==
  ASSUME NEW S, NEW s \in Seq(S), s # <<>>, StaysAfter(s, 0)
  PROVE  s[1].op # "Switch" /\ StaysAfter(Tail(s), 0)
<1>1. \A k \in 1 .. Len(s) : s[k].op # "Switch"
  BY DEF StaysAfter
<1>2. 1 \in 1 .. Len(s) /\ 0 \in 0 .. Len(s) - 1
  OBVIOUS
<1>3. StaysAfter(s, 0 + 1)
  BY <1>1 DEF StaysAfter
<1>4. QED
  BY <1>1, <1>2, <1>3, StaysTail

LEMMA StaysLonger ==
  ASSUME NEW S, NEW s \in Seq(S), NEW t \in Seq(S), NEW i \in 0 .. Len(s),
         StaysAfter(s, i), StaysAfter(t, 0)
  PROVE  StaysAfter(s \o t, i)
<1>1. ASSUME NEW k \in i + 1 .. Len(s) + Len(t) PROVE (s \o t)[k].op # "Switch"
  <2>1. k \in 1 .. Len(s) + Len(t)
    OBVIOUS
  <2>2. CASE k \in 1 .. Len(s) /\ (s \o t)[k] = s[k]
    <3>1. k \in i + 1 .. Len(s)
      BY <2>2
    <3>2. QED
      BY <2>2, <3>1 DEF StaysAfter
  <2>3. CASE k - Len(s) \in 1 .. Len(t) /\ (s \o t)[k] = t[k - Len(s)]
    <3>1. k - Len(s) \in 0 + 1 .. Len(t)
      BY <2>3
    <3>2. QED
      BY <2>3, <3>1 DEF StaysAfter
  <2>4. QED
    BY <2>1, <2>2, <2>3, ConcatSplit
<1>2. Len(s \o t) = Len(s) + Len(t)
  OBVIOUS
<1>3. QED
  BY <1>1, <1>2 DEF StaysAfter

LEMMA LaterComes ==
  ASSUME NEW S, NEW s \in Seq(S), StaysAfter(s, 0), NEW i \in Nat, NEW j \in i + 1 .. Len(s)
  PROVE  Then(s, i, s[j])
<1>1. \A k \in 1 .. Len(s) : s[k].op # "Switch"
  BY DEF StaysAfter
<1>2. \A k \in i + 1 .. j : k \in 1 .. Len(s)
  OBVIOUS
<1>3. QED
  BY <1>1, <1>2 DEF Then

LEMMA LastComes ==
  ASSUME NEW S, NEW s \in Seq(S), StaysAfter(s, 0), NEW i \in 0 .. Len(s) - 1
  PROVE  Then(s, i, s[Len(s)])
<1>1. \A k \in 1 .. Len(s) : s[k].op # "Switch"
  BY DEF StaysAfter
<1>2. Len(s) \in i + 1 .. Len(s) /\ \A k \in i + 1 .. Len(s) : k \in 1 .. Len(s)
  OBVIOUS
<1>3. QED
  BY <1>1, <1>2 DEF Then

-----------------------------------------------------------------------------
(* What the functions send. *)

(* What msg does shows in the next report of device d. *)
Touches(msg, d) ==
  \/ msg.op \in {"Hold", "Release"} /\ DeviceOf[msg.item] = d
  \/ msg.op = "Motion" /\ d = "mouse"

(* Every change that t makes on a device is followed by its report. *)
Reported(t) == \A d \in Device : \A i \in DOMAIN t : Touches(t[i], d) => Then(t, i, Send(d))

(* Whatever t makes an HID hold, it makes it release. *)
Released(t) == \A x \in Item : \A i \in DOMAIN t : t[i] = Hold(x) => Then(t, i, Release(x))

(* t releases nothing but what shortcuts use. *)
ReleasesShortcuts(t) == \A x \in Item : \A i \in DOMAIN t : t[i] = Release(x) => x \in InShortcut

LEMMA PressedSends ==
  ASSUME NEW x \in Item
  PROVE  /\ Pressed(x) \in Seq(Message) /\ Reported(Pressed(x))
         /\ StaysAfter(Pressed(x), 0) /\ ReleasesShortcuts(Pressed(x))
         /\ Len(Pressed(x)) = 2 /\ Pressed(x)[1] = Hold(x) /\ Pressed(x)[2] = Send(DeviceOf[x])
<1> DEFINE t == Pressed(x)
<1>1. Hold(x) \in Message /\ Send(DeviceOf[x]) \in Message
  BY ItemAssumption, MessagesMade
<1>2. /\ t \in Seq(Message) /\ Len(t) = 2 /\ DOMAIN t = {1, 2}
      /\ t[1] = Hold(x) /\ t[2] = Send(DeviceOf[x])
  BY <1>1 DEF Pressed
<1> HIDE DEF t
<1>3. \A i \in {1, 2} : t[i].op # "Switch" /\ t[i].op # "Release"
  BY <1>2, MessageParts
<1>4. StaysAfter(t, 0)
  BY <1>2, <1>3 DEF StaysAfter
<1>5. Then(t, 1, Send(DeviceOf[x]))
  <2>1. 1 \in 0 .. Len(t) - 1 /\ t[Len(t)] = Send(DeviceOf[x])
    BY <1>2
  <2>2. QED
    BY <1>2, <1>4, <2>1, LastComes
<1>6. Reported(t)
  BY <1>2, <1>5, MessageParts DEF Reported, Touches
<1>7. ReleasesShortcuts(t)
  BY <1>2, <1>3, MessageParts DEF ReleasesShortcuts
<1>8. QED
  BY <1>2, <1>4, <1>6, <1>7 DEF t

LEMMA ReleasedSends ==
  ASSUME NEW x \in Item
  PROVE  LET t == <<Release(x), Send(DeviceOf[x])>>
         IN  /\ t \in Seq(Message) /\ Reported(t) /\ StaysAfter(t, 0) /\ Released(t)
             /\ Len(t) = 2 /\ t[1] = Release(x) /\ t[2] = Send(DeviceOf[x])
<1> DEFINE t == <<Release(x), Send(DeviceOf[x])>>
<1>1. Release(x) \in Message /\ Send(DeviceOf[x]) \in Message
  BY ItemAssumption, MessagesMade
<1>2. /\ t \in Seq(Message) /\ Len(t) = 2 /\ DOMAIN t = {1, 2}
      /\ t[1] = Release(x) /\ t[2] = Send(DeviceOf[x])
  BY <1>1
<1> HIDE DEF t
<1>3. \A i \in {1, 2} : t[i].op # "Switch" /\ t[i].op # "Hold"
  BY <1>2, MessageParts
<1>4. StaysAfter(t, 0)
  BY <1>2, <1>3 DEF StaysAfter
<1>5. Then(t, 1, Send(DeviceOf[x]))
  <2>1. 1 \in 0 .. Len(t) - 1 /\ t[Len(t)] = Send(DeviceOf[x])
    BY <1>2
  <2>2. QED
    BY <1>2, <1>4, <2>1, LastComes
<1>6. Reported(t)
  BY <1>2, <1>5, MessageParts DEF Reported, Touches
<1>7. Released(t)
  BY <1>2, <1>3, MessageParts DEF Released
<1>8. QED
  BY <1>2, <1>4, <1>6, <1>7 DEF t

(* A sequence of messages that do nothing to what is held or moved. *)
LEMMA QuietSends ==
  ASSUME NEW t \in Seq(Message),
         \A i \in DOMAIN t : t[i].op \notin {"Hold", "Release", "Motion"}
  PROVE  Reported(t) /\ Released(t) /\ ReleasesShortcuts(t)
BY MessageParts DEF Reported, Released, ReleasesShortcuts, Touches

LEMMA MoveSends ==
  ASSUME NEW d, d.directions \in 1 .. 2
  PROVE  /\ Move(d) \in Seq(Message) /\ Reported(Move(d)) /\ StaysAfter(Move(d), 0)
         /\ Released(Move(d)) /\ ReleasesShortcuts(Move(d))
<1> DEFINE n == d.directions
           s == [i \in 1 .. n |-> Motion]
           t == Move(d)
<1>1. Motion \in Message /\ Send("mouse") \in Message
  BY MessagesMade DEF Device
<1>2. n \in Nat
  OBVIOUS
<1>3. s \in Seq(Message) /\ Len(s) = n /\ \A i \in 1 .. n : s[i] = Motion
  BY <1>1, <1>2
<1>4. t = s \o <<Send("mouse")>>
  BY DEF Move
<1>5. /\ t \in Seq(Message) /\ Len(t) = n + 1 /\ DOMAIN t = 1 .. n + 1
      /\ \A i \in 1 .. n : t[i] = Motion
      /\ t[n + 1] = Send("mouse")
  <2> HIDE DEF n, s, t
  <2>1. /\ t \in Seq(Message) /\ Len(t) = n + 1
        /\ \A i \in 1 .. n : t[i] = s[i]
        /\ t[n + 1] = Send("mouse")
    BY <1>1, <1>2, <1>3, <1>4
  <2>2. QED
    BY <1>2, <1>3, <2>1
<1> HIDE DEF n, s, t
<1>6. \A i \in 1 .. n + 1 : t[i].op # "Switch" /\ t[i].op # "Release" /\ t[i].op # "Hold"
  BY <1>2, <1>5, MessageParts
<1>7. StaysAfter(t, 0)
  BY <1>5, <1>6 DEF StaysAfter
<1>8. \A i \in 1 .. n : Then(t, i, Send("mouse"))
  <2>1. TAKE i \in 1 .. n
  <2>2. i \in 0 .. Len(t) - 1 /\ t[Len(t)] = Send("mouse")
    BY <1>2, <1>5
  <2>3. QED
    BY <1>5, <1>7, <2>2, LastComes
<1>9. Reported(t)
  <2>1. SUFFICES ASSUME NEW e \in Device, NEW i \in 1 .. n + 1, Touches(t[i], e)
                 PROVE  Then(t, i, Send(e))
    BY <1>5 DEF Reported
  <2>2. i # n + 1
    BY <1>5, <2>1, MessageParts DEF Touches
  <2>3. i \in 1 .. n
    BY <1>2, <2>2
  <2>4. e = "mouse"
    BY <1>5, <2>1, <2>3, MessageParts DEF Touches
  <2>5. QED
    BY <1>8, <2>3, <2>4
<1>10. Released(t) /\ ReleasesShortcuts(t)
  BY <1>5, <1>6, MessageParts DEF Released, ReleasesShortcuts
<1>11. QED
  BY <1>5, <1>7, <1>9, <1>10 DEF t

(* A function on 1 .. n is a sequence of length n.                         *)
LEMMA FunctionSeq ==
  ASSUME NEW n \in Nat, NEW S, NEW f \in [1 .. n -> S]
  PROVE  f \in Seq(S) /\ Len(f) = n
OBVIOUS

(* The places of what a shortcut sends. *)
LEMMA ShortcutPlaces ==
  ASSUME NEW d, d.modifiers \in Seq(Item), d.keys \in Seq(Item)
  PROVE  LET t == Shortcut(d)
             m == Len(d.modifiers)
             k == Len(d.keys)
         IN  /\ t \in Seq(Message) /\ m \in Nat /\ k \in Nat
             /\ Len(t) = (m + k + 1) + (k + m + 1)
             /\ \A i \in 1 .. m : t[i] = Hold(d.modifiers[i])
             /\ \A i \in 1 .. k : t[m + i] = Hold(d.keys[i])
             /\ t[m + k + 1] = Send("keyboard")
             /\ \A i \in 1 .. k : t[(m + k + 1) + i] = Release(d.keys[i])
             /\ \A i \in 1 .. m : t[(m + k + 1) + (k + i)] = Release(d.modifiers[i])
             /\ t[(m + k + 1) + (k + m + 1)] = Send("keyboard")
<1> DEFINE m == Len(d.modifiers)
           k == Len(d.keys)
           hm == Each("Hold", d.modifiers)
           hk == Each("Hold", d.keys)
           rk == Each("Release", d.keys)
           rm == Each("Release", d.modifiers)
           sent == <<Send("keyboard")>>
<1>1. /\ \A i \in 1 .. m : d.modifiers[i] \in Item
      /\ \A i \in 1 .. k : d.keys[i] \in Item
      /\ m \in Nat /\ k \in Nat
      /\ DOMAIN d.modifiers = 1 .. m /\ DOMAIN d.keys = 1 .. k
  OBVIOUS
<1>2. /\ hm = [i \in 1 .. m |-> Hold(d.modifiers[i])]
      /\ hk = [i \in 1 .. k |-> Hold(d.keys[i])]
      /\ rk = [i \in 1 .. k |-> Release(d.keys[i])]
      /\ rm = [i \in 1 .. m |-> Release(d.modifiers[i])]
  BY <1>1 DEF Each, Hold, Release
<1> HIDE DEF m, k, hm, hk, rk, rm
<1>3. /\ hm \in Seq(Message) /\ Len(hm) = m /\ \A i \in 1 .. m : hm[i] = Hold(d.modifiers[i])
      /\ hk \in Seq(Message) /\ Len(hk) = k /\ \A i \in 1 .. k : hk[i] = Hold(d.keys[i])
      /\ rk \in Seq(Message) /\ Len(rk) = k /\ \A i \in 1 .. k : rk[i] = Release(d.keys[i])
      /\ rm \in Seq(Message) /\ Len(rm) = m /\ \A i \in 1 .. m : rm[i] = Release(d.modifiers[i])
  <2>1. \A x \in Item : Hold(x) \in Message /\ Release(x) \in Message
    BY MessagesMade
  <2>2. hm \in Seq(Message) /\ Len(hm) = m /\ \A i \in 1 .. m : hm[i] = Hold(d.modifiers[i])
    <3>1. \A i \in 1 .. m : hm[i] = Hold(d.modifiers[i])
      BY <1>2
    <3>2. hm \in [1 .. m -> Message]
      BY <1>1, <1>2, <2>1
    <3>3. QED
      BY <1>1, <3>1, <3>2, FunctionSeq
  <2>3. hk \in Seq(Message) /\ Len(hk) = k /\ \A i \in 1 .. k : hk[i] = Hold(d.keys[i])
    <3>1. \A i \in 1 .. k : hk[i] = Hold(d.keys[i])
      BY <1>2
    <3>2. hk \in [1 .. k -> Message]
      BY <1>1, <1>2, <2>1
    <3>3. QED
      BY <1>1, <3>1, <3>2, FunctionSeq
  <2>4. rk \in Seq(Message) /\ Len(rk) = k /\ \A i \in 1 .. k : rk[i] = Release(d.keys[i])
    <3>1. \A i \in 1 .. k : rk[i] = Release(d.keys[i])
      BY <1>2
    <3>2. rk \in [1 .. k -> Message]
      BY <1>1, <1>2, <2>1
    <3>3. QED
      BY <1>1, <3>1, <3>2, FunctionSeq
  <2>5. rm \in Seq(Message) /\ Len(rm) = m /\ \A i \in 1 .. m : rm[i] = Release(d.modifiers[i])
    <3>1. \A i \in 1 .. m : rm[i] = Release(d.modifiers[i])
      BY <1>2
    <3>2. rm \in [1 .. m -> Message]
      BY <1>1, <1>2, <2>1
    <3>3. QED
      BY <1>1, <3>1, <3>2, FunctionSeq
  <2>6. QED
    BY <2>2, <2>3, <2>4, <2>5
<1>4. sent \in Seq(Message) /\ Len(sent) = 1 /\ sent[1] = Send("keyboard")
  BY MessagesMade DEF Device
<1> HIDE DEF sent
<1> DEFINE a == hm \o hk
           b == a \o sent
           c == b \o rk
           e == c \o rm
           t == e \o sent
<1>5. Shortcut(d) = t
  BY DEF Shortcut, hm, hk, rk, rm, sent
<1>6. /\ a \in Seq(Message) /\ Len(a) = m + k
      /\ \A i \in 1 .. m : a[i] = hm[i]
      /\ \A i \in 1 .. k : a[m + i] = hk[i]
  BY <1>3, ConcatPlaces
<1> HIDE DEF a
<1>7. /\ b \in Seq(Message) /\ Len(b) = m + k + 1
      /\ \A i \in 1 .. m + k : b[i] = a[i]
      /\ b[m + k + 1] = Send("keyboard")
  <2>a. a \in Seq(Message) /\ sent \in Seq(Message)
    BY <1>4, <1>6
  <2>b. b = a \o sent
    OBVIOUS
  <2> HIDE DEF b
  <2>c. /\ b \in Seq(Message) /\ Len(b) = Len(a) + Len(sent)
        /\ \A i \in 1 .. Len(a) : b[i] = a[i]
        /\ \A i \in 1 .. Len(sent) : b[Len(a) + i] = sent[i]
    BY <2>a, <2>b, ConcatAt
  <2>1. /\ b \in Seq(Message) /\ Len(b) = m + k + 1
        /\ \A i \in 1 .. m + k : b[i] = a[i]
        /\ \A i \in 1 .. 1 : b[m + k + i] = sent[i]
    BY <1>4, <1>6, <2>c
  <2>2. 1 \in 1 .. 1
    OBVIOUS
  <2>3. QED
    BY <1>4, <2>1, <2>2
<1> HIDE DEF b
<1>8. /\ c \in Seq(Message) /\ Len(c) = (m + k + 1) + k
      /\ \A i \in 1 .. m + k + 1 : c[i] = b[i]
      /\ \A i \in 1 .. k : c[(m + k + 1) + i] = rk[i]
  <2>a. b \in Seq(Message) /\ rk \in Seq(Message)
    BY <1>3, <1>7
  <2>b. c = b \o rk
    OBVIOUS
  <2> HIDE DEF c
  <2>c. /\ c \in Seq(Message) /\ Len(c) = Len(b) + Len(rk)
        /\ \A i \in 1 .. Len(b) : c[i] = b[i]
        /\ \A i \in 1 .. Len(rk) : c[Len(b) + i] = rk[i]
    BY <2>a, <2>b, ConcatAt
  <2>2. QED
    BY <1>3, <1>7, <2>c
<1> HIDE DEF c
<1>9. /\ e \in Seq(Message) /\ Len(e) = ((m + k + 1) + k) + m
      /\ \A i \in 1 .. (m + k + 1) + k : e[i] = c[i]
      /\ \A i \in 1 .. m : e[((m + k + 1) + k) + i] = rm[i]
  <2>a. c \in Seq(Message) /\ rm \in Seq(Message)
    BY <1>3, <1>8
  <2>b. e = c \o rm
    OBVIOUS
  <2> HIDE DEF e
  <2>c. /\ e \in Seq(Message) /\ Len(e) = Len(c) + Len(rm)
        /\ \A i \in 1 .. Len(c) : e[i] = c[i]
        /\ \A i \in 1 .. Len(rm) : e[Len(c) + i] = rm[i]
    BY <2>a, <2>b, ConcatAt
  <2>2. QED
    BY <1>3, <1>8, <2>c
<1> HIDE DEF e
<1>10. /\ t \in Seq(Message) /\ Len(t) = ((m + k + 1) + k) + m + 1
       /\ \A i \in 1 .. ((m + k + 1) + k) + m : t[i] = e[i]
       /\ t[((m + k + 1) + k) + m + 1] = Send("keyboard")
  <2>a. e \in Seq(Message) /\ sent \in Seq(Message)
    BY <1>4, <1>9
  <2>b. t = e \o sent
    OBVIOUS
  <2> HIDE DEF t
  <2>c. /\ t \in Seq(Message) /\ Len(t) = Len(e) + Len(sent)
        /\ \A i \in 1 .. Len(e) : t[i] = e[i]
        /\ \A i \in 1 .. Len(sent) : t[Len(e) + i] = sent[i]
    BY <2>a, <2>b, ConcatAt
  <2>1. /\ t \in Seq(Message) /\ Len(t) = ((m + k + 1) + k) + m + 1
        /\ \A i \in 1 .. ((m + k + 1) + k) + m : t[i] = e[i]
        /\ \A i \in 1 .. 1 : t[((m + k + 1) + k) + m + i] = sent[i]
    BY <1>4, <1>9, <2>c
  <2>2. 1 \in 1 .. 1
    OBVIOUS
  <2>3. QED
    BY <1>4, <2>1, <2>2
<1> HIDE DEF t
<1>a. \A i \in 1 .. m + k + 1 : /\ i \in 1 .. (m + k + 1) + k
                                /\ i \in 1 .. ((m + k + 1) + k) + m
  BY <1>1
<1>b. \A i \in 1 .. m + k + 1 : t[i] = b[i]
  BY <1>8, <1>9, <1>10, <1>a
<1>11. \A i \in 1 .. m : t[i] = Hold(d.modifiers[i])
  <2>1. \A i \in 1 .. m : i \in 1 .. m + k /\ i \in 1 .. m + k + 1
    BY <1>1
  <2>2. QED
    BY <1>3, <1>6, <1>7, <1>b, <2>1
<1>12. \A i \in 1 .. k : t[m + i] = Hold(d.keys[i])
  <2>1. TAKE i \in 1 .. k
  <2>2. m + i \in 1 .. m + k /\ m + i \in 1 .. m + k + 1
    BY <1>1
  <2>3. a[m + i] = Hold(d.keys[i])
    BY <1>3, <1>6
  <2>4. QED
    BY <1>7, <1>b, <2>2, <2>3
<1>13. t[m + k + 1] = Send("keyboard")
  <2>1. m + k + 1 \in 1 .. m + k + 1
    BY <1>1
  <2>2. QED
    BY <1>7, <1>b, <2>1
<1>14. \A i \in 1 .. k : t[(m + k + 1) + i] = Release(d.keys[i])
  <2>1. TAKE i \in 1 .. k
  <2>2. (m + k + 1) + i \in 1 .. (m + k + 1) + k
    BY <1>1
  <2>3. c[(m + k + 1) + i] = Release(d.keys[i])
    BY <1>3, <1>8
  <2>4. QED
    BY <1>1, <1>9, <1>10, <2>2, <2>3
<1>15. \A i \in 1 .. m : t[(m + k + 1) + (k + i)] = Release(d.modifiers[i])
  <2>1. TAKE i \in 1 .. m
  <2>2. ((m + k + 1) + k) + i \in 1 .. ((m + k + 1) + k) + m /\ ((m + k + 1) + k) + i = (m + k + 1) + (k + i)
    BY <1>1
  <2>3. e[((m + k + 1) + k) + i] = Release(d.modifiers[i])
    BY <1>3, <1>9
  <2>4. QED
    BY <1>10, <2>2, <2>3
<1>16. ((m + k + 1) + k) + m + 1 = (m + k + 1) + (k + m + 1)
  BY <1>1
<1>17. QED
  BY <1>1, <1>5, <1>10, <1>11, <1>12, <1>13, <1>14, <1>15, <1>16 DEF m, k

LEMMA SameItem ==
  ASSUME NEW x, NEW y
  PROVE  (Hold(x) = Hold(y) => x = y) /\ (Release(x) = Release(y) => x = y)
BY DEF Hold, Release

(* A shortcut holds and releases on the keyboard, and nothing else. *)
LEMMA ShortcutSends ==
  ASSUME NEW f \in Function, Def[f].kind = "Shortcut"
  PROVE  LET t == Shortcut(Def[f])
         IN  /\ t \in Seq(Message) /\ Reported(t) /\ StaysAfter(t, 0)
             /\ Released(t) /\ ReleasesShortcuts(t)
<1> DEFINE d == Def[f]
           t == Shortcut(d)
           m == Len(d.modifiers)
           k == Len(d.keys)
           p == m + k + 1
           q == k + m + 1
<1>1. d.modifiers \in Seq(Item) /\ d.keys \in Seq(Item) /\ f \in OfKind("Shortcut")
  BY DefCases
<1>2. /\ \A i \in 1 .. m : /\ d.modifiers[i] \in Item
                           /\ d.modifiers[i] \in InShortcut
                           /\ DeviceOf[d.modifiers[i]] = "keyboard"
      /\ \A i \in 1 .. k : /\ d.keys[i] \in Item
                           /\ d.keys[i] \in InShortcut
                           /\ DeviceOf[d.keys[i]] = "keyboard"
  <2>1. /\ DOMAIN d.modifiers = 1 .. m /\ DOMAIN d.keys = 1 .. k
        /\ \A i \in 1 .. m : d.modifiers[i] \in Item
        /\ \A i \in 1 .. k : d.keys[i] \in Item
    BY <1>1
  <2>2. /\ \A i \in 1 .. m : d.modifiers[i] \in ToSet(d.modifiers)
        /\ \A i \in 1 .. k : d.keys[i] \in ToSet(d.keys)
    BY <2>1 DEF ToSet
  <2>3. ToSet(d.modifiers) \cup ToSet(d.keys) \subseteq ToSet(d.modifiers \o d.keys)
    BY <1>1, ConcatSet
  <2>4. ToSet(d.modifiers \o d.keys) \subseteq InShortcut
    BY <1>1 DEF InShortcut
  <2>5. QED
    BY <1>1, <2>1, <2>2, <2>3, <2>4, ShortcutAssumption
<1>3. /\ t \in Seq(Message) /\ m \in Nat /\ k \in Nat /\ Len(t) = p + q
      /\ \A i \in 1 .. m : t[i] = Hold(d.modifiers[i])
      /\ \A i \in 1 .. k : t[m + i] = Hold(d.keys[i])
      /\ t[p] = Send("keyboard")
      /\ \A i \in 1 .. k : t[p + i] = Release(d.keys[i])
      /\ \A i \in 1 .. m : t[p + (k + i)] = Release(d.modifiers[i])
      /\ t[p + q] = Send("keyboard")
  BY <1>1, ShortcutPlaces
<1>4. p = m + k + 1 /\ q = k + m + 1
  OBVIOUS
<1> HIDE DEF d, t, m, k, p, q
<1>13. p + q \in Nat /\ DOMAIN t = 1 .. p + q
  BY <1>3, <1>4
<1>5. ASSUME NEW i \in 1 .. p + q
      PROVE  \/ i \in 1 .. m
             \/ \E j \in 1 .. k : i = m + j
             \/ i = p
             \/ \E j \in 1 .. k : i = p + j
             \/ \E j \in 1 .. m : i = p + (k + j)
             \/ i = p + q
  <2>1. CASE i <= m
    BY <1>3, <2>1
  <2>2. CASE i > m /\ i < p
    <3>1. i - m \in 1 .. k /\ i = m + (i - m)
      BY <1>3, <1>4, <2>2
    <3>2. QED
      BY <3>1
  <2>3. CASE i > p /\ i <= p + k
    <3>1. i - p \in 1 .. k /\ i = p + (i - p)
      BY <1>3, <1>4, <2>3
    <3>2. QED
      BY <3>1
  <2>4. CASE i > p + k /\ i < p + q
    <3>1. i - (p + k) \in 1 .. m /\ i = p + (k + (i - (p + k)))
      BY <1>3, <1>4, <2>4
    <3>2. QED
      BY <3>1
  <2>5. QED
    BY <1>3, <1>4, <2>1, <2>2, <2>3, <2>4
<1>12. ASSUME NEW i \in 1 .. p + q
       PROVE  \/ t[i] = Send("keyboard")
              \/ \E x \in Item : /\ x \in InShortcut /\ DeviceOf[x] = "keyboard"
                                 /\ t[i] = Hold(x) \/ t[i] = Release(x)
  <2>1. CASE i \in 1 .. m
    BY <1>2, <1>3, <2>1
  <2>2. CASE \E j \in 1 .. k : i = m + j
    BY <1>2, <1>3, <2>2
  <2>3. CASE i = p \/ i = p + q
    BY <1>3, <2>3
  <2>4. CASE \E j \in 1 .. k : i = p + j
    BY <1>2, <1>3, <2>4
  <2>5. CASE \E j \in 1 .. m : i = p + (k + j)
    BY <1>2, <1>3, <2>5
  <2>6. QED
    BY <1>5, <2>1, <2>2, <2>3, <2>4, <2>5
<1>6. ASSUME NEW i \in 1 .. p + q
      PROVE  t[i].op # "Switch" /\ t[i].op # "Motion"
             /\ (t[i].op = "Hold" \/ t[i].op = "Release" => DeviceOf[t[i].item] = "keyboard")
  <2>1. CASE t[i] = Send("keyboard")
    BY <2>1, MessageParts
  <2>2. ASSUME NEW x, DeviceOf[x] = "keyboard", t[i] = Hold(x) \/ t[i] = Release(x)
        PROVE  t[i].op # "Switch" /\ t[i].op # "Motion" /\ DeviceOf[t[i].item] = "keyboard"
    BY <2>2, MessageParts
  <2>3. QED
    BY <1>12, <2>1, <2>2
<1>7. StaysAfter(t, 0)
  BY <1>3, <1>6 DEF StaysAfter
<1>8. Reported(t)
  <2>1. SUFFICES ASSUME NEW e \in Device, NEW i \in 1 .. p + q, Touches(t[i], e)
                 PROVE  Then(t, i, Send(e))
    BY <1>13 DEF Reported
  <2>2. e = "keyboard"
    BY <1>6, <2>1 DEF Touches
  <2>3. i # p + q
    <3>1. Send("keyboard").op = "Send"
      BY MessageParts
    <3>2. QED
      BY <1>3, <2>1, <3>1 DEF Touches
  <2>4. i \in 0 .. Len(t) - 1
    BY <1>3, <1>4, <2>3
  <2>5. Then(t, i, t[Len(t)])
    BY <1>3, <1>7, <2>4, LastComes
  <2>6. QED
    BY <1>3, <2>2, <2>5
<1>9. Released(t)
  <2>1. SUFFICES ASSUME NEW x \in Item, NEW i \in 1 .. p + q, t[i] = Hold(x)
                 PROVE  \E j \in i + 1 .. p + q : t[j] = Release(x)
    <3>1. ASSUME NEW x \in Item, NEW i \in 1 .. p + q, NEW j \in i + 1 .. p + q, t[j] = Release(x)
          PROVE  Then(t, i, Release(x))
      <4>1. j \in i + 1 .. Len(t) /\ i \in Nat
        BY <1>3
      <4>2. QED
        BY <1>3, <1>7, <3>1, <4>1, LaterComes
    <3>2. QED
      BY <1>13, <2>1, <3>1 DEF Released
  <2>2. CASE i \in 1 .. m
    <3>1. x = d.modifiers[i]
      BY <1>3, <2>1, <2>2, SameItem
    <3>2. p + (k + i) \in i + 1 .. p + q
      BY <1>3, <1>4, <2>2
    <3>3. t[p + (k + i)] = Release(x)
      BY <1>3, <2>2, <3>1
    <3>4. QED
      BY <3>2, <3>3
  <2>3. CASE \E j \in 1 .. k : i = m + j
    <3>1. PICK j \in 1 .. k : i = m + j
      BY <2>3
    <3>2. x = d.keys[j]
      <4>1. Hold(x) = Hold(d.keys[j])
        BY <1>3, <2>1, <3>1
      <4>2. QED
        BY <4>1, SameItem
    <3>3. p + j \in i + 1 .. p + q
      BY <1>3, <1>4, <3>1
    <3>4. t[p + j] = Release(x)
      BY <1>3, <3>1, <3>2
    <3>5. QED
      BY <3>3, <3>4
  <2>4. ASSUME NEW y, t[i] = Send(y) \/ t[i] = Release(y) PROVE FALSE
    <3>1. Hold(x).op = "Hold" /\ Send(y).op = "Send" /\ Release(y).op = "Release"
      BY MessageParts
    <3>2. QED
      BY <2>1, <2>4, <3>1
  <2>5. CASE i = p \/ i = p + q
    BY <1>3, <2>4, <2>5
  <2>6. CASE \E j \in 1 .. k : i = p + j
    BY <1>3, <2>4, <2>6
  <2>7. CASE \E j \in 1 .. m : i = p + (k + j)
    BY <1>3, <2>4, <2>7
  <2>8. QED
    BY <1>5, <2>2, <2>3, <2>5, <2>6, <2>7
<1>10. ReleasesShortcuts(t)
  <2>1. SUFFICES ASSUME NEW x \in Item, NEW i \in 1 .. p + q, t[i] = Release(x)
                 PROVE  x \in InShortcut
    BY <1>13 DEF ReleasesShortcuts
  <2>2. ASSUME NEW y, t[i] = Send(y) \/ t[i] = Hold(y) PROVE FALSE
    <3>1. Hold(y).op = "Hold" /\ Send(y).op = "Send" /\ Release(x).op = "Release"
      BY MessageParts
    <3>2. QED
      BY <2>1, <2>2, <3>1
  <2>3. PICK y \in Item : y \in InShortcut /\ t[i] = Release(y)
    BY <1>12, <2>2
  <2>4. QED
    BY <2>1, <2>3, SameItem
<1>11. QED
  BY <1>3, <1>7, <1>8, <1>9, <1>10 DEF t, d

-----------------------------------------------------------------------------
(* Types. *)

TypeInv ==
  /\ down \subseteq Function
  /\ modes \in [OfKind("Toggle") -> Seq(Names)]
  /\ hid_idx \in [OfKind("Toggle") -> Nat]
  /\ queue \in Seq(Message)
  /\ cur_hid \in Hids
  /\ channel \in [Module -> Seq(Message)]
  /\ held \in [Hids -> SUBSET Item]
  /\ report \in [Device -> SUBSET Item]
  /\ moved \in BOOLEAN
  /\ failed \subseteq Device
  /\ missed \in [Hids -> SUBSET Item]

LEMMA TypeInit == Init => TypeInv
<1> SUFFICES ASSUME Init PROVE TypeInv
  OBVIOUS
<1>1. modes \in [OfKind("Toggle") -> Seq(Names)]
  BY FunctionAssumption DEF Init
<1>2. queue \in Seq(Message) /\ channel \in [Module -> Seq(Message)]
  <2>1. queue = <<>> /\ channel = [m \in Module |-> <<>>]
    BY DEF Init
  <2>2. <<>> \in Seq(Message)
    OBVIOUS
  <2>3. QED
    BY <2>1, <2>2
<1>3. QED
  BY <1>1, <1>2 DEF Init, TypeInv, Hids

(* What a function sends when it is pressed. *)
LEMMA PressSends ==
  ASSUME TypeInv, NEW f \in Pressable, ~OutOfModes(f)
  PROVE  /\ f \in Function
         /\ OnPress(f) \in Seq(Message) /\ Reported(OnPress(f)) /\ ReleasesShortcuts(OnPress(f))
         /\ f \notin Switching => StaysAfter(OnPress(f), 0)
         /\ f \in OfKind("Hold") => OnPress(f) = Pressed(Def[f].item) /\ Def[f].item \in Item
         /\ f \notin OfKind("Hold") => Released(OnPress(f))
<1> DEFINE d == Def[f]
           Goal == /\ OnPress(f) \in Seq(Message) /\ Reported(OnPress(f)) /\ ReleasesShortcuts(OnPress(f))
                   /\ f \notin Switching => StaysAfter(OnPress(f), 0)
                   /\ f \in OfKind("Hold") => OnPress(f) = Pressed(Def[f].item) /\ Def[f].item \in Item
                   /\ f \notin OfKind("Hold") => Released(OnPress(f))
<1>1. f \in Function /\ d.kind \in {"Hold", "Type", "Shortcut", "Switch", "Toggle", "SendCommand", "Move"}
  BY DefCases DEF Pressable, OfKind
<1>2. f \in OfKind("Hold") <=> d.kind = "Hold"
  BY <1>1 DEF OfKind
<1>3. f \in Switching <=> d.kind \in {"Switch", "Toggle"}
  BY <1>1 DEF Switching, OfKind
<1> SUFFICES Goal
  BY <1>1
<1> HIDE DEF Goal
<1>4. CASE d.kind = "Hold"
  <2>1. OnPress(f) = Pressed(d.item)
    BY <1>4 DEF OnPress
  <2>2. d.item \in Item
    BY <1>1, <1>4, DefCases
  <2>3. QED
    BY <1>2, <1>4, <2>1, <2>2, PressedSends DEF Goal
<1>5. ASSUME NEW t, t \in Seq(Message), Reported(t), ReleasesShortcuts(t), Released(t),
             f \in Switching \/ StaysAfter(t, 0), OnPress(f) = t, d.kind # "Hold"
      PROVE  Goal
  BY <1>2, <1>5 DEF Goal
<1>6. ASSUME NEW msg, NEW t \in Seq(Message), \A i \in DOMAIN t : t[i] = msg \/ t[i] = Send("keyboard"),
             msg.op \notin {"Hold", "Release", "Motion"}
      PROVE  /\ Reported(t) /\ ReleasesShortcuts(t) /\ Released(t)
             /\ msg.op # "Switch" => StaysAfter(t, 0)
  <2>1. Send("keyboard").op = "Send"
    BY MessageParts
  <2>2. \A i \in DOMAIN t : t[i].op \notin {"Hold", "Release", "Motion"}
    BY <1>6, <2>1
  <2>3. Reported(t) /\ ReleasesShortcuts(t) /\ Released(t)
    BY <2>2, QuietSends
  <2>4. ASSUME msg.op # "Switch" PROVE StaysAfter(t, 0)
    BY <1>6, <2>1, <2>4 DEF StaysAfter
  <2>5. QED
    BY <2>3, <2>4
<1>7. CASE d.kind = "Type"
  <2>1. OnPress(f) = <<Type(d.items), Send("keyboard")>>
    BY <1>7 DEF OnPress
  <2>2. Type(d.items) \in Message /\ Type(d.items).op = "Type" /\ Send("keyboard") \in Message
    BY <1>1, <1>7, DefCases, MessagesMade, MessageParts DEF Device
  <2> DEFINE t == <<Type(d.items), Send("keyboard")>>
  <2>3. t \in Seq(Message) /\ \A i \in DOMAIN t : t[i] = Type(d.items) \/ t[i] = Send("keyboard")
    BY <2>2
  <2> HIDE DEF t
  <2>4. OnPress(f) = t
    BY <2>1 DEF t
  <2>5. QED
    BY <1>5, <1>6, <1>7, <2>2, <2>3, <2>4
<1>8. ASSUME NEW msg \in Message, msg.op \in {"Switch", "SendCommand"}, OnPress(f) = <<msg>>,
             d.kind # "Hold", msg.op = "Switch" => f \in Switching
      PROVE  Goal
  <2> DEFINE t == <<msg>>
  <2>1. t \in Seq(Message) /\ \A i \in DOMAIN t : t[i] = msg
    OBVIOUS
  <2>2. OnPress(f) = t
    BY <1>8
  <2> HIDE DEF t
  <2>3. QED
    BY <1>5, <1>6, <1>8, <2>1, <2>2
<1>9. CASE d.kind = "Switch"
  <2>1. OnPress(f) = <<SwitchTo(d.name)>>
    BY <1>9 DEF OnPress
  <2>2. SwitchTo(d.name) \in Message /\ SwitchTo(d.name).op = "Switch"
    BY <1>1, <1>9, DefCases, MessagesMade, MessageParts
  <2>3. QED
    BY <1>3, <1>8, <1>9, <2>1, <2>2
<1>10. CASE d.kind = "Toggle"
  <2>1. OnPress(f) = <<SwitchTo(modes[f][hid_idx[f] + 1])>>
    BY <1>10 DEF OnPress
  <2>2. modes[f][hid_idx[f] + 1] \in Names
    <3>1. f \in OfKind("Toggle")
      BY <1>1, <1>10 DEF OfKind
    <3>2. modes[f] \in Seq(Names) /\ hid_idx[f] \in Nat /\ ~(hid_idx[f] >= Len(modes[f]))
      BY <3>1 DEF TypeInv, OutOfModes
    <3>3. hid_idx[f] + 1 \in 1 .. Len(modes[f])
      BY <3>2
    <3>4. QED
      BY <3>2, <3>3
  <2>3. SwitchTo(modes[f][hid_idx[f] + 1]) \in Message /\ SwitchTo(modes[f][hid_idx[f] + 1]).op = "Switch"
    BY <2>2, MessagesMade, MessageParts
  <2>4. QED
    BY <1>3, <1>8, <1>10, <2>1, <2>3
<1>11. CASE d.kind = "SendCommand"
  <2>1. OnPress(f) = <<CommandTo(d.name)>>
    BY <1>11 DEF OnPress
  <2>2. CommandTo(d.name) \in Message /\ CommandTo(d.name).op = "SendCommand"
    BY <1>1, <1>11, DefCases, MessagesMade, MessageParts
  <2>3. QED
    BY <1>8, <1>11, <2>1, <2>2
<1>12. CASE d.kind = "Shortcut"
  <2>1. OnPress(f) = Shortcut(d)
    BY <1>12 DEF OnPress
  <2>2. QED
    BY <1>1, <1>5, <1>12, <2>1, ShortcutSends
<1>13. CASE d.kind = "Move"
  <2>1. OnPress(f) = Move(d)
    BY <1>13 DEF OnPress
  <2>2. d.directions \in 1 .. 2
    BY <1>1, <1>13, DefCases
  <2>3. QED
    BY <1>5, <1>13, <2>1, <2>2, MoveSends
<1>14. QED
  BY <1>1, <1>4, <1>7, <1>9, <1>10, <1>11, <1>12, <1>13

(* What it sends when it is released, and what a repeated movement sends. *)
LEMMA ReleaseSends ==
  ASSUME NEW f \in Function
  PROVE  /\ OnRelease(f) \in Seq(Message) /\ Reported(OnRelease(f))
         /\ StaysAfter(OnRelease(f), 0) /\ Released(OnRelease(f))
         /\ f \in OfKind("Hold") => /\ Def[f].item \in Item
                                    /\ OnRelease(f) = <<Release(Def[f].item), Send(DeviceOf[Def[f].item])>>
         /\ f \notin OfKind("Hold") => OnRelease(f) = <<>>
<1>1. CASE f \in OfKind("Hold")
  <2>1. OnRelease(f) = <<Release(Def[f].item), Send(DeviceOf[Def[f].item])>>
    BY <1>1 DEF OnRelease
  <2>2. Def[f].item \in Item
    BY <1>1, DefCases
  <2>3. QED
    BY <1>1, <2>1, <2>2, ReleasedSends
<1>2. CASE f \notin OfKind("Hold")
  <2>1. OnRelease(f) = <<>>
    BY <1>2 DEF OnRelease
  <2>2. <<>> \in Seq(Message) /\ DOMAIN <<>> = {} /\ Len(<<>>) = 0
    OBVIOUS
  <2>3. Reported(<<>>) /\ StaysAfter(<<>>, 0) /\ Released(<<>>)
    BY <2>2 DEF Reported, StaysAfter, Released
  <2>4. QED
    BY <1>2, <2>1, <2>2, <2>3
<1>3. QED
  BY <1>1, <1>2

LEMMA RepeatSends ==
  ASSUME NEW f \in OfKind("Repeat")
  PROVE  /\ Move(Def[f]) \in Seq(Message) /\ Reported(Move(Def[f])) /\ StaysAfter(Move(Def[f]), 0)
         /\ Released(Move(Def[f])) /\ ReleasesShortcuts(Move(Def[f]))
<1>1. f \in Function /\ Def[f].kind = "Repeat"
  BY DEF OfKind
<1>2. Def[f].directions \in 1 .. 2
  BY <1>1, DefCases
<1>3. QED
  BY <1>2, MoveSends

(* The message that a thread receives. *)
LEMMA ReceivedType ==
  ASSUME TypeInv, NEW msg, Receive(msg)
  PROVE  /\ queue # <<>> /\ msg = queue[1] /\ queue' = Tail(queue) /\ msg \in Message
         /\ queue \in Seq(Message) /\ queue' \in Seq(Message)
         /\ UNCHANGED <<down, modes, hid_idx, alive>>
<1>1. queue \in Seq(Message) /\ queue # <<>> /\ msg = Head(queue) /\ queue' = Tail(queue)
  BY DEF TypeInv, Receive
<1>2. QED
  BY <1>1, TailPlaces DEF Receive, loopVars

LEMMA HeldType ==
  ASSUME TypeInv, NEW h \in Hids, NEW msg \in Message
  PROVE  HeldAfter(h, msg) \in SUBSET Item
<1>1. held[h] \in SUBSET Item
  BY DEF TypeInv
<1>2. CASE msg.op = "Hold"
  BY <1>1, <1>2, MessageCases DEF HeldAfter
<1>3. CASE msg.op = "Release"
  BY <1>1, <1>3, MessageCases DEF HeldAfter
<1>4. CASE msg.op \notin {"Hold", "Release"}
  BY <1>1, <1>4 DEF HeldAfter
<1>5. QED
  BY <1>2, <1>3, <1>4

LEMMA TypeLoop ==
  ASSUME TypeInv,
         \/ \E f \in Pressable : Press(f) \/ ReleaseKey(f)
         \/ \E f \in OfKind("Repeat") : Repeat(f)
         \/ \E f \in OfKind("Toggle"), list \in ModeLists : SetModes(f, list)
  PROVE  TypeInv'
<1>1. ASSUME NEW f \in Pressable, Press(f)
      PROVE  TypeInv'
  <2>1. UNCHANGED <<modes, cur_hid, channel, held, report, moved, failed, missed>>
    BY <1>1 DEF Press
  <2>2. CASE OutOfModes(f)
    BY <1>1, <2>1, <2>2 DEF Press, TypeInv
  <2>3. CASE ~OutOfModes(f)
    <3>1. OnPress(f) \in Seq(Message) /\ f \in Function
      BY <2>3, PressSends
    <3>2. queue' \in Seq(Message)
      <4>1. queue' = queue \o OnPress(f) /\ queue \in Seq(Message)
        BY <1>1, <2>3 DEF Press, TypeInv
      <4>2. QED
        BY <3>1, <4>1, ConcatPlaces
    <3>3. hid_idx' \in [OfKind("Toggle") -> Nat]
      <4>1. hid_idx' = [g \in DOMAIN hid_idx |-> IF g = f THEN NextMode(f) ELSE hid_idx[g]]
        BY <1>1, <2>3 DEF Press
      <4>2. f \in OfKind("Toggle") => NextMode(f) \in Nat
        BY DEF TypeInv, NextMode
      <4>3. QED
        BY <4>1, <4>2 DEF TypeInv
    <3>4. down' \subseteq Function
      BY <1>1, <2>3, <3>1 DEF Press, TypeInv
    <3>5. QED
      BY <2>1, <3>2, <3>3, <3>4 DEF TypeInv
  <2>4. QED
    BY <2>2, <2>3
<1>2. ASSUME NEW f \in Pressable, ReleaseKey(f)
      PROVE  TypeInv'
  <2>1. OnRelease(f) \in Seq(Message)
    BY ReleaseSends DEF Pressable
  <2>2. queue' \in Seq(Message)
    BY <1>2, <2>1 DEF ReleaseKey, TypeInv
  <2>3. QED
    BY <1>2, <2>2 DEF ReleaseKey, TypeInv
<1>3. ASSUME NEW f \in OfKind("Repeat"), Repeat(f)
      PROVE  TypeInv'
  <2>1. queue' \in Seq(Message)
    BY <1>3, RepeatSends DEF Repeat, TypeInv
  <2>2. QED
    BY <1>3, <2>1 DEF Repeat, TypeInv
<1>4. ASSUME NEW f \in OfKind("Toggle"), NEW list \in ModeLists, SetModes(f, list)
      PROVE  TypeInv'
  <2>1. modes' \in [OfKind("Toggle") -> Seq(Names)]
    BY <1>4, FunctionAssumption DEF SetModes, TypeInv
  <2>2. QED
    BY <1>4, <2>1 DEF SetModes, TypeInv
<1>5. QED
  BY <1>1, <1>2, <1>3, <1>4

(* The items of a text. *)
LEMMA TextItems ==
  ASSUME NEW msg \in Message, msg.op = "Type"
  PROVE  msg.items \subseteq Item /\ msg.items \subseteq InText
<1>1. PICK f \in OfKind("Type") : msg.items = Def[f].items
  BY MessageCases DEF Texts
<1>2. Def[f] \in Definition /\ Def[f].kind = "Type"
  BY FunctionAssumption DEF OfKind
<1>3. msg.items \subseteq Mapped
  BY <1>1, <1>2 DEF Definition
<1>4. QED
  BY <1>1, <1>3, ItemAssumption DEF InText, Texts

LEMMA TypeThreads ==
  ASSUME TypeInv, Threads
  PROVE  TypeInv'
<1>1. ASSUME NEW msg, Receive(msg),
             held' \in [Hids -> SUBSET Item], channel' \in [Module -> Seq(Message)], cur_hid' \in Hids,
             report' \in [Device -> SUBSET Item], moved' \in BOOLEAN, failed' \subseteq Device,
             missed' \in [Hids -> SUBSET Item]
      PROVE  TypeInv'
  BY <1>1, ReceivedType DEF TypeInv
<1>2. CASE ToUsb
  <2>1. PICK msg : /\ Receive(msg) /\ held' = [held EXCEPT !["usb"] = HeldAfter("usb", msg)]
                   /\ moved' = (moved \/ msg = Motion) /\ UNCHANGED <<cur_hid, channel, report, failed, missed>>
    BY <1>2 DEF ToUsb
  <2>2. HeldAfter("usb", msg) \in SUBSET Item
    BY <2>1, ReceivedType, HeldType DEF Hids
  <2>3. held' \in [Hids -> SUBSET Item]
    BY <2>1, <2>2 DEF TypeInv
  <2>4. moved' \in BOOLEAN
    BY <2>1
  <2>5. QED
    BY <1>1, <2>1, <2>3, <2>4 DEF TypeInv
<1>3. CASE UsbSend
  <2>1. PICK msg : /\ Receive(msg) /\ report' = [report EXCEPT ![msg.device] = OnDevice(msg.device)]
                   /\ moved' = (moved /\ msg.device # "mouse") /\ failed' = failed \ {msg.device}
                   /\ UNCHANGED <<cur_hid, channel, held, missed>>
    BY <1>3 DEF UsbSend
  <2>2. OnDevice(msg.device) \subseteq Item
    BY DEF OnDevice, TypeInv, Hids
  <2>3. report' \in [Device -> SUBSET Item]
    BY <2>1, <2>2 DEF TypeInv
  <2>4. moved' \in BOOLEAN
    BY <2>1
  <2>5. QED
    BY <1>1, <2>1, <2>3, <2>4 DEF TypeInv
<1>4. CASE UsbSendFails
  <2>1. PICK msg : /\ Receive(msg) /\ msg.op = "Send" /\ failed' = failed \cup {msg.device}
                   /\ moved' \in {moved, moved /\ msg.device # "mouse"}
                   /\ UNCHANGED <<cur_hid, channel, held, report, missed>>
    BY <1>4 DEF UsbSendFails
  <2>2. msg.device \in Device
    BY <2>1, ReceivedType, MessageCases
  <2>3. moved' \in BOOLEAN
    BY <2>1 DEF TypeInv
  <2>4. QED
    BY <1>1, <2>1, <2>2, <2>3 DEF TypeInv
<1>5. CASE ToUinput
  <2>1. PICK msg : /\ Receive(msg)
                   /\ held' = [held EXCEPT !["uinput"] =
                                 IF msg.op = "Type" THEN @ \ msg.items
                                 ELSE HeldAfter("uinput", msg) \cap Mapped]
                   /\ missed' = [missed EXCEPT !["uinput"] = @ \ About(msg)]
                   /\ UNCHANGED <<cur_hid, channel, report, moved, failed>>
    BY <1>5 DEF ToUinput
  <2>2. HeldAfter("uinput", msg) \in SUBSET Item
    BY <2>1, ReceivedType, HeldType DEF Hids
  <2>3. held' \in [Hids -> SUBSET Item]
    BY <2>1, <2>2 DEF TypeInv
  <2>4. missed' \in [Hids -> SUBSET Item]
    BY <2>1 DEF TypeInv
  <2>5. QED
    BY <1>1, <2>1, <2>3, <2>4 DEF TypeInv
<1>5a. CASE ToUinputFails
  <2>1. PICK msg, left :
          /\ Receive(msg) /\ UNCHANGED <<cur_hid, channel, report, moved, failed>>
          /\ \/ /\ msg.item \in Mapped /\ UNCHANGED held
                /\ missed' = [missed EXCEPT !["uinput"] = @ \cup {msg.item}]
             \/ /\ msg.op = "Type" /\ left \in SUBSET msg.items
                /\ held' = [held EXCEPT !["uinput"] = (@ \ msg.items) \cup left]
                /\ missed' = [missed EXCEPT !["uinput"] = (@ \ msg.items) \cup left]
    BY <1>5a DEF ToUinputFails
  <2>2. msg.op = "Type" => msg.items \subseteq Item
    BY <2>1, ReceivedType, TextItems
  <2>3. held' \in [Hids -> SUBSET Item] /\ missed' \in [Hids -> SUBSET Item]
    BY <2>1, <2>2, ItemAssumption DEF TypeInv
  <2>4. QED
    BY <1>1, <2>1, <2>3 DEF TypeInv
<1>6. CASE ToModule
  <2>1. PICK msg : /\ Receive(msg) /\ cur_hid \in Module
                   /\ channel' = [channel EXCEPT ![cur_hid] = Append(@, msg)]
                   /\ UNCHANGED <<cur_hid, held, report, moved, failed, missed>>
    BY <1>6 DEF ToModule
  <2>2. msg \in Message
    BY <2>1, ReceivedType
  <2>3. channel' \in [Module -> Seq(Message)]
    BY <2>1, <2>2 DEF TypeInv
  <2>4. QED
    BY <1>1, <2>1, <2>3 DEF TypeInv
<1>7. CASE Switch
  <2>1. PICK msg : Receive(msg) /\ cur_hid' = HidNamed(msg.name) /\ UNCHANGED <<channel, held, report, moved, failed, missed>>
    BY <1>7 DEF Switch
  <2>2. cur_hid' \in Hids
    BY <2>1 DEF HidNamed, TypeInv
  <2>3. QED
    BY <1>1, <2>1, <2>2 DEF TypeInv
<1>8. CASE SendCommand
  <2>1. PICK msg : /\ Receive(msg)
                   /\ channel' = [m \in Module |-> IF m = msg.name THEN Append(channel[m], msg) ELSE channel[m]]
                   /\ UNCHANGED <<cur_hid, held, report, moved, failed, missed>>
    BY <1>8 DEF SendCommand
  <2>2. msg \in Message
    BY <2>1, ReceivedType
  <2>3. channel' \in [Module -> Seq(Message)]
    <3>1. \A m \in Module : channel[m] \in Seq(Message) /\ Append(channel[m], msg) \in Seq(Message)
      BY <2>2 DEF TypeInv
    <3>2. QED
      BY <2>1, <3>1
  <2>4. QED
    BY <1>1, <2>1, <2>3 DEF TypeInv
<1>9. ASSUME NEW m \in Module, ModuleReceives(m)
      PROVE  TypeInv'
  <2>1. channel[m] \in Seq(Message) /\ channel[m] # <<>>
    BY <1>9 DEF ModuleReceives, TypeInv
  <2>2. Tail(channel[m]) \in Seq(Message) /\ Head(channel[m]) \in Message
    BY <2>1, TailPlaces
  <2>3. HeldAfter(m, Head(channel[m])) \in SUBSET Item
    BY <2>2, HeldType DEF Hids
  <2>4. channel' \in [Module -> Seq(Message)] /\ held' \in [Hids -> SUBSET Item]
    BY <1>9, <2>2, <2>3 DEF ModuleReceives, TypeInv
  <2>5. missed' \in [Hids -> SUBSET Item]
    BY <1>9 DEF ModuleReceives, TypeInv
  <2>6. QED
    BY <1>9, <2>4, <2>5 DEF ModuleReceives, loopVars, TypeInv
<1>10. ASSUME NEW m \in Module, ModuleFails(m)
       PROVE  TypeInv'
  <2>1. channel[m] \in Seq(Message) /\ channel[m] # <<>> /\ Head(channel[m]).op \in {"Hold", "Release"}
    BY <1>10 DEF ModuleFails, TypeInv
  <2>2. Tail(channel[m]) \in Seq(Message) /\ Head(channel[m]) \in Message
    BY <2>1, TailPlaces
  <2>3. About(Head(channel[m])) \subseteq Item
    BY <2>1, <2>2, MessageCases DEF About
  <2>4. channel' \in [Module -> Seq(Message)] /\ missed' \in [Hids -> SUBSET Item]
    BY <1>10, <2>2, <2>3 DEF ModuleFails, TypeInv
  <2>5. QED
    BY <1>10, <2>4 DEF ModuleFails, loopVars, TypeInv
<1>11. QED
  BY <1>2, <1>3, <1>4, <1>5, <1>5a, <1>6, <1>7, <1>8, <1>9, <1>10 DEF Threads

LEMMA TypeStep ==
  ASSUME TypeInv, [Next]_vars
  PROVE  TypeInv'
<1>1. CASE UNCHANGED vars
  BY <1>1 DEF vars, loopVars, TypeInv
<1>2. QED
  BY <1>1, TypeLoop, TypeThreads DEF Next

(* Both specifications take steps of Next. *)
LEMMA CarefulIsNext == [CarefulNext]_vars => [Next]_vars
BY DEF CarefulNext, Next

(* What a step of the event loop does to the queue. *)
LEMMA LoopSends ==
  ASSUME TypeInv,
         \/ \E f \in Pressable : Press(f) \/ ReleaseKey(f)
         \/ \E f \in OfKind("Repeat") : Repeat(f)
         \/ \E f \in OfKind("Toggle"), list \in ModeLists : SetModes(f, list)
  PROVE  /\ UNCHANGED <<cur_hid, channel, held, report, moved, failed, missed>>
         /\ \/ UNCHANGED queue
            \/ \E t \in Seq(Message) : queue' = queue \o t /\ Reported(t)
<1>1. ASSUME NEW f \in Pressable, Press(f)
      PROVE  UNCHANGED queue \/ \E t \in Seq(Message) : queue' = queue \o t /\ Reported(t)
  <2>1. CASE OutOfModes(f)
    BY <1>1, <2>1 DEF Press
  <2>2. CASE ~OutOfModes(f)
    BY <1>1, <2>2, PressSends DEF Press
  <2>3. QED
    BY <2>1, <2>2
<1>2. ASSUME NEW f \in Pressable, ReleaseKey(f)
      PROVE  \E t \in Seq(Message) : queue' = queue \o t /\ Reported(t)
  BY <1>2, ReleaseSends DEF ReleaseKey, Pressable
<1>3. ASSUME NEW f \in OfKind("Repeat"), Repeat(f)
      PROVE  \E t \in Seq(Message) : queue' = queue \o t /\ Reported(t)
  BY <1>3, RepeatSends DEF Repeat
<1>4. QED
  BY <1>1, <1>2, <1>3 DEF Press, ReleaseKey, Repeat, SetModes

-----------------------------------------------------------------------------
(* The host knows the state of the usb devices. *)

(* The last report of device d, if the host had it, was of what d is now. *)
Current(d) == report[d] = OnDevice(d) /\ (d = "mouse" => ~moved)

(* Every change in the queue has its report behind it, before any switch;  *)
(* and if the host is not up to date, the report that it misses is in the  *)
(* queue, and still goes to usb.                                           *)
PendingReported == \A d \in Device : \A i \in DOMAIN queue : Touches(queue[i], d) => Then(queue, i, Send(d))

ReportDue(d) == cur_hid = "usb" /\ Then(queue, 0, Send(d))

ReportInv == PendingReported /\ \A d \in Device : d \in failed \/ Current(d) \/ ReportDue(d)

LEMMA PendingTail ==
  ASSUME TypeInv, PendingReported, queue # <<>>, queue' = Tail(queue)
  PROVE  PendingReported'
<1>1. SUFFICES ASSUME NEW d \in Device, NEW i \in DOMAIN queue', Touches(queue'[i], d)
               PROVE  Then(queue', i, Send(d))
  BY DEF PendingReported
<1>2. queue \in Seq(Message)
  BY DEF TypeInv
<1>3. i \in 1 .. Len(queue) - 1 /\ queue'[i] = queue[i + 1] /\ Len(queue) \in Nat
      /\ DOMAIN queue = 1 .. Len(queue)
  BY <1>2, TailPlaces
<1>4. i + 1 \in DOMAIN queue /\ i \in 0 .. Len(queue) - 1
  BY <1>3
<1>5. Then(queue, i + 1, Send(d))
  BY <1>1, <1>3, <1>4 DEF PendingReported
<1>6. QED
  BY <1>2, <1>4, <1>5, ThenTail

LEMMA ReportLoop ==
  ASSUME TypeInv, ReportInv, NEW t \in Seq(Message), queue' = queue \o t, Reported(t),
         UNCHANGED <<cur_hid, held, report, moved, failed>>
  PROVE  ReportInv'
<1>1. queue \in Seq(Message) /\ 0 \in 0 .. Len(queue)
  BY DEF TypeInv
<1>2. ASSUME NEW d \in Device, NEW i \in DOMAIN queue', Touches(queue'[i], d)
      PROVE  Then(queue', i, Send(d))
  <2>1. i \in 1 .. Len(queue) + Len(t) /\ DOMAIN queue = 1 .. Len(queue) /\ DOMAIN t = 1 .. Len(t)
        /\ Len(queue) \in Nat /\ Len(t) \in Nat
    BY <1>1, ConcatPlaces
  <2>2. CASE i \in 1 .. Len(queue) /\ queue'[i] = queue[i]
    <3>1. Then(queue, i, Send(d))
      BY <1>2, <2>1, <2>2 DEF ReportInv, PendingReported
    <3>2. i \in 0 .. Len(queue)
      BY <2>2
    <3>3. QED
      BY <1>1, <3>1, <3>2, ThenLonger
  <2>3. CASE i - Len(queue) \in 1 .. Len(t) /\ queue'[i] = t[i - Len(queue)] /\ i = Len(queue) + (i - Len(queue))
    <3>1. Then(t, i - Len(queue), Send(d))
      BY <1>2, <2>1, <2>3 DEF Reported
    <3>2. i - Len(queue) \in 0 .. Len(t)
      BY <2>3
    <3>3. Then(queue', Len(queue) + (i - Len(queue)), Send(d))
      BY <1>1, <3>1, <3>2, ThenAdded
    <3>4. QED
      BY <2>3, <3>3
  <2>4. QED
    BY <1>1, <2>1, <2>2, <2>3, ConcatSplit
<1>3. ASSUME NEW d \in Device, ReportDue(d)
      PROVE  ReportDue(d)'
  BY <1>1, <1>3, ThenLonger DEF ReportDue
<1>4. ASSUME NEW d \in Device, Current(d)
      PROVE  Current(d)'
  BY <1>4 DEF Current, OnDevice
<1>5. ASSUME NEW d \in Device
      PROVE  (d \in failed \/ Current(d) \/ ReportDue(d))'
  BY <1>3, <1>4 DEF ReportInv
<1>6. QED
  BY <1>2, <1>5 DEF ReportInv, PendingReported

(* A message that leaves the state of device d as it is. *)
LEMMA ReportQuiet ==
  ASSUME TypeInv, ReportInv, NEW msg, Receive(msg), NEW d \in Device,
         ~(msg.op = "Send" /\ msg.device = d), msg.op # "Switch" => UNCHANGED cur_hid,
         Current(d) => Current(d)', d \in failed => d \in failed'
  PROVE  (d \in failed \/ Current(d) \/ ReportDue(d))'
<1>1. queue # <<>> /\ msg = queue[1] /\ queue' = Tail(queue) /\ queue \in Seq(Message)
  BY ReceivedType
<1>2. CASE d \in failed
  BY <1>2
<1>3. CASE Current(d)
  BY <1>3
<1>4. CASE ReportDue(d)
  <2>1. msg.op # "Switch" /\ (msg = Send(d) \/ Then(Tail(queue), 0, Send(d)))
    BY <1>1, <1>4, ThenRest DEF ReportDue
  <2>2. msg # Send(d)
    BY MessageParts
  <2>3. QED
    BY <1>1, <1>4, <2>1, <2>2 DEF ReportDue
<1>5. QED
  BY <1>2, <1>3, <1>4 DEF ReportInv

(* While usb is not the current HID, the host is up to date with it. *)
LEMMA ReportElsewhere ==
  ASSUME TypeInv, ReportInv, NEW msg, Receive(msg), cur_hid # "usb",
         held'["usb"] = held["usb"], UNCHANGED <<report, moved, failed>>
  PROVE  ReportInv'
<1>1. PendingReported'
  BY PendingTail, ReceivedType DEF ReportInv
<1>2. ASSUME NEW d \in Device
      PROVE  (d \in failed \/ Current(d) \/ ReportDue(d))'
  BY DEF ReportInv, ReportDue, Current, OnDevice
<1>3. QED
  BY <1>1, <1>2 DEF ReportInv

LEMMA ReportThreads ==
  ASSUME TypeInv, ReportInv, Threads
  PROVE  ReportInv'
<1>1. ASSUME NEW msg, Receive(msg), \A d \in Device : (d \in failed \/ Current(d) \/ ReportDue(d))'
      PROVE  ReportInv'
  BY <1>1, PendingTail, ReceivedType DEF ReportInv
<1>2. CASE ToUsb
  <2>1. PICK msg : /\ Receive(msg) /\ Routed(msg) /\ msg.op # "Send" /\ cur_hid = "usb"
                   /\ held' = [held EXCEPT !["usb"] = HeldAfter("usb", msg)]
                   /\ moved' = (moved \/ msg = Motion) /\ UNCHANGED <<cur_hid, channel, report, failed>>
    BY <1>2 DEF ToUsb
  <2>2. queue # <<>> /\ msg = queue[1] /\ queue' = Tail(queue) /\ queue \in Seq(Message) /\ msg \in Message
        /\ 1 \in DOMAIN queue /\ 0 \in 0 .. Len(queue) - 1
    BY <2>1, ReceivedType
  <2>3. held'["usb"] = HeldAfter("usb", msg)
    BY <2>1 DEF TypeInv, Hids
  <2>4. ASSUME NEW d \in Device
        PROVE  (d \in failed \/ Current(d) \/ ReportDue(d))'
    <3>1. CASE Touches(msg, d)
      <4>1. Then(queue, 0 + 1, Send(d))
        BY <2>2, <3>1 DEF ReportInv, PendingReported
      <4>2. Then(queue', 0, Send(d))
        BY <2>2, <4>1, ThenTail
      <4>3. QED
        BY <2>1, <4>2 DEF ReportDue
    <3>2. CASE ~Touches(msg, d)
      <4>1. OnDevice(d)' = OnDevice(d)
        <5>1. CASE msg.op = "Hold"
          BY <2>3, <3>2, <5>1 DEF OnDevice, HeldAfter, Touches
        <5>2. CASE msg.op = "Release"
          BY <2>3, <3>2, <5>2 DEF OnDevice, HeldAfter, Touches
        <5>3. CASE msg.op \notin {"Hold", "Release"}
          BY <2>3, <5>3 DEF OnDevice, HeldAfter
        <5>4. QED
          BY <5>1, <5>2, <5>3
      <4>2. msg = Motion => d # "mouse"
        BY <3>2, MessageParts DEF Touches
      <4>3. Current(d) => Current(d)'
        BY <2>1, <4>1, <4>2 DEF Current
      <4>4. QED
        BY <2>1, <4>3, ReportQuiet
    <3>3. QED
      BY <3>1, <3>2
  <2>5. QED
    BY <1>1, <2>1, <2>4
<1>3. CASE UsbSend
  <2>1. PICK msg : /\ Receive(msg) /\ msg.op = "Send" /\ cur_hid = "usb"
                   /\ report' = [report EXCEPT ![msg.device] = OnDevice(msg.device)]
                   /\ moved' = (moved /\ msg.device # "mouse") /\ failed' = failed \ {msg.device}
                   /\ UNCHANGED <<cur_hid, channel, held>>
    BY <1>3 DEF UsbSend
  <2>2. ASSUME NEW d \in Device
        PROVE  (d \in failed \/ Current(d) \/ ReportDue(d))'
    <3>1. CASE msg.device = d
      <4>1. report'[d] = OnDevice(d) /\ OnDevice(d)' = OnDevice(d)
        BY <2>1, <3>1 DEF TypeInv, OnDevice
      <4>2. d = "mouse" => ~moved'
        BY <2>1, <3>1
      <4>3. QED
        BY <4>1, <4>2 DEF Current
    <3>2. CASE msg.device # d
      <4>1. report'[d] = report[d] /\ OnDevice(d)' = OnDevice(d)
        BY <2>1, <3>2 DEF TypeInv, OnDevice
      <4>2. ~moved => ~moved'
        BY <2>1
      <4>3. Current(d) => Current(d)'
        BY <4>1, <4>2 DEF Current
      <4>4. d \in failed => d \in failed'
        BY <2>1, <3>2
      <4>5. QED
        BY <2>1, <3>2, <4>3, <4>4, ReportQuiet
    <3>3. QED
      BY <3>1, <3>2
  <2>3. QED
    BY <1>1, <2>1, <2>2
<1>4. CASE UsbSendFails
  <2>1. PICK msg : /\ Receive(msg) /\ msg.op = "Send" /\ cur_hid = "usb"
                   /\ failed' = failed \cup {msg.device}
                   /\ moved' \in {moved, moved /\ msg.device # "mouse"}
                   /\ UNCHANGED <<cur_hid, channel, held, report>>
    BY <1>4 DEF UsbSendFails
  <2>2. ASSUME NEW d \in Device
        PROVE  (d \in failed \/ Current(d) \/ ReportDue(d))'
    <3>1. CASE msg.device = d
      BY <2>1, <3>1
    <3>2. CASE msg.device # d
      <4>1. ~moved => ~moved'
        BY <2>1
      <4>2. Current(d) => Current(d)'
        BY <2>1, <4>1 DEF Current, OnDevice
      <4>3. d \in failed => d \in failed'
        BY <2>1
      <4>4. QED
        BY <2>1, <3>2, <4>2, <4>3, ReportQuiet
    <3>3. QED
      BY <3>1, <3>2
  <2>3. QED
    BY <1>1, <2>1, <2>2
<1>5. CASE ToUinput
  <2>1. PICK msg, new : /\ Receive(msg) /\ cur_hid = "uinput" /\ held' = [held EXCEPT !["uinput"] = new]
                        /\ UNCHANGED <<cur_hid, channel, report, moved, failed>>
    BY <1>5 DEF ToUinput
  <2>2. held'["usb"] = held["usb"]
    BY <2>1 DEF TypeInv, Hids
  <2>3. QED
    BY <2>1, <2>2, ReportElsewhere
<1>5a. CASE ToUinputFails
  <2>1. PICK msg : /\ Receive(msg) /\ cur_hid = "uinput" /\ UNCHANGED <<cur_hid, channel, report, moved, failed>>
                   /\ \/ UNCHANGED held
                      \/ \E left \in SUBSET msg.items : held' = [held EXCEPT !["uinput"] = (@ \ msg.items) \cup left]
    BY <1>5a DEF ToUinputFails
  <2>2. held'["usb"] = held["usb"]
    BY <2>1 DEF TypeInv, Hids
  <2>3. QED
    BY <2>1, <2>2, ReportElsewhere
<1>6. CASE ToModule
  <2>1. PICK msg : Receive(msg) /\ cur_hid \in Module /\ UNCHANGED <<cur_hid, held, report, moved, failed>>
    BY <1>6 DEF ToModule
  <2>2. cur_hid # "usb"
    BY <2>1, NamesAssumption
  <2>3. QED
    BY <2>1, <2>2, ReportElsewhere
<1>7. ASSUME NEW msg, Receive(msg), msg.op \in {"Switch", "SendCommand"},
             msg.op # "Switch" => UNCHANGED cur_hid, UNCHANGED <<held, report, moved, failed>>
      PROVE  ReportInv'
  <2>1. ASSUME NEW d \in Device
        PROVE  (d \in failed \/ Current(d) \/ ReportDue(d))'
    <3>1. Current(d) => Current(d)'
      BY <1>7 DEF Current, OnDevice
    <3>2. QED
      BY <1>7, <3>1, ReportQuiet
  <2>2. QED
    BY <1>1, <1>7, <2>1
<1>8. CASE Switch
  BY <1>7, <1>8 DEF Switch
<1>9. CASE SendCommand
  BY <1>7, <1>9 DEF SendCommand
<1>10. ASSUME NEW m \in Module, ModuleReceives(m) \/ ModuleFails(m)
       PROVE  ReportInv'
  <2>1. m # "usb"
    BY NamesAssumption
  <2>2. held'["usb"] = held["usb"] /\ UNCHANGED <<queue, cur_hid, report, moved, failed>>
    BY <1>10, <2>1 DEF ModuleReceives, ModuleFails, TypeInv, Hids
  <2>3. ASSUME NEW d \in Device
        PROVE  (d \in failed \/ Current(d) \/ ReportDue(d))'
    BY <2>2 DEF ReportInv, ReportDue, Current, OnDevice
  <2>4. QED
    BY <2>2, <2>3 DEF ReportInv, PendingReported
<1>11. QED
  BY <1>2, <1>3, <1>4, <1>5, <1>5a, <1>6, <1>8, <1>9, <1>10 DEF Threads

LEMMA ReportStep ==
  ASSUME TypeInv, ReportInv, [Next]_vars
  PROVE  ReportInv'
<1>1. ASSUME UNCHANGED <<queue, cur_hid, held, report, moved, failed>>
      PROVE  ReportInv'
  BY <1>1 DEF ReportInv, PendingReported, ReportDue, Current, OnDevice
<1>2. CASE UNCHANGED vars
  BY <1>1, <1>2 DEF vars
<1>3. CASE Threads
  BY <1>3, ReportThreads
<1>4. CASE \/ \E f \in Pressable : Press(f) \/ ReleaseKey(f)
           \/ \E f \in OfKind("Repeat") : Repeat(f)
           \/ \E f \in OfKind("Toggle"), list \in ModeLists : SetModes(f, list)
  BY <1>1, <1>4, LoopSends, ReportLoop
<1>5. QED
  BY <1>2, <1>3, <1>4 DEF Next

LEMMA ReportInit == Init => ReportInv
<1> SUFFICES ASSUME Init PROVE ReportInv
  OBVIOUS
<1>1. DOMAIN queue = {} /\ ~moved
  BY DEF Init
<1>2. \A d \in Device : report[d] = {} /\ OnDevice(d) = {}
  BY DEF Init, OnDevice, Hids
<1>3. QED
  BY <1>1, <1>2 DEF ReportInv, PendingReported, Current

LEMMA ReportFollows == ReportInv => ReportCurrent
<1> SUFFICES ASSUME ReportInv, NEW d \in Device, d \notin failed,
                    \A i \in DOMAIN queue : queue[i].op # "Send" \/ queue[i].device # d
             PROVE  report[d] = OnDevice(d) /\ (d = "mouse" => ~moved)
  BY DEF ReportCurrent
<1>1. ~Then(queue, 0, Send(d))
  <2>1. SUFFICES ASSUME Then(queue, 0, Send(d)) PROVE FALSE
    OBVIOUS
  <2>2. PICK j \in 0 + 1 .. Len(queue) : queue[j] = Send(d)
    BY <2>1 DEF Then
  <2>3. j \in DOMAIN queue
    OBVIOUS
  <2>4. QED
    BY <2>2, <2>3, MessageParts
<1>2. QED
  BY <1>1 DEF ReportInv, ReportDue, Current

(* The host knows what usb holds and how it moved, unless a report is on   *)
(* its way or the last one failed: hid.rs sends every change together with *)
(* its report, so that no switch, of anyone, comes between the two.        *)
THEOREM ReportCorrect == Spec => []ReportCurrent
<1>1. Init => TypeInv /\ ReportInv
  BY TypeInit, ReportInit
<1>2. TypeInv /\ ReportInv /\ [Next]_vars => (TypeInv /\ ReportInv)'
  BY TypeStep, ReportStep
<1>3. TypeInv /\ ReportInv => ReportCurrent
  BY ReportFollows
<1>4. QED
  BY <1>1, <1>2, <1>3, PTL DEF Spec

-----------------------------------------------------------------------------
(* The place of a toggle in its modes. *)

PlaceInv ==
  /\ alive
  /\ \A f \in OfKind("Toggle") : hid_idx[f] = 0 \/ hid_idx[f] < Len(modes[f])

(* A toggle that has modes is at one of them. *)
LEMMA PlaceExists ==
  ASSUME TypeInv, PlaceInv, NEW f \in OfKind("Toggle"), modes[f] # <<>>
  PROVE  hid_idx[f] < Len(modes[f])
<1>1. modes[f] \in Seq(Names) /\ hid_idx[f] \in Nat
  BY DEF TypeInv
<1>2. Len(modes[f]) \in Nat /\ 0 < Len(modes[f])
  BY <1>1
<1>3. QED
  BY <1>1, <1>2 DEF PlaceInv

LEMMA InModes ==
  ASSUME TypeInv, PlaceInv, NEW f, Reacts(f)
  PROVE  ~OutOfModes(f)
<1>1. SUFFICES ASSUME f \in OfKind("Toggle") PROVE ~(hid_idx[f] >= Len(modes[f]))
  BY DEF OutOfModes
<1>2. modes[f] \in Seq(Names) /\ hid_idx[f] \in Nat /\ modes[f] # <<>>
  BY <1>1 DEF TypeInv, Reacts
<1>3. hid_idx[f] < Len(modes[f]) /\ Len(modes[f]) \in Nat
  BY <1>1, <1>2, PlaceExists
<1>4. QED
  BY <1>2, <1>3

LEMMA PlaceStep ==
  ASSUME TypeInv, PlaceInv, [CarefulNext]_vars
  PROVE  PlaceInv'
<1>1. ASSUME UNCHANGED <<modes, hid_idx, alive>>
      PROVE  PlaceInv'
  BY <1>1 DEF PlaceInv
<1>2. CASE UNCHANGED vars
  BY <1>1, <1>2 DEF vars, loopVars
<1>3. CASE Threads
  <2>1. UNCHANGED loopVars
    BY <1>3 DEF Threads, ToUsb, UsbSend, UsbSendFails, ToUinput, ToUinputFails, ToModule, Switch, SendCommand,
                ModuleReceives, ModuleFails, Receive
  <2>2. QED
    BY <1>1, <2>1 DEF loopVars
<1>4. ASSUME NEW f \in Pressable, Press(f)
      PROVE  PlaceInv'
  <2>1. ~OutOfModes(f)
    BY <1>4, InModes DEF Press
  <2>2. /\ hid_idx' = [g \in DOMAIN hid_idx |-> IF g = f THEN NextMode(f) ELSE hid_idx[g]]
        /\ UNCHANGED <<alive, modes>>
    BY <1>4, <2>1 DEF Press
  <2>3. ASSUME NEW g \in OfKind("Toggle")
        PROVE  hid_idx'[g] = 0 \/ hid_idx'[g] < Len(modes[g])
    <3>1. hid_idx'[g] = IF g = f THEN NextMode(f) ELSE hid_idx[g]
      BY <2>2 DEF TypeInv
    <3>2. hid_idx[g] \in Nat /\ Len(modes[g]) \in Nat
      BY DEF TypeInv
    <3>3. g = f => NextMode(f) = 0 \/ NextMode(f) < Len(modes[f])
      BY <3>2 DEF NextMode
    <3>4. QED
      BY <3>1, <3>3 DEF PlaceInv
  <2>4. QED
    BY <2>2, <2>3 DEF PlaceInv
<1>5. ASSUME NEW f, ReleaseKey(f) \/ Repeat(f)
      PROVE  PlaceInv'
  BY <1>1, <1>5 DEF ReleaseKey, Repeat
<1>6. ASSUME NEW f \in OfKind("Toggle"), NEW list \in ModeLists, Len(list) >= Len(modes[f]), SetModes(f, list)
      PROVE  PlaceInv'
  <2>1. modes' = [modes EXCEPT ![f] = list] /\ UNCHANGED <<hid_idx, alive>>
    BY <1>6 DEF SetModes
  <2>2. ASSUME NEW g \in OfKind("Toggle")
        PROVE  hid_idx[g] = 0 \/ hid_idx[g] < Len(modes'[g])
    <3>1. Len(modes[g]) \in Nat /\ Len(list) \in Nat /\ hid_idx[g] \in Nat
      BY FunctionAssumption DEF TypeInv
    <3>2. modes'[g] = IF g = f THEN list ELSE modes[g]
      BY <2>1 DEF TypeInv
    <3>3. Len(modes'[g]) \in Nat /\ Len(modes'[g]) >= Len(modes[g])
      BY <1>6, <3>1, <3>2
    <3>4. QED
      BY <3>1, <3>3 DEF PlaceInv
  <2>3. QED
    BY <2>1, <2>2 DEF PlaceInv
<1>7. QED
  BY <1>2, <1>3, <1>4, <1>5, <1>6 DEF CarefulNext

LEMMA PlaceInit == Init => PlaceInv
BY DEF Init, PlaceInv

(* The variables have their types, and as long as a ToggleHid is never     *)
(* given fewer modes, its place in them exists: the event loop does not    *)
(* panic at hid.rs's modes[hid_idx].                                       *)
THEOREM TypeCorrect == CarefulSpec => []TypeOK
<1>1. Init => TypeInv /\ PlaceInv
  BY TypeInit, PlaceInit
<1>2. TypeInv /\ PlaceInv /\ [CarefulNext]_vars => (TypeInv /\ PlaceInv)'
  BY CarefulIsNext, TypeStep, PlaceStep
<1>3. TypeInv /\ PlaceInv => TypeOK
  <2>1. TypeInv /\ PlaceInv => \A f \in OfKind("Toggle") : modes[f] # <<>> => hid_idx[f] < Len(modes[f])
    BY PlaceExists
  <2>2. QED
    BY <2>1 DEF TypeInv, PlaceInv, TypeOK
<1>4. QED
  BY <1>1, <1>2, <1>3, PTL DEF CarefulSpec

-----------------------------------------------------------------------------
(* What is held and not released. *)

(* Message a comes after place i of s. *)
Comes(s, i, a) == \E j \in i + 1 .. Len(s) : s[j] = a

(* Nothing after place i of s releases x. *)
Kept(s, i, x) == \A k \in i + 1 .. Len(s) : s[k] # Release(x)

LEMMA AppendPlaces ==
  ASSUME NEW S, NEW s \in Seq(S), NEW b \in S
  PROVE  /\ Append(s, b) \in Seq(S) /\ Len(Append(s, b)) = Len(s) + 1 /\ Len(s) \in Nat
         /\ \A i \in 1 .. Len(s) : Append(s, b)[i] = s[i]
         /\ Append(s, b)[Len(s) + 1] = b
         /\ DOMAIN s = 1 .. Len(s) /\ DOMAIN Append(s, b) = 1 .. Len(s) + 1
OBVIOUS

LEMMA ComesLonger ==
  ASSUME NEW S, NEW s \in Seq(S), NEW b \in S, NEW i \in Nat, NEW a, Comes(s, i, a)
  PROVE  Comes(Append(s, b), i, a)
<1>1. PICK j \in i + 1 .. Len(s) : s[j] = a
  BY DEF Comes
<1>2. j \in 1 .. Len(s) /\ j \in i + 1 .. Len(s) + 1
  BY <1>1
<1>3. Append(s, b)[j] = a /\ Len(Append(s, b)) = Len(s) + 1
  BY <1>1, <1>2, AppendPlaces
<1>4. QED
  BY <1>2, <1>3 DEF Comes

LEMMA ComesLast ==
  ASSUME NEW S, NEW s \in Seq(S), NEW b \in S, NEW i \in 0 .. Len(s)
  PROVE  Comes(Append(s, b), i, b)
<1>1. Append(s, b)[Len(s) + 1] = b /\ Len(Append(s, b)) = Len(s) + 1 /\ Len(s) + 1 \in i + 1 .. Len(s) + 1
  BY AppendPlaces
<1>2. QED
  BY <1>1 DEF Comes

LEMMA ComesTail ==
  ASSUME NEW S, NEW s \in Seq(S), s # <<>>, NEW i \in Nat, NEW a, Comes(s, i + 1, a)
  PROVE  Comes(Tail(s), i, a)
<1>1. PICK j \in i + 1 + 1 .. Len(s) : s[j] = a
  BY DEF Comes
<1>2. j - 1 \in 1 .. Len(s) - 1 /\ j - 1 \in i + 1 .. Len(s) - 1 /\ j - 1 + 1 = j
  BY <1>1
<1>3. Tail(s)[j - 1] = a /\ Len(Tail(s)) = Len(s) - 1
  BY <1>1, <1>2, TailPlaces
<1>4. QED
  BY <1>2, <1>3 DEF Comes

LEMMA ComesRest ==
  ASSUME NEW S, NEW s \in Seq(S), s # <<>>, NEW a, Comes(s, 0, a)
  PROVE  s[1] = a \/ Comes(Tail(s), 0, a)
<1>1. PICK j \in 0 + 1 .. Len(s) : s[j] = a
  BY DEF Comes
<1>2. CASE j = 1
  BY <1>1, <1>2
<1>3. CASE j # 1
  <2>1. Comes(s, 0 + 1, a)
    BY <1>1, <1>3 DEF Comes
  <2>2. QED
    BY <2>1, ComesTail
<1>4. QED
  BY <1>2, <1>3

LEMMA KeptTail ==
  ASSUME NEW S, NEW s \in Seq(S), s # <<>>, NEW i \in Nat, NEW x, Kept(s, i + 1, x)
  PROVE  Kept(Tail(s), i, x)
<1>1. ASSUME NEW k \in i + 1 .. Len(s) - 1 PROVE Tail(s)[k] # Release(x)
  <2>1. Tail(s)[k] = s[k + 1] /\ k + 1 \in i + 1 + 1 .. Len(s)
    BY TailPlaces
  <2>2. QED
    BY <2>1 DEF Kept
<1>2. Len(Tail(s)) = Len(s) - 1
  OBVIOUS
<1>3. QED
  BY <1>1, <1>2 DEF Kept

LEMMA KeptRest ==
  ASSUME NEW S, NEW s \in Seq(S), s # <<>>, NEW x, Kept(s, 0, x)
  PROVE  s[1] # Release(x) /\ Kept(Tail(s), 0, x)
<1>1. \A k \in 1 .. Len(s) : s[k] # Release(x)
  BY DEF Kept
<1>2. 1 \in 1 .. Len(s) /\ Kept(s, 0 + 1, x)
  BY <1>1 DEF Kept
<1>3. QED
  BY <1>1, <1>2, KeptTail

LEMMA KeptLonger ==
  ASSUME NEW S, NEW s \in Seq(S), NEW t \in Seq(S), NEW i \in 0 .. Len(s), NEW x,
         Kept(s, i, x), Kept(t, 0, x)
  PROVE  Kept(s \o t, i, x)
<1>1. ASSUME NEW k \in i + 1 .. Len(s) + Len(t) PROVE (s \o t)[k] # Release(x)
  <2>1. k \in 1 .. Len(s) + Len(t)
    OBVIOUS
  <2>2. CASE k \in 1 .. Len(s) /\ (s \o t)[k] = s[k]
    <3>1. k \in i + 1 .. Len(s)
      BY <2>2
    <3>2. QED
      BY <2>2, <3>1 DEF Kept
  <2>3. CASE k - Len(s) \in 1 .. Len(t) /\ (s \o t)[k] = t[k - Len(s)]
    <3>1. k - Len(s) \in 0 + 1 .. Len(t)
      BY <2>3
    <3>2. QED
      BY <2>3, <3>1 DEF Kept
  <2>4. QED
    BY <2>1, <2>2, <2>3, ConcatSplit
<1>2. Len(s \o t) = Len(s) + Len(t)
  OBVIOUS
<1>3. QED
  BY <1>1, <1>2 DEF Kept

LEMMA KeptAppended ==
  ASSUME NEW S, NEW s \in Seq(S), NEW b \in S, NEW i \in 0 .. Len(s), NEW x,
         Kept(s, i, x), b # Release(x)
  PROVE  Kept(Append(s, b), i, x)
<1>1. ASSUME NEW k \in i + 1 .. Len(s) + 1 PROVE Append(s, b)[k] # Release(x)
  <2>1. CASE k \in i + 1 .. Len(s)
    <3>1. k \in 1 .. Len(s)
      BY <2>1
    <3>2. QED
      BY <2>1, <3>1, AppendPlaces DEF Kept
  <2>2. CASE k = Len(s) + 1
    BY <2>2, AppendPlaces
  <2>3. QED
    BY <2>1, <2>2, AppendPlaces
<1>2. Len(Append(s, b)) = Len(s) + 1
  BY AppendPlaces
<1>3. QED
  BY <1>1, <1>2 DEF Kept

(* What holds after place i of t, and before its end, of s \o t. *)
LEMMA StaysAdded ==
  ASSUME NEW S, NEW s \in Seq(S), NEW t \in Seq(S), NEW i \in 0 .. Len(t), NEW x
  PROVE  /\ StaysAfter(t, i) => StaysAfter(s \o t, Len(s) + i)
         /\ Kept(t, i, x) => Kept(s \o t, Len(s) + i, x)
<1>1. ASSUME NEW k \in Len(s) + i + 1 .. Len(s) + Len(t)
      PROVE  k - Len(s) \in i + 1 .. Len(t) /\ (s \o t)[k] = t[k - Len(s)]
  <2>1. k - Len(s) \in i + 1 .. Len(t) /\ k - Len(s) \in 1 .. Len(t) /\ k = Len(s) + (k - Len(s))
    OBVIOUS
  <2>2. QED
    BY <2>1, ConcatPlaces
<1>2. Len(s \o t) = Len(s) + Len(t)
  OBVIOUS
<1>3. QED
  BY <1>1, <1>2 DEF StaysAfter, Kept

(* What waits for HID h, beyond the queue. *)
Chan(h) == IF h \in Module THEN channel[h] ELSE <<>>

(* After place i of the queue, x is released, or its function is down and  *)
(* nothing in the queue will move its release to another HID.              *)
Ends(x, i) == Then(queue, i, Release(x)) \/ (x \in ItemsDown /\ StaysAfter(queue, i))

(* The same, of place i of what waits for h. *)
EndsAt(h, i, x) == Comes(Chan(h), i, Release(x)) \/ (h = cur_hid /\ Ends(x, 0))

(* What HID h holds for certain, and what it may hold: an item of which it *)
(* missed the last message may be held or not.                             *)
Sure(h) == held[h] \ missed[h]
May(h)  == held[h] \cup missed[h]

(* Whatever is held, or is about to be, comes to an end where it began. *)
LeaveInv ==
  /\ \A x \in Item : \A i \in DOMAIN queue : queue[i] = Hold(x) => Ends(x, i)
  /\ \A h \in Hids, x \in Item :
       /\ x \in Sure(h) => EndsAt(h, 0, x)
       /\ \A i \in DOMAIN Chan(h) : Chan(h)[i] = Hold(x) => EndsAt(h, i, x)

(* An item whose function is down is about to be held by the current HID,  *)
(* or is held by it and not about to be released.                          *)
Coming(x) == \E i \in DOMAIN queue : queue[i] = Hold(x) /\ StaysAfter(queue, i) /\ Kept(queue, i, x)

Arrived(x) ==
  /\ StaysAfter(queue, 0) /\ Kept(queue, 0, x)
  /\ \/ \E i \in DOMAIN Chan(cur_hid) : Chan(cur_hid)[i] = Hold(x) /\ Kept(Chan(cur_hid), i, x)
     \/ Kept(Chan(cur_hid), 0, x) /\ x \in May(cur_hid)

KeepInv == \A x \in (ItemsDown \ Shared) \cap Mapped : Coming(x) \/ Arrived(x)

LEMMA ChanType ==
  ASSUME TypeInv, NEW h \in Hids
  PROVE  Chan(h) \in Seq(Message) /\ (h \notin Module => Chan(h) = <<>>)
<1>1. <<>> \in Seq(Message)
  OBVIOUS
<1>2. QED
  BY <1>1 DEF Chan, TypeInv

LEMMA EndsTail ==
  ASSUME TypeInv, queue # <<>>, queue' = Tail(queue), UNCHANGED down,
         NEW x, NEW i \in 0 .. Len(queue) - 1, Ends(x, i + 1)
  PROVE  Ends(x, i)'
<1>1. queue \in Seq(Message)
  BY DEF TypeInv
<1>2. CASE Then(queue, i + 1, Release(x))
  BY <1>1, <1>2, ThenTail DEF Ends
<1>3. CASE x \in ItemsDown /\ StaysAfter(queue, i + 1)
  BY <1>1, <1>3, StaysTail DEF Ends, ItemsDown
<1>4. QED
  BY <1>2, <1>3 DEF Ends

LEMMA EndsRest ==
  ASSUME TypeInv, queue # <<>>, queue' = Tail(queue), UNCHANGED down, NEW x, Ends(x, 0)
  PROVE  queue[1].op # "Switch" /\ (queue[1] = Release(x) \/ Ends(x, 0)')
<1>1. queue \in Seq(Message)
  BY DEF TypeInv
<1>2. CASE Then(queue, 0, Release(x))
  BY <1>1, <1>2, ThenRest DEF Ends
<1>3. CASE x \in ItemsDown /\ StaysAfter(queue, 0)
  BY <1>1, <1>3, StaysRest DEF Ends, ItemsDown
<1>4. QED
  BY <1>2, <1>3 DEF Ends

-----------------------------------------------------------------------------
(* The event loop adds t to the queue: an item that goes down is held, one *)
(* that comes up is released, and no item is down when t has a switch.     *)
Adds(t) ==
  /\ queue' = queue \o t
  /\ UNCHANGED <<cur_hid, channel, held, missed>>
  /\ \A x \in ItemsDown : (StaysAfter(t, 0) /\ x \in ItemsDown') \/ Then(t, 0, Release(x))
  /\ \A x \in Item : \A j \in DOMAIN t : t[j] = Hold(x) =>
       Then(t, j, Release(x)) \/ (StaysAfter(t, j) /\ x \in ItemsDown')
  /\ \A x \in ItemsDown' \ Shared :
       \/ x \in ItemsDown /\ StaysAfter(t, 0) /\ Kept(t, 0, x)
       \/ \E j \in DOMAIN t : t[j] = Hold(x) /\ StaysAfter(t, j) /\ Kept(t, j, x)

LEMMA LeaveLoop ==
  ASSUME TypeInv, LeaveInv, NEW t \in Seq(Message), Adds(t)
  PROVE  LeaveInv'
<1>1. queue \in Seq(Message) /\ 0 \in 0 .. Len(queue)
  BY DEF TypeInv
<1>0. queue' = queue \o t /\ UNCHANGED <<cur_hid, channel, held, missed>>
  BY DEF Adds
<1>2. ASSUME NEW x, NEW i \in 0 .. Len(queue), Ends(x, i)
      PROVE  Ends(x, i)'
  <2>1. CASE Then(queue, i, Release(x))
    BY <1>1, <1>0, <2>1, ThenLonger DEF Ends
  <2>2. CASE x \in ItemsDown /\ StaysAfter(queue, i)
    <3>0. (StaysAfter(t, 0) /\ x \in ItemsDown') \/ Then(t, 0, Release(x))
      BY <2>2 DEF Adds
    <3>1. CASE StaysAfter(t, 0) /\ x \in ItemsDown'
      BY <1>1, <1>0, <2>2, <3>1, StaysLonger DEF Ends
    <3>2. CASE Then(t, 0, Release(x))
      BY <1>1, <1>0, <2>2, <3>2, ThenReached DEF Ends
    <3>3. QED
      BY <3>0, <3>1, <3>2
  <2>3. QED
    BY <1>2, <2>1, <2>2 DEF Ends
<1>3. ASSUME NEW x \in Item, NEW i \in DOMAIN queue', queue'[i] = Hold(x)
      PROVE  Ends(x, i)'
  <2>1. i \in 1 .. Len(queue) + Len(t) /\ DOMAIN queue = 1 .. Len(queue) /\ DOMAIN t = 1 .. Len(t)
        /\ Len(queue) \in Nat /\ Len(t) \in Nat
    BY <1>1, <1>0, ConcatPlaces
  <2>2. CASE i \in 1 .. Len(queue) /\ queue'[i] = queue[i]
    <3>1. Ends(x, i)
      BY <1>3, <2>1, <2>2 DEF LeaveInv
    <3>2. i \in 0 .. Len(queue)
      BY <2>2
    <3>3. QED
      BY <1>2, <3>1, <3>2
  <2>3. CASE i - Len(queue) \in 1 .. Len(t) /\ queue'[i] = t[i - Len(queue)] /\ i = Len(queue) + (i - Len(queue))
    <3> DEFINE j == i - Len(queue)
    <3>1. j \in DOMAIN t /\ t[j] = Hold(x) /\ j \in 0 .. Len(t) /\ i = Len(queue) + j
      BY <1>3, <2>1, <2>3
    <3> HIDE DEF j
    <3>0. Then(t, j, Release(x)) \/ (StaysAfter(t, j) /\ x \in ItemsDown')
      BY <3>1 DEF Adds
    <3>2. CASE Then(t, j, Release(x))
      BY <1>1, <1>0, <3>1, <3>2, ThenAdded DEF Ends
    <3>3. CASE StaysAfter(t, j) /\ x \in ItemsDown'
      BY <1>1, <1>0, <3>1, <3>3, StaysAdded DEF Ends
    <3>4. QED
      BY <3>0, <3>2, <3>3
  <2>4. QED
    BY <1>1, <1>0, <2>1, <2>2, <2>3, ConcatSplit
<1>4. ASSUME NEW h \in Hids, NEW i, NEW x \in Item, EndsAt(h, i, x)
      PROVE  EndsAt(h, i, x)'
  BY <1>1, <1>2, <1>4, <1>0 DEF EndsAt, Chan
<1>5. ASSUME NEW h \in Hids, NEW x \in Item
      PROVE  /\ x \in Sure(h)' => EndsAt(h, 0, x)'
             /\ \A i \in DOMAIN Chan(h)' : Chan(h)'[i] = Hold(x) => EndsAt(h, i, x)'
  <2>1. Chan(h)' = Chan(h) /\ Sure(h)' = Sure(h)
    BY <1>0 DEF Chan, Sure
  <2>2. QED
    BY <1>4, <1>0, <2>1 DEF LeaveInv
<1>6. QED
  BY <1>3, <1>5 DEF LeaveInv

LEMMA KeepLoop ==
  ASSUME TypeInv, KeepInv, NEW t \in Seq(Message), Adds(t)
  PROVE  KeepInv'
<1>1. queue \in Seq(Message) /\ 0 \in 0 .. Len(queue) /\ Len(queue) \in Nat
  BY DEF TypeInv
<1>0. queue' = queue \o t /\ UNCHANGED <<cur_hid, channel, held, missed>>
  BY DEF Adds
<1>2. SUFFICES ASSUME NEW x \in ItemsDown', x \notin Shared, x \in Mapped
               PROVE  Coming(x)' \/ Arrived(x)'
  BY DEF KeepInv, Shared, InShortcut
<1>3. DOMAIN queue' = 1 .. Len(queue) + Len(t) /\ DOMAIN queue = 1 .. Len(queue) /\ DOMAIN t = 1 .. Len(t)
      /\ Len(t) \in Nat
  BY <1>1, <1>0, ConcatPlaces
<1>4. CASE \E j \in DOMAIN t : t[j] = Hold(x) /\ StaysAfter(t, j) /\ Kept(t, j, x)
  <2>1. PICK j \in 1 .. Len(t) : t[j] = Hold(x) /\ StaysAfter(t, j) /\ Kept(t, j, x)
    BY <1>3, <1>4
  <2>2. Len(queue) + j \in DOMAIN queue' /\ j \in 0 .. Len(t)
    BY <1>1, <1>3
  <2>3. queue'[Len(queue) + j] = Hold(x)
    BY <1>1, <1>0, <2>1, ConcatPlaces
  <2>4. StaysAfter(queue', Len(queue) + j) /\ Kept(queue', Len(queue) + j, x)
    BY <1>1, <1>0, <2>1, <2>2, StaysAdded
  <2>5. QED
    BY <2>2, <2>3, <2>4 DEF Coming
<1>5. CASE x \in ItemsDown /\ StaysAfter(t, 0) /\ Kept(t, 0, x)
  <2>1. CASE Coming(x)
    <3>1. PICK i \in DOMAIN queue : queue[i] = Hold(x) /\ StaysAfter(queue, i) /\ Kept(queue, i, x)
      BY <2>1 DEF Coming
    <3>2. i \in DOMAIN queue' /\ i \in 0 .. Len(queue) /\ i \in 1 .. Len(queue)
      BY <1>1, <1>3
    <3>3. queue'[i] = Hold(x)
      BY <1>1, <1>0, <3>1, <3>2, ConcatPlaces
    <3>4. StaysAfter(queue', i) /\ Kept(queue', i, x)
      BY <1>1, <1>0, <1>5, <3>1, <3>2, StaysLonger, KeptLonger
    <3>5. QED
      BY <3>2, <3>3, <3>4 DEF Coming
  <2>2. CASE Arrived(x)
    <3>1. StaysAfter(queue', 0) /\ Kept(queue', 0, x)
      BY <1>1, <1>0, <1>5, <2>2, StaysLonger, KeptLonger DEF Arrived
    <3>2. QED
      BY <1>0, <2>2, <3>1 DEF Arrived, Chan, May
  <2>3. QED
    BY <1>2, <1>5, <2>1, <2>2 DEF KeepInv
<1>6. QED
  BY <1>2, <1>4, <1>5 DEF Adds

LEMMA StaysLater ==
  ASSUME NEW s, StaysAfter(s, 0), NEW i \in Nat
  PROVE  StaysAfter(s, i)
BY DEF StaysAfter

(* A sequence that releases what it holds, and nothing but what shortcuts  *)
(* use, while the same items are down; it has a switch only if none is.    *)
LEMMA QuietAdds ==
  ASSUME NEW t \in Seq(Message), queue' = queue \o t, UNCHANGED <<cur_hid, channel, held, missed>>,
         Released(t), ReleasesShortcuts(t), ItemsDown' = ItemsDown, ItemsDown \subseteq Item,
         ItemsDown = {} \/ StaysAfter(t, 0)
  PROVE  Adds(t)
<1>1. ASSUME NEW x \in ItemsDown \ Shared, StaysAfter(t, 0)
      PROVE  Kept(t, 0, x)
  <2>1. \A k \in DOMAIN t : t[k] # Release(x)
    BY DEF ReleasesShortcuts, Shared
  <2>2. \A k \in 0 + 1 .. Len(t) : k \in DOMAIN t
    OBVIOUS
  <2>3. QED
    BY <2>1, <2>2 DEF Kept
<1>2. QED
  BY <1>1 DEF Adds, Released

LEMMA HoldAdds ==
  ASSUME TypeInv, NEW f \in OfKind("Hold"), Def[f].item \in Item,
         queue' = queue \o Pressed(Def[f].item), down' = down \cup {f}, UNCHANGED <<cur_hid, channel, held, missed>>
  PROVE  Adds(Pressed(Def[f].item))
<1> DEFINE x == Def[f].item
           t == Pressed(x)
<1>1. /\ t \in Seq(Message) /\ StaysAfter(t, 0) /\ Len(t) = 2 /\ DOMAIN t = 1 .. 2
      /\ t[1] = Hold(x) /\ t[2] = Send(DeviceOf[x])
  BY PressedSends
<1>2. queue' = queue \o t
  OBVIOUS
<1> HIDE DEF t
<1>3. ItemsDown' = ItemsDown \cup {x}
  BY DEF ItemsDown
<1>4. StaysAfter(t, 1)
  BY <1>1, StaysLater
<1>5. ASSUME NEW y
      PROVE  /\ Kept(t, 0, y) /\ Kept(t, 1, y)
             /\ \A j \in DOMAIN t : t[j] = Hold(y) => y = x /\ StaysAfter(t, j)
  <2>1. \A j \in 1 .. 2 : t[j] # Release(y)
    BY <1>1, MessageParts
  <2>2. t[2] # Hold(y)
    BY <1>1, MessageParts
  <2>3. t[1] = Hold(y) => y = x
    BY <1>1, SameItem
  <2>4. Kept(t, 0, y) /\ Kept(t, 1, y)
    BY <1>1, <2>1 DEF Kept
  <2>5. QED
    BY <1>1, <1>4, <2>2, <2>3, <2>4
<1>6. \A y \in ItemsDown : StaysAfter(t, 0) /\ y \in ItemsDown'
  BY <1>1, <1>3
<1>7. \A y \in Item : \A j \in DOMAIN t : t[j] = Hold(y) => StaysAfter(t, j) /\ y \in ItemsDown'
  BY <1>3, <1>5
<1>8. ASSUME NEW y \in ItemsDown'
      PROVE  \/ y \in ItemsDown /\ StaysAfter(t, 0) /\ Kept(t, 0, y)
             \/ \E j \in DOMAIN t : t[j] = Hold(y) /\ StaysAfter(t, j) /\ Kept(t, j, y)
  <2>1. CASE y = x
    <3>1. 1 \in DOMAIN t /\ t[1] = Hold(y)
      BY <1>1, <2>1
    <3>2. QED
      BY <1>4, <1>5, <3>1
  <2>2. CASE y \in ItemsDown
    BY <1>1, <1>5, <2>2
  <2>3. QED
    BY <1>3, <2>1, <2>2
<1>9. Adds(t)
  BY <1>2, <1>6, <1>7, <1>8 DEF Adds
<1>10. QED
  BY <1>9 DEF t

LEMMA ReleaseAdds ==
  ASSUME TypeInv, NEW f \in OfKind("Hold"), f \in down, down' = down \ {f},
         queue' = queue \o OnRelease(f), UNCHANGED <<cur_hid, channel, held, missed>>
  PROVE  Adds(OnRelease(f))
<1> DEFINE x == Def[f].item
           t == OnRelease(f)
<1>1. f \in Function /\ x \in Item
  BY DefCases DEF OfKind
<1>2. /\ t \in Seq(Message) /\ StaysAfter(t, 0) /\ Len(t) = 2 /\ DOMAIN t = 1 .. 2
      /\ t[1] = Release(x) /\ t[2] = Send(DeviceOf[x])
  <2>1. t = <<Release(x), Send(DeviceOf[x])>> /\ t \in Seq(Message) /\ StaysAfter(t, 0)
    BY <1>1, ReleaseSends
  <2>2. QED
    BY <2>1
<1>3. queue' = queue \o t
  OBVIOUS
<1> HIDE DEF t
<1>4. \A y \in Item : \A j \in DOMAIN t : t[j] # Hold(y)
  BY <1>2, MessageParts
<1>5. Then(t, 0, Release(x))
  <2>1. 1 \in 0 + 1 .. Len(t)
    BY <1>2
  <2>2. QED
    BY <1>2, <2>1, LaterComes
<1>6. ASSUME NEW y \in ItemsDown
      PROVE  (StaysAfter(t, 0) /\ y \in ItemsDown') \/ Then(t, 0, Release(y))
  <2>1. PICK g \in down \cap OfKind("Hold") : y = Def[g].item
    BY DEF ItemsDown
  <2>2. CASE y = x
    BY <1>5, <2>2
  <2>3. CASE y # x
    <3>1. g \in down' \cap OfKind("Hold")
      BY <2>1, <2>3
    <3>2. QED
      BY <1>2, <2>1, <3>1 DEF ItemsDown
  <2>4. QED
    BY <2>2, <2>3
<1>7. ASSUME NEW y \in ItemsDown' \ Shared
      PROVE  y \in ItemsDown /\ Kept(t, 0, y)
  <2>1. PICK g \in OfKind("Hold") : g \in down /\ g # f /\ y = Def[g].item
    BY DEF ItemsDown
  <2>2. y \in Item
    BY <2>1, DefCases DEF OfKind
  <2>3. y # x
    BY <2>1, <2>2 DEF Shared
  <2>4. \A j \in 0 + 1 .. Len(t) : t[j] # Release(y)
    BY <1>2, <2>3, SameItem, MessageParts
  <2>5. QED
    BY <2>1, <2>4 DEF ItemsDown, Kept
<1>8. Adds(t)
  BY <1>2, <1>3, <1>4, <1>6, <1>7 DEF Adds
<1>9. QED
  BY <1>8 DEF t

LEMMA LoopAdds ==
  ASSUME TypeInv, PlaceInv,
         \/ \E f \in Pressable : (f \in Switching => down \cap OfKind("Hold") = {}) /\ Press(f)
         \/ \E f \in Pressable : ReleaseKey(f)
         \/ \E f \in OfKind("Repeat") : Repeat(f)
  PROVE  \E t \in Seq(Message) : Adds(t)
<1>1. ItemsDown \subseteq Item
  BY DefCases DEF ItemsDown, OfKind
<1>2. ASSUME NEW f \in Pressable, f \in Switching => down \cap OfKind("Hold") = {}, Press(f)
      PROVE  \E t \in Seq(Message) : Adds(t)
  <2>1. ~OutOfModes(f)
    BY <1>2, InModes DEF Press
  <2>2. queue' = queue \o OnPress(f) /\ down' = down \cup {f} /\ UNCHANGED <<cur_hid, channel, held, missed>>
    BY <1>2, <2>1 DEF Press
  <2>3. OnPress(f) \in Seq(Message)
    BY <2>1, PressSends
  <2>4. CASE f \in OfKind("Hold")
    <3>1. OnPress(f) = Pressed(Def[f].item) /\ Def[f].item \in Item
      BY <2>1, <2>4, PressSends
    <3>2. Adds(OnPress(f))
      BY <2>2, <2>4, <3>1, HoldAdds
    <3>3. QED
      BY <2>3, <3>2
  <2>5. CASE f \notin OfKind("Hold")
    <3>1. Released(OnPress(f)) /\ ReleasesShortcuts(OnPress(f))
          /\ (f \notin Switching => StaysAfter(OnPress(f), 0))
      BY <2>1, <2>5, PressSends
    <3>2. ItemsDown' = ItemsDown
      BY <2>2, <2>5 DEF ItemsDown
    <3>3. f \in Switching => ItemsDown = {}
      BY <1>2 DEF ItemsDown
    <3>4. Adds(OnPress(f))
      BY <1>1, <2>2, <2>3, <3>1, <3>2, <3>3, QuietAdds
    <3>5. QED
      BY <2>3, <3>4
  <2>6. QED
    BY <2>4, <2>5
<1>3. ASSUME NEW f \in Pressable, ReleaseKey(f)
      PROVE  \E t \in Seq(Message) : Adds(t)
  <2>1. /\ f \in down /\ queue' = queue \o OnRelease(f) /\ down' = down \ {f}
        /\ UNCHANGED <<cur_hid, channel, held, missed>>
    BY <1>3 DEF ReleaseKey
  <2>2. /\ OnRelease(f) \in Seq(Message) /\ StaysAfter(OnRelease(f), 0) /\ Released(OnRelease(f))
        /\ f \notin OfKind("Hold") => OnRelease(f) = <<>>
    BY ReleaseSends DEF Pressable
  <2>3. CASE f \in OfKind("Hold")
    BY <2>1, <2>2, <2>3, ReleaseAdds
  <2>4. CASE f \notin OfKind("Hold")
    <3>1. ItemsDown' = ItemsDown
      BY <2>1, <2>4 DEF ItemsDown
    <3>2. DOMAIN OnRelease(f) = {}
      BY <2>2, <2>4
    <3>3. ReleasesShortcuts(OnRelease(f))
      BY <3>2 DEF ReleasesShortcuts
    <3>4. QED
      BY <1>1, <2>1, <2>2, <3>1, <3>3, QuietAdds
  <2>5. QED
    BY <2>3, <2>4
<1>4. ASSUME NEW f \in OfKind("Repeat"), Repeat(f)
      PROVE  \E t \in Seq(Message) : Adds(t)
  <2>1. queue' = queue \o Move(Def[f]) /\ UNCHANGED <<down, cur_hid, channel, held, missed>>
    BY <1>4 DEF Repeat
  <2>2. ItemsDown' = ItemsDown
    BY <2>1 DEF ItemsDown
  <2>3. QED
    BY <1>1, <2>1, <2>2, RepeatSends, QuietAdds
<1>5. QED
  BY <1>2, <1>3, <1>4

-----------------------------------------------------------------------------
(* The threads. Message msg takes effect on the current HID: at once on    *)
(* usb and uinput, and behind what waits for it already on a module.       *)
Delivered(msg) ==
  /\ msg.op # "Switch" => UNCHANGED cur_hid
  /\ \A h \in Hids :
       /\ \A x \in Sure(h)' :
            \/ x \in Sure(h) /\ ~(h = cur_hid /\ h \notin Module /\ msg = Release(x))
            \/ h = cur_hid /\ h \notin Module /\ msg = Hold(x)
       /\ Chan(h)' = Chan(h) \/ (h \in Module /\ Chan(h)' = Append(Chan(h), msg))
       /\ h \in Module /\ h = cur_hid /\ msg.op \in {"Hold", "Release"} => Chan(h)' = Append(Chan(h), msg)
       /\ h # cur_hid /\ msg.op = "Hold" => Chan(h)' = Chan(h)
  /\ \A h \in Hids, x \in Mapped \ InText :
       /\ h = cur_hid
       /\ (x \in May(h) /\ msg # Release(x)) \/ (h \notin Module /\ msg = Hold(x))
       => x \in May(h)'

LEMMA HeldAfterCases ==
  ASSUME NEW h, NEW msg \in Message, NEW x
  PROVE  x \in HeldAfter(h, msg) <=> (x \in held[h] /\ msg # Release(x)) \/ msg = Hold(x)
<1>1. CASE msg.op = "Hold"
  <2>1. msg = Hold(msg.item) /\ msg # Release(x) /\ (msg = Hold(x) => x = msg.item)
    BY <1>1, MessageCases, MessageParts
  <2>2. QED
    BY <1>1, <2>1 DEF HeldAfter
<1>2. CASE msg.op = "Release"
  <2>1. msg = Release(msg.item) /\ msg # Hold(x) /\ (msg = Release(x) => x = msg.item)
    BY <1>2, MessageCases, MessageParts
  <2>2. QED
    BY <1>2, <2>1 DEF HeldAfter
<1>3. CASE msg.op \notin {"Hold", "Release"}
  <2>1. msg # Hold(x) /\ msg # Release(x)
    BY <1>3, MessageParts
  <2>2. QED
    BY <1>3, <2>1 DEF HeldAfter
<1>4. QED
  BY <1>1, <1>2, <1>3

(* What a message is about, if it is no text. *)
LEMMA AboutCases ==
  ASSUME NEW msg \in Message, msg.op # "Type", NEW x
  PROVE  x \in About(msg) <=> msg = Hold(x) \/ msg = Release(x)
<1>1. CASE msg.op \in {"Hold", "Release"}
  <2>1. /\ msg = Hold(msg.item) \/ msg = Release(msg.item)
        /\ msg = Hold(x) \/ msg = Release(x) => x = msg.item
    BY <1>1, MessageCases, MessageParts
  <2>2. QED
    BY <1>1, <2>1 DEF About
<1>2. CASE msg.op \notin {"Hold", "Release"}
  <2>1. msg # Hold(x) /\ msg # Release(x)
    BY <1>2, MessageParts
  <2>2. QED
    BY <1>2, <2>1 DEF About
<1>3. QED
  BY <1>1, <1>2

(* A text holds and releases nothing by name. *)
LEMMA TextQuiet ==
  ASSUME NEW msg, msg.op = "Type", NEW x
  PROVE  msg # Hold(x) /\ msg # Release(x)
BY MessageParts

(* A message that is routed to a device, at once. *)
LEMMA DeviceDelivers ==
  ASSUME TypeInv, NEW msg \in Message, NEW c \in Hids, c = cur_hid, c \notin Module, UNCHANGED <<cur_hid, channel>>,
         \A h \in Hids : h # c => held'[h] = held[h] /\ missed'[h] = missed[h],
         \A x \in Sure(c)' : (x \in Sure(c) /\ msg # Release(x)) \/ msg = Hold(x),
         \A x \in Mapped \ InText : (x \in May(c) /\ msg # Release(x)) \/ msg = Hold(x) => x \in May(c)'
  PROVE  Delivered(msg)
<1>1. \A h \in Hids : Chan(h)' = Chan(h)
  BY DEF Chan
<1>2. \A h \in Hids : h # c => Sure(h)' = Sure(h)
  BY DEF Sure
<1>3. QED
  BY <1>1, <1>2 DEF Delivered

(* A message that changes neither what is held nor where it goes. *)
LEMMA QuietDelivers ==
  ASSUME TypeInv, NEW msg \in Message, msg.op \notin {"Hold", "Release"},
         UNCHANGED <<held, missed>>, msg.op # "Switch" => UNCHANGED cur_hid,
         \A h \in Hids : Chan(h)' = Chan(h) \/ (h \in Module /\ Chan(h)' = Append(Chan(h), msg))
  PROVE  Delivered(msg)
<1>1. \A x : msg # Hold(x) /\ msg # Release(x)
  BY MessageParts
<1>2. \A h \in Hids : Sure(h)' = Sure(h) /\ May(h)' = May(h)
  BY DEF Sure, May
<1>3. QED
  BY <1>1, <1>2 DEF Delivered

LEMMA ThreadDelivers ==
  ASSUME TypeInv, Threads, ~\E m \in Module : ModuleReceives(m) \/ ModuleFails(m)
  PROVE  \E msg : Receive(msg) /\ Delivered(msg)
<1>1. CASE ToUsb
  <2>1. PICK msg : /\ Receive(msg) /\ cur_hid = "usb"
                   /\ held' = [held EXCEPT !["usb"] = HeldAfter("usb", msg)]
                   /\ UNCHANGED <<cur_hid, channel, missed>>
    BY <1>1 DEF ToUsb
  <2>2. "usb" \notin Module /\ "usb" \in Hids /\ msg \in Message
    BY <2>1, NamesAssumption, ReceivedType DEF Hids
  <2>3. /\ held'["usb"] = HeldAfter("usb", msg) /\ missed'["usb"] = missed["usb"]
        /\ \A h \in Hids : h # "usb" => held'[h] = held[h] /\ missed'[h] = missed[h]
    BY <2>1, <2>2 DEF TypeInv
  <2>4. /\ \A x \in Sure("usb")' : (x \in Sure("usb") /\ msg # Release(x)) \/ msg = Hold(x)
        /\ \A x \in Mapped \ InText : (x \in May("usb") /\ msg # Release(x)) \/ msg = Hold(x) => x \in May("usb")'
    BY <2>2, <2>3, HeldAfterCases DEF Sure, May
  <2>5. QED
    BY <2>1, <2>2, <2>3, <2>4, DeviceDelivers
<1>2. ASSUME NEW msg, Receive(msg), msg.op \notin {"Hold", "Release"}, UNCHANGED <<cur_hid, channel, held, missed>>
      PROVE  Delivered(msg)
  <2>1. \A h \in Hids : Chan(h)' = Chan(h)
    BY <1>2 DEF Chan
  <2>2. QED
    BY <1>2, <2>1, ReceivedType, QuietDelivers
<1>3. CASE UsbSend
  BY <1>2, <1>3 DEF UsbSend
<1>4. CASE UsbSendFails
  BY <1>2, <1>4 DEF UsbSendFails
<1>5. ASSUME NEW msg, Receive(msg), cur_hid = "uinput", UNCHANGED <<cur_hid, channel>>,
             NEW h, held' = [held EXCEPT !["uinput"] = h], NEW n, missed' = [missed EXCEPT !["uinput"] = n],
             \A x \in h \ n : (x \in Sure("uinput") /\ msg # Release(x)) \/ msg = Hold(x),
             \A x \in Mapped \ InText : (x \in May("uinput") /\ msg # Release(x)) \/ msg = Hold(x) => x \in h \cup n
      PROVE  Delivered(msg)
  <2>1. "uinput" \notin Module /\ "uinput" \in Hids /\ msg \in Message
    BY <1>5, NamesAssumption, ReceivedType DEF Hids
  <2>2. /\ held'["uinput"] = h /\ missed'["uinput"] = n
        /\ \A g \in Hids : g # "uinput" => held'[g] = held[g] /\ missed'[g] = missed[g]
    BY <1>5, <2>1 DEF TypeInv
  <2>3. /\ \A x \in Sure("uinput")' : (x \in Sure("uinput") /\ msg # Release(x)) \/ msg = Hold(x)
        /\ \A x \in Mapped \ InText :
             (x \in May("uinput") /\ msg # Release(x)) \/ msg = Hold(x) => x \in May("uinput")'
    BY <1>5, <2>2 DEF Sure, May
  <2>4. QED
    BY <1>5, <2>1, <2>2, <2>3, DeviceDelivers
<1>5a. CASE ToUinput
  <2>1. PICK msg : /\ Receive(msg) /\ cur_hid = "uinput" /\ UNCHANGED <<cur_hid, channel>>
                   /\ held' = [held EXCEPT !["uinput"] =
                                 IF msg.op = "Type" THEN @ \ msg.items
                                 ELSE HeldAfter("uinput", msg) \cap Mapped]
                   /\ missed' = [missed EXCEPT !["uinput"] = @ \ About(msg)]
    BY <1>5a DEF ToUinput
  <2>2. msg \in Message
    BY <2>1, ReceivedType
  <2>3. CASE msg.op = "Type"
    <3>0. PICK h, n : h = held["uinput"] \ msg.items /\ n = missed["uinput"] \ msg.items
      OBVIOUS
    <3>1. held' = [held EXCEPT !["uinput"] = h] /\ missed' = [missed EXCEPT !["uinput"] = n]
      BY <2>1, <2>3, <3>0 DEF About
    <3>2. msg.items \subseteq InText
      BY <2>2, <2>3, TextItems
    <3>3. /\ \A x \in h \ n : x \in Sure("uinput") /\ msg # Release(x)
          /\ \A x \in Mapped \ InText :
               (x \in May("uinput") /\ msg # Release(x)) \/ msg = Hold(x) => x \in h \cup n
      BY <2>3, <3>0, <3>2, TextQuiet DEF Sure, May
    <3>4. Delivered(msg)
      BY <1>5, <2>1, <3>1, <3>3
    <3>5. QED
      BY <2>1, <3>4
  <2>4. CASE msg.op # "Type"
    <3>0. PICK h, n : h = HeldAfter("uinput", msg) \cap Mapped /\ n = missed["uinput"] \ About(msg)
      OBVIOUS
    <3>1. held' = [held EXCEPT !["uinput"] = h] /\ missed' = [missed EXCEPT !["uinput"] = n]
      BY <2>1, <2>4, <3>0
    <3>2. ASSUME NEW x
          PROVE  /\ x \in HeldAfter("uinput", msg) <=> (x \in held["uinput"] /\ msg # Release(x)) \/ msg = Hold(x)
                 /\ x \in About(msg) <=> msg = Hold(x) \/ msg = Release(x)
      BY <2>2, <2>4, HeldAfterCases, AboutCases
    <3>3. /\ \A x \in h \ n : (x \in Sure("uinput") /\ msg # Release(x)) \/ msg = Hold(x)
          /\ \A x \in Mapped \ InText :
               (x \in May("uinput") /\ msg # Release(x)) \/ msg = Hold(x) => x \in h \cup n
      BY <3>0, <3>2 DEF Sure, May
    <3>4. Delivered(msg)
      BY <1>5, <2>1, <3>1, <3>3
    <3>5. QED
      BY <2>1, <3>4
  <2>5. QED
    BY <2>3, <2>4
<1>5b. CASE ToUinputFails
  <2>1. PICK msg : /\ Receive(msg) /\ cur_hid = "uinput" /\ UNCHANGED <<cur_hid, channel>>
                   /\ \/ /\ msg.op \in {"Hold", "Release"} /\ UNCHANGED held
                         /\ missed' = [missed EXCEPT !["uinput"] = @ \cup {msg.item}]
                      \/ /\ msg.op = "Type"
                         /\ \E left \in SUBSET msg.items :
                              /\ held' = [held EXCEPT !["uinput"] = (@ \ msg.items) \cup left]
                              /\ missed' = [missed EXCEPT !["uinput"] = (@ \ msg.items) \cup left]
    BY <1>5b DEF ToUinputFails
  <2>1a. Receive(msg) /\ cur_hid = "uinput" /\ UNCHANGED <<cur_hid, channel>>
    BY <2>1
  <2>2. msg \in Message
    BY <2>1, ReceivedType
  <2>3. CASE msg.op = "Type"
    <3>1. PICK left \in SUBSET msg.items :
             /\ held' = [held EXCEPT !["uinput"] = (held["uinput"] \ msg.items) \cup left]
             /\ missed' = [missed EXCEPT !["uinput"] = (missed["uinput"] \ msg.items) \cup left]
      BY <2>1, <2>3
    <3>1a. PICK h, n : h = (held["uinput"] \ msg.items) \cup left /\ n = (missed["uinput"] \ msg.items) \cup left
      OBVIOUS
    <3>2. msg.items \subseteq InText
      BY <2>2, <2>3, TextItems
    <3>3. /\ \A x \in h \ n : (x \in Sure("uinput") /\ msg # Release(x)) \/ msg = Hold(x)
          /\ \A x \in Mapped \ InText :
               (x \in May("uinput") /\ msg # Release(x)) \/ msg = Hold(x) => x \in h \cup n
      BY <2>3, <3>1a, <3>2, TextQuiet DEF Sure, May
    <3>4. held' = [held EXCEPT !["uinput"] = h] /\ missed' = [missed EXCEPT !["uinput"] = n]
      BY <3>1, <3>1a
    <3>5. Delivered(msg)
      BY <1>5, <2>1a, <3>3, <3>4
    <3>6. QED
      BY <2>1, <3>5
  <2>4. CASE msg.op \in {"Hold", "Release"}
    <3>0. PICK h, n : h = held["uinput"] /\ n = missed["uinput"] \cup {msg.item}
      OBVIOUS
    <3>1. held' = [held EXCEPT !["uinput"] = h] /\ missed' = [missed EXCEPT !["uinput"] = n]
      BY <2>1, <2>4, <3>0 DEF TypeInv
    <3>2. \A x : msg = Hold(x) \/ msg = Release(x) => x = msg.item
      BY MessageParts
    <3>3. /\ \A x \in h \ n : (x \in Sure("uinput") /\ msg # Release(x)) \/ msg = Hold(x)
          /\ \A x \in Mapped \ InText :
               (x \in May("uinput") /\ msg # Release(x)) \/ msg = Hold(x) => x \in h \cup n
      BY <3>0, <3>2 DEF Sure, May
    <3>4. Delivered(msg)
      BY <1>5, <2>1a, <3>1, <3>3
    <3>5. QED
      BY <2>1, <3>4
  <2>5. QED
    BY <2>1, <2>3, <2>4
<1>6. CASE ToModule
  <2>1. PICK msg : /\ Receive(msg) /\ cur_hid \in Module
                   /\ channel' = [channel EXCEPT ![cur_hid] = Append(@, msg)]
                   /\ UNCHANGED <<cur_hid, held, missed>>
    BY <1>6 DEF ToModule
  <2>2. /\ Chan(cur_hid)' = Append(Chan(cur_hid), msg)
        /\ \A h \in Hids : h # cur_hid => Chan(h)' = Chan(h)
    BY <2>1 DEF TypeInv, Chan
  <2>2a. \A h \in Hids : Sure(h)' = Sure(h) /\ May(h)' = May(h)
    BY <2>1 DEF Sure, May
  <2>3. Delivered(msg)
    BY <2>1, <2>2, <2>2a DEF Delivered
  <2>4. QED
    BY <2>1, <2>3
<1>7. CASE Switch
  <2>1. PICK msg : Receive(msg) /\ msg.op = "Switch" /\ UNCHANGED <<channel, held, missed>>
    BY <1>7 DEF Switch
  <2>2. \A h \in Hids : Chan(h)' = Chan(h)
    BY <2>1 DEF Chan
  <2>3. QED
    BY <2>1, <2>2, ReceivedType, QuietDelivers
<1>8. CASE SendCommand
  <2>1. PICK msg : /\ Receive(msg) /\ msg.op = "SendCommand"
                   /\ channel' = [m \in Module |-> IF m = msg.name THEN Append(channel[m], msg) ELSE channel[m]]
                   /\ UNCHANGED <<cur_hid, held, missed>>
    BY <1>8 DEF SendCommand
  <2>2. \A h \in Hids : Chan(h)' = Chan(h) \/ (h \in Module /\ Chan(h)' = Append(Chan(h), msg))
    BY <2>1 DEF Chan
  <2>3. QED
    BY <2>1, <2>2, ReceivedType, QuietDelivers
<1>9. QED
  BY <1>1, <1>2, <1>3, <1>4, <1>5a, <1>5b, <1>6, <1>7, <1>8 DEF Threads

LEMMA LeaveThread ==
  ASSUME TypeInv, LeaveInv, NEW msg, Receive(msg), Delivered(msg)
  PROVE  LeaveInv'
<1>1. /\ queue # <<>> /\ msg = queue[1] /\ queue' = Tail(queue) /\ queue \in Seq(Message) /\ msg \in Message
      /\ UNCHANGED down
  BY ReceivedType
<1>2. ASSUME NEW x \in Item, NEW i \in DOMAIN queue', queue'[i] = Hold(x)
      PROVE  Ends(x, i)'
  <2>1. i \in 1 .. Len(queue) - 1 /\ queue'[i] = queue[i + 1] /\ Len(queue) \in Nat
        /\ DOMAIN queue = 1 .. Len(queue)
    BY <1>1, TailPlaces
  <2>2. i + 1 \in DOMAIN queue /\ i \in 0 .. Len(queue) - 1
    BY <2>1
  <2>3. Ends(x, i + 1)
    BY <1>2, <2>1, <2>2 DEF LeaveInv
  <2>4. QED
    BY <1>1, <2>2, <2>3, EndsTail
<1>3. ASSUME NEW h \in Hids, NEW x, NEW i \in 0 .. Len(Chan(h)), EndsAt(h, i, x),
             ~(h = cur_hid /\ h \notin Module /\ msg = Release(x))
      PROVE  EndsAt(h, i, x)'
  <2>1. Chan(h) \in Seq(Message) /\ i \in Nat
    BY ChanType
  <2>2. CASE Comes(Chan(h), i, Release(x))
    <3>1. Chan(h)' = Chan(h) \/ Chan(h)' = Append(Chan(h), msg)
      BY DEF Delivered
    <3>2. Comes(Chan(h)', i, Release(x))
      BY <1>1, <2>1, <2>2, <3>1, ComesLonger
    <3>3. QED
      BY <3>2 DEF EndsAt
  <2>3. CASE h = cur_hid /\ Ends(x, 0)
    <3>1. msg.op # "Switch" /\ (msg = Release(x) \/ Ends(x, 0)')
      BY <1>1, <2>3, EndsRest
    <3>2. h = cur_hid'
      BY <2>3, <3>1 DEF Delivered
    <3>3. CASE msg = Release(x)
      <4>1. msg.op = "Release" /\ h \in Module
        BY <1>3, <2>3, <3>3, MessageParts
      <4>2. Chan(h)' = Append(Chan(h), msg)
        BY <2>3, <4>1 DEF Delivered
      <4>3. Comes(Chan(h)', i, msg)
        BY <1>1, <2>1, <4>2, ComesLast
      <4>4. QED
        BY <3>3, <4>3 DEF EndsAt
    <3>4. QED
      BY <3>1, <3>2, <3>3 DEF EndsAt
  <2>4. QED
    BY <1>3, <2>2, <2>3 DEF EndsAt
<1>4. ASSUME NEW x \in Item, msg = Hold(x)
      PROVE  Ends(x, 0)' /\ UNCHANGED cur_hid
  <2>1. 1 \in DOMAIN queue /\ 0 \in 0 .. Len(queue) - 1
    BY <1>1, TailPlaces
  <2>2. Ends(x, 0 + 1)
    <3>1. Ends(x, 1)
      BY <1>1, <1>4, <2>1 DEF LeaveInv
    <3>2. 0 + 1 = 1
      OBVIOUS
    <3>3. QED
      BY <3>1, <3>2
  <2>3. msg.op # "Switch"
    BY <1>4, MessageParts
  <2>4. QED
    BY <1>1, <2>1, <2>2, <2>3, EndsTail DEF Delivered
<1>5. ASSUME NEW h \in Hids, NEW x \in Item, x \in Sure(h)'
      PROVE  EndsAt(h, 0, x)'
  <2>1. CASE x \in Sure(h) /\ ~(h = cur_hid /\ h \notin Module /\ msg = Release(x))
    <3>1. 0 \in 0 .. Len(Chan(h))
      BY ChanType
    <3>2. QED
      BY <1>3, <2>1, <3>1 DEF LeaveInv
  <2>2. CASE h = cur_hid /\ h \notin Module /\ msg = Hold(x)
    BY <1>4, <2>2 DEF EndsAt
  <2>3. QED
    BY <1>5, <2>1, <2>2 DEF Delivered
<1>6. ASSUME NEW h \in Hids, NEW x \in Item, NEW i \in DOMAIN Chan(h)', Chan(h)'[i] = Hold(x)
      PROVE  EndsAt(h, i, x)'
  <2>1. Chan(h) \in Seq(Message) /\ (h \notin Module => Chan(h) = <<>>)
    BY ChanType
  <2>2. CASE i \in DOMAIN Chan(h) /\ Chan(h)[i] = Hold(x)
    <3>1. i \in 0 .. Len(Chan(h)) /\ h \in Module
      BY <2>1, <2>2
    <3>2. QED
      BY <1>3, <2>2, <3>1 DEF LeaveInv
  <2>3. CASE h \in Module /\ Chan(h)' = Append(Chan(h), msg) /\ i \notin DOMAIN Chan(h)
    <3>1. i = Len(Chan(h)) + 1
      BY <1>1, <2>1, <2>3, AppendPlaces
    <3>2. msg = Hold(x)
      BY <1>1, <1>6, <2>1, <2>3, <3>1, AppendPlaces
    <3>3. h = cur_hid
      <4>1. SUFFICES ASSUME h # cur_hid PROVE FALSE
        OBVIOUS
      <4>2. Chan(h)' = Chan(h)
        BY <3>2, <4>1, MessageParts DEF Delivered
      <4>3. QED
        BY <2>3, <4>2
    <3>4. QED
      BY <1>4, <3>2, <3>3 DEF EndsAt
  <2>4. Chan(h)' = Chan(h) \/ (h \in Module /\ Chan(h)' = Append(Chan(h), msg))
    BY DEF Delivered
  <2>5. CASE Chan(h)' = Append(Chan(h), msg) /\ i \in DOMAIN Chan(h)
    <3>1. Chan(h)[i] = Hold(x)
      BY <1>1, <1>6, <2>1, <2>5, AppendPlaces
    <3>2. QED
      BY <2>2, <2>5, <3>1
  <2>6. QED
    BY <1>6, <2>2, <2>3, <2>4, <2>5
<1>7. QED
  BY <1>2, <1>5, <1>6 DEF LeaveInv

LEMMA KeepThread ==
  ASSUME TypeInv, KeepInv, NEW msg, Receive(msg), Delivered(msg)
  PROVE  KeepInv'
<1>1. /\ queue # <<>> /\ msg = queue[1] /\ queue' = Tail(queue) /\ queue \in Seq(Message) /\ msg \in Message
      /\ UNCHANGED down
  BY ReceivedType
<1>2. SUFFICES ASSUME NEW x \in ItemsDown, x \notin Shared, x \in Mapped
               PROVE  Coming(x)' \/ Arrived(x)'
  BY <1>1 DEF KeepInv, ItemsDown
<1>3. x \in Mapped \ InText
  BY <1>2 DEF Shared
<1>3a. PICK c : c = cur_hid
  OBVIOUS
<1>4. c = cur_hid /\ c \in Hids /\ Chan(c) \in Seq(Message)
      /\ (c \notin Module => Chan(c) = <<>> /\ Chan(c)' = <<>>)
  BY <1>3a, ChanType DEF TypeInv, Chan
<1>5. CASE Coming(x)
  <2>1. PICK i \in DOMAIN queue : queue[i] = Hold(x) /\ StaysAfter(queue, i) /\ Kept(queue, i, x)
    BY <1>5 DEF Coming
  <2>2. i \in 1 .. Len(queue) /\ Len(queue) \in Nat /\ DOMAIN queue' = 1 .. Len(queue) - 1
    BY <1>1, TailPlaces
  <2>3. PICK j \in Nat : i = j + 1
    <3>1. i - 1 \in Nat /\ i = (i - 1) + 1
      BY <2>2
    <3>2. QED
      BY <3>1
  <2>4. j \in 0 .. Len(queue) - 1
    BY <2>2, <2>3
  <2>5. StaysAfter(queue', j) /\ Kept(queue', j, x)
    BY <1>1, <2>1, <2>3, <2>4, StaysTail, KeptTail
  <2>6. CASE j # 0
    <3>1. j \in DOMAIN queue' /\ queue'[j] = queue[j + 1]
      BY <1>1, <2>2, <2>4, <2>6, TailPlaces
    <3>2. QED
      BY <2>1, <2>3, <2>5, <3>1 DEF Coming
  <2>7. CASE j = 0
    <3>1. msg = Hold(x) /\ StaysAfter(queue', 0) /\ Kept(queue', 0, x)
      BY <1>1, <2>1, <2>3, <2>5, <2>7
    <3>2. msg.op = "Hold" /\ cur_hid' = c
      BY <1>4, <3>1, MessageParts DEF Delivered
    <3>3. CASE c \in Module
      <4>1. Chan(c)' = Append(Chan(c), msg)
        BY <1>4, <3>2, <3>3 DEF Delivered
      <4> DEFINE n == Len(Chan(c)) + 1
      <4>2. n \in DOMAIN Chan(c)' /\ Chan(c)'[n] = Hold(x) /\ Len(Chan(c)') = n /\ n \in Nat
        BY <1>1, <1>4, <3>1, <4>1, AppendPlaces
      <4> HIDE DEF n
      <4>3. Kept(Chan(c)', n, x)
        BY <4>2 DEF Kept
      <4>4. QED
        BY <3>1, <3>2, <4>2, <4>3 DEF Arrived
    <3>4. CASE c \notin Module
      <4>1. x \in May(c)'
        BY <1>2, <1>3, <1>4, <3>1, <3>4 DEF Delivered
      <4>2. Kept(Chan(c)', 0, x)
        BY <1>4, <3>4 DEF Kept
      <4>3. QED
        BY <3>1, <3>2, <4>1, <4>2 DEF Arrived
    <3>5. QED
      BY <3>3, <3>4
  <2>8. QED
    BY <2>6, <2>7
<1>6. CASE Arrived(x)
  <2>1. /\ msg.op # "Switch" /\ msg # Release(x)
        /\ StaysAfter(queue', 0) /\ Kept(queue', 0, x)
    BY <1>1, <1>6, StaysRest, KeptRest DEF Arrived
  <2>2. cur_hid' = c
    BY <1>4, <2>1 DEF Delivered
  <2>3. Chan(c)' = Chan(c) \/ Chan(c)' = Append(Chan(c), msg)
    BY <1>4 DEF Delivered
  <2>4. ASSUME NEW i \in 0 .. Len(Chan(c)), Kept(Chan(c), i, x)
        PROVE  Kept(Chan(c)', i, x)
    BY <1>1, <1>4, <2>1, <2>3, <2>4, KeptAppended
  <2>5. CASE \E i \in DOMAIN Chan(c) : Chan(c)[i] = Hold(x) /\ Kept(Chan(c), i, x)
    <3>1. PICK i \in DOMAIN Chan(c) : Chan(c)[i] = Hold(x) /\ Kept(Chan(c), i, x)
      BY <2>5
    <3>2. i \in DOMAIN Chan(c)' /\ Chan(c)'[i] = Hold(x)
      BY <1>1, <1>4, <2>3, <3>1, AppendPlaces
    <3>3. i \in 0 .. Len(Chan(c))
      BY <1>4
    <3>4. Kept(Chan(c)', i, x)
      BY <2>4, <3>1, <3>3
    <3>5. QED
      BY <2>1, <2>2, <3>2, <3>4 DEF Arrived
  <2>6. CASE Kept(Chan(c), 0, x) /\ x \in May(c)
    <3>1. 0 \in 0 .. Len(Chan(c))
      BY <1>4
    <3>2. Kept(Chan(c)', 0, x)
      BY <2>4, <2>6, <3>1
    <3>3. x \in May(c)'
      BY <1>2, <1>3, <1>4, <2>1, <2>6 DEF Delivered
    <3>4. QED
      BY <2>1, <2>2, <3>2, <3>3 DEF Arrived
  <2>7. QED
    BY <1>4, <1>6, <2>5, <2>6 DEF Arrived
<1>7. QED
  BY <1>2, <1>5, <1>6 DEF KeepInv

(* A module's thread takes the first of what waits for it. *)
LEMMA ModuleTakes ==
  ASSUME TypeInv, NEW m \in Module, ModuleReceives(m) \/ ModuleFails(m)
  PROVE  /\ m \in Hids /\ UNCHANGED <<down, queue, cur_hid>>
         /\ Chan(m) \in Seq(Message) /\ Chan(m) # <<>> /\ Chan(m)[1] \in Message
         /\ Chan(m)' = Tail(Chan(m)) /\ Chan(m)' \in Seq(Message)
         /\ \A h \in Hids : h # m => Chan(h)' = Chan(h) /\ Sure(h)' = Sure(h) /\ May(h)' = May(h)
         /\ \A x \in Sure(m)' : (x \in Sure(m) /\ Chan(m)[1] # Release(x)) \/ Chan(m)[1] = Hold(x)
         /\ \A x : (x \in May(m) /\ Chan(m)[1] # Release(x)) \/ Chan(m)[1] = Hold(x) => x \in May(m)'
<1>1. m \in Hids /\ UNCHANGED <<down, queue, cur_hid>> /\ Chan(m) = channel[m] /\ Chan(m) # <<>>
  BY DEF Hids, ModuleReceives, ModuleFails, loopVars, Chan
<1>2. channel[m] \in Seq(Message)
  BY DEF TypeInv
<1>3. Head(channel[m]) = Chan(m)[1] /\ Chan(m)[1] \in Message /\ Tail(channel[m]) \in Seq(Message)
  BY <1>1, <1>2, TailPlaces
<1>4. channel' = [channel EXCEPT ![m] = Tail(@)]
  BY DEF ModuleReceives, ModuleFails
<1>5. Chan(m)' = Tail(Chan(m)) /\ \A h \in Hids : h # m => Chan(h)' = Chan(h)
  BY <1>4 DEF TypeInv, Chan
<1>6. \A h \in Hids : h # m => held'[h] = held[h] /\ missed'[h] = missed[h]
  BY DEF ModuleReceives, ModuleFails, TypeInv
<1>7. \A h \in Hids : h # m => Sure(h)' = Sure(h) /\ May(h)' = May(h)
  BY <1>6 DEF Sure, May
<1>8. PICK msg \in Message : msg = Chan(m)[1]
  BY <1>3
<1>9. CASE ModuleReceives(m)
  <2>1. /\ held'[m] = HeldAfter(m, msg)
        /\ missed'[m] = IF msg.op = "Type" THEN missed[m] ELSE missed[m] \ About(msg)
    BY <1>1, <1>3, <1>8, <1>9 DEF ModuleReceives, TypeInv
  <2>2. \A x : x \in HeldAfter(m, msg) <=> (x \in held[m] /\ msg # Release(x)) \/ msg = Hold(x)
    BY HeldAfterCases
  <2>3. CASE msg.op = "Type"
    BY <1>1, <1>2, <1>3, <1>5, <1>7, <1>8, <2>1, <2>2, <2>3 DEF Sure, May
  <2>4. CASE msg.op # "Type"
    <3>1. \A x : x \in About(msg) <=> msg = Hold(x) \/ msg = Release(x)
      BY <2>4, AboutCases
    <3>2. /\ \A x \in Sure(m)' : (x \in Sure(m) /\ msg # Release(x)) \/ msg = Hold(x)
          /\ \A x : (x \in May(m) /\ msg # Release(x)) \/ msg = Hold(x) => x \in May(m)'
      BY <2>1, <2>2, <2>4, <3>1 DEF Sure, May
    <3>3. QED
      BY <1>1, <1>2, <1>3, <1>5, <1>7, <1>8, <3>2
  <2>5. QED
    BY <2>3, <2>4
<1>10. CASE ModuleFails(m)
  <2>1. /\ msg.op \in {"Hold", "Release"}
        /\ held'[m] = held[m] /\ missed'[m] = missed[m] \cup About(msg)
    BY <1>1, <1>3, <1>8, <1>10 DEF ModuleFails, TypeInv
  <2>2. \A x : x \in About(msg) <=> msg = Hold(x) \/ msg = Release(x)
    BY <2>1, AboutCases
  <2>3. /\ \A x \in Sure(m)' : (x \in Sure(m) /\ msg # Release(x)) \/ msg = Hold(x)
        /\ \A x : (x \in May(m) /\ msg # Release(x)) \/ msg = Hold(x) => x \in May(m)'
    BY <2>1, <2>2 DEF Sure, May
  <2>4. QED
    BY <1>1, <1>2, <1>3, <1>5, <1>7, <1>8, <2>3
<1>11. QED
  BY <1>9, <1>10

LEMMA LeaveModule ==
  ASSUME TypeInv, LeaveInv, NEW m \in Module, ModuleReceives(m) \/ ModuleFails(m)
  PROVE  LeaveInv'
<1>1. /\ m \in Hids /\ UNCHANGED <<down, queue, cur_hid>>
      /\ Chan(m) \in Seq(Message) /\ Chan(m) # <<>> /\ Chan(m)' = Tail(Chan(m)) /\ Chan(m)' \in Seq(Message)
      /\ \A h \in Hids : h # m => Chan(h)' = Chan(h) /\ Sure(h)' = Sure(h)
      /\ \A x \in Sure(m)' : (x \in Sure(m) /\ Chan(m)[1] # Release(x)) \/ Chan(m)[1] = Hold(x)
  BY ModuleTakes
<1>2. \A x, i : Ends(x, i)' <=> Ends(x, i)
  BY <1>1 DEF Ends, ItemsDown
<1>3. \A x \in Item : \A i \in DOMAIN queue' : queue'[i] = Hold(x) => Ends(x, i)'
  BY <1>1, <1>2 DEF LeaveInv
<1>4. ASSUME NEW x, NEW i \in Nat, EndsAt(m, i + 1, x)
      PROVE  EndsAt(m, i, x)'
  BY <1>1, <1>2, <1>4, ComesTail DEF EndsAt
<1>5. ASSUME NEW x \in Item, x \in Sure(m)'
      PROVE  EndsAt(m, 0, x)'
  <2>1. CASE Chan(m)[1] = Hold(x)
    <3>1. 1 \in DOMAIN Chan(m)
      BY <1>1, TailPlaces
    <3>2. EndsAt(m, 1, x)
      BY <1>1, <2>1, <3>1 DEF LeaveInv
    <3>3. 0 + 1 = 1 /\ 0 \in Nat
      OBVIOUS
    <3>4. EndsAt(m, 0 + 1, x)
      BY <3>2, <3>3
    <3>5. QED
      BY <1>4, <3>3, <3>4
  <2>2. CASE x \in Sure(m) /\ Chan(m)[1] # Release(x)
    <3>1. EndsAt(m, 0, x)
      BY <1>1, <2>2 DEF LeaveInv
    <3>2. Comes(Chan(m), 0, Release(x)) => Comes(Tail(Chan(m)), 0, Release(x))
      BY <1>1, <2>2, ComesRest
    <3>3. QED
      BY <1>1, <1>2, <3>1, <3>2 DEF EndsAt
  <2>3. QED
    BY <1>1, <1>5, <2>1, <2>2
<1>6. ASSUME NEW x \in Item, NEW i \in DOMAIN Chan(m)', Chan(m)'[i] = Hold(x)
      PROVE  EndsAt(m, i, x)'
  <2>1. i \in 1 .. Len(Chan(m)) - 1 /\ Chan(m)'[i] = Chan(m)[i + 1] /\ Len(Chan(m)) \in Nat
        /\ DOMAIN Chan(m) = 1 .. Len(Chan(m))
    BY <1>1, TailPlaces
  <2>2. i + 1 \in DOMAIN Chan(m) /\ i \in Nat
    BY <2>1
  <2>3. EndsAt(m, i + 1, x)
    BY <1>1, <1>6, <2>1, <2>2 DEF LeaveInv
  <2>4. QED
    BY <1>4, <2>2, <2>3
<1>7. ASSUME NEW h \in Hids, NEW x \in Item, h # m
      PROVE  /\ x \in Sure(h)' => EndsAt(h, 0, x)'
             /\ \A i \in DOMAIN Chan(h)' : Chan(h)'[i] = Hold(x) => EndsAt(h, i, x)'
  <2>1. Chan(h)' = Chan(h) /\ Sure(h)' = Sure(h)
    BY <1>1, <1>7
  <2>2. \A i : EndsAt(h, i, x) => EndsAt(h, i, x)'
    BY <1>1, <1>2, <2>1 DEF EndsAt
  <2>3. QED
    BY <2>1, <2>2 DEF LeaveInv
<1>8. QED
  BY <1>3, <1>5, <1>6, <1>7 DEF LeaveInv

LEMMA KeepModule ==
  ASSUME TypeInv, KeepInv, NEW m \in Module, ModuleReceives(m) \/ ModuleFails(m)
  PROVE  KeepInv'
<1>1. /\ m \in Hids /\ UNCHANGED <<down, queue, cur_hid>>
      /\ Chan(m) \in Seq(Message) /\ Chan(m) # <<>> /\ Chan(m)' = Tail(Chan(m)) /\ Chan(m)' \in Seq(Message)
      /\ \A h \in Hids : h # m => Chan(h)' = Chan(h) /\ May(h)' = May(h)
      /\ \A x : (x \in May(m) /\ Chan(m)[1] # Release(x)) \/ Chan(m)[1] = Hold(x) => x \in May(m)'
  BY ModuleTakes
<1>2. SUFFICES ASSUME NEW x \in ItemsDown, x \notin Shared, x \in Mapped, Arrived(x)
               PROVE  Arrived(x)'
  <2>1. ItemsDown' = ItemsDown /\ \A x : Coming(x)' <=> Coming(x)
    BY <1>1 DEF ItemsDown, Coming
  <2>2. QED
    BY <2>1 DEF KeepInv
<1>3. PICK c \in Hids : c = cur_hid
  BY DEF TypeInv
<1>4. StaysAfter(queue', 0) /\ Kept(queue', 0, x)
  BY <1>1, <1>2 DEF Arrived
<1>5. CASE c # m
  BY <1>1, <1>2, <1>3, <1>4, <1>5 DEF Arrived
<1>6. CASE c = m /\ \E i \in DOMAIN Chan(c) : Chan(c)[i] = Hold(x) /\ Kept(Chan(c), i, x)
  <2>1. PICK i \in DOMAIN Chan(m) : Chan(m)[i] = Hold(x) /\ Kept(Chan(m), i, x)
    BY <1>6
  <2>2. i \in 1 .. Len(Chan(m)) /\ DOMAIN Chan(m)' = 1 .. Len(Chan(m)) - 1 /\ Len(Chan(m)) \in Nat
    BY <1>1, TailPlaces
  <2>3. PICK j \in Nat : i = j + 1
    <3>1. i - 1 \in Nat /\ i = (i - 1) + 1
      BY <2>2
    <3>2. QED
      BY <3>1
  <2>4. Kept(Chan(m)', j, x)
    BY <1>1, <2>1, <2>3, KeptTail
  <2>5. CASE j = 0
    <3>1. Chan(m)[1] = Hold(x)
      BY <2>1, <2>3, <2>5
    <3>2. x \in May(m)'
      BY <1>1, <3>1
    <3>3. QED
      BY <1>1, <1>3, <1>4, <1>6, <2>4, <2>5, <3>2 DEF Arrived
  <2>6. CASE j # 0
    <3>1. j \in 1 .. Len(Chan(m)) - 1
      BY <2>2, <2>3, <2>6
    <3>2. j \in DOMAIN Chan(m)' /\ Chan(m)'[j] = Hold(x)
      BY <1>1, <2>1, <2>2, <2>3, <3>1, TailPlaces
    <3>3. QED
      BY <1>1, <1>3, <1>4, <1>6, <2>4, <3>2 DEF Arrived
  <2>7. QED
    BY <2>5, <2>6
<1>7. CASE c = m /\ Kept(Chan(c), 0, x) /\ x \in May(c)
  <2>1. Chan(m)[1] # Release(x) /\ Kept(Chan(m)', 0, x)
    BY <1>1, <1>7, KeptRest
  <2>2. x \in May(m)'
    BY <1>1, <1>7, <2>1
  <2>3. QED
    BY <1>1, <1>3, <1>4, <1>7, <2>1, <2>2 DEF Arrived
<1>8. QED
  BY <1>2, <1>3, <1>5, <1>6, <1>7 DEF Arrived

-----------------------------------------------------------------------------
LEMMA HoldStep ==
  ASSUME TypeInv, PlaceInv, LeaveInv, KeepInv, [CarefulNext]_vars
  PROVE  LeaveInv' /\ KeepInv'
<1>1. ASSUME UNCHANGED <<down, queue, cur_hid, channel, held, missed>>
      PROVE  LeaveInv' /\ KeepInv'
  BY <1>1 DEF LeaveInv, KeepInv, Ends, EndsAt, Chan, ItemsDown, Coming, Arrived, Sure, May
<1>2. CASE UNCHANGED vars
  BY <1>1, <1>2 DEF vars, loopVars
<1>3. CASE Threads
  <2>1. CASE \E m \in Module : ModuleReceives(m) \/ ModuleFails(m)
    BY <2>1, LeaveModule, KeepModule
  <2>2. CASE ~\E m \in Module : ModuleReceives(m) \/ ModuleFails(m)
    BY <1>3, <2>2, ThreadDelivers, LeaveThread, KeepThread
  <2>3. QED
    BY <2>1, <2>2
<1>4. CASE \/ \E f \in Pressable : (f \in Switching => down \cap OfKind("Hold") = {}) /\ Press(f)
           \/ \E f \in Pressable : ReleaseKey(f)
           \/ \E f \in OfKind("Repeat") : Repeat(f)
  BY <1>4, LoopAdds, LeaveLoop, KeepLoop
<1>5. CASE \E f \in OfKind("Toggle"), list \in ModeLists : Len(list) >= Len(modes[f]) /\ SetModes(f, list)
  BY <1>1, <1>5 DEF SetModes
<1>6. QED
  BY <1>2, <1>3, <1>4, <1>5 DEF CarefulNext

LEMMA HoldInit == Init => LeaveInv /\ KeepInv
<1> SUFFICES ASSUME Init PROVE LeaveInv /\ KeepInv
  OBVIOUS
<1>1. DOMAIN queue = {} /\ ItemsDown = {}
  BY DEF Init, ItemsDown
<1>2. \A h \in Hids : Sure(h) = {} /\ DOMAIN Chan(h) = {}
  BY DEF Init, Chan, Sure
<1>3. QED
  BY <1>1, <1>2 DEF LeaveInv, KeepInv

LEMMA HoldFollows == TypeInv /\ LeaveInv /\ KeepInv => HeldIsDown
<1> SUFFICES ASSUME TypeInv, LeaveInv, KeepInv, CaughtUp
             PROVE  /\ \A h \in Hids : held[h] \ missed[h] \subseteq (IF h = cur_hid THEN ItemsDown ELSE {})
                    /\ (ItemsDown \ Shared) \cap Mapped \subseteq held[cur_hid] \cup missed[cur_hid]
  BY DEF HeldIsDown
<1>1. queue = <<>> /\ \A h : Chan(h) = <<>>
  BY DEF CaughtUp, Chan
<1>2. Len(<<>>) = 0 /\ DOMAIN <<>> = {}
  OBVIOUS
<1>3. \A x : ~Then(queue, 0, Release(x)) /\ \A h : ~Comes(Chan(h), 0, Release(x))
  BY <1>1, <1>2 DEF Then, Comes
<1>4. ASSUME NEW h \in Hids, NEW x \in held[h] \ missed[h]
      PROVE  h = cur_hid /\ x \in ItemsDown
  <2>1. x \in Item
    BY DEF TypeInv
  <2>2. EndsAt(h, 0, x)
    BY <2>1 DEF LeaveInv, Sure
  <2>3. QED
    BY <1>3, <2>2 DEF EndsAt, Ends
<1>5. ASSUME NEW x \in (ItemsDown \ Shared) \cap Mapped
      PROVE  x \in held[cur_hid] \cup missed[cur_hid]
  <2>1. ~Coming(x) /\ DOMAIN Chan(cur_hid) = {}
    BY <1>1, <1>2 DEF Coming
  <2>2. QED
    BY <2>1 DEF KeepInv, Arrived, May
<1>6. QED
  BY <1>4, <1>5

(* As long as no switch is asked for while a key is held, what each HID    *)
(* holds, once the threads have caught up, is what is down: the releases   *)
(* follow their presses to the HID that the presses went to.               *)
THEOREM HeldCorrect == CarefulSpec => []HeldIsDown
<1> DEFINE Inv == TypeInv /\ PlaceInv /\ LeaveInv /\ KeepInv
<1>1. Init => Inv
  BY TypeInit, PlaceInit, HoldInit
<1>2. Inv /\ [CarefulNext]_vars => Inv'
  BY CarefulIsNext, TypeStep, PlaceStep, HoldStep
<1>3. Inv => HeldIsDown
  BY HoldFollows
<1>4. QED
  BY <1>1, <1>2, <1>3, PTL DEF CarefulSpec
=============================================================================
