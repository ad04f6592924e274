--------------------------- MODULE HidController ---------------------------
(***************************************************************************)
(* The HID controller of the key server (function/hid.rs): the functions   *)
(* that send to it, the queue, the thread that routes what it receives to  *)
(* the current HID, and the HIDs: the usb gadget, whose state goes to the  *)
(* host in reports, the uinput device, which has no reports, and the HID   *)
(* modules (modules.rs), each with a queue and a thread of its own.        *)
(*                                                                         *)
(* A function is assumed to see both edges of its key, as in LayerStack.   *)
(***************************************************************************)
EXTENDS Naturals, Sequences, SequencesExt

CONSTANTS
  Item,         \* the keys, modifiers and mouse buttons
  DeviceOf,     \* the device that each is on, "keyboard" or "mouse"
  Mapped,       \* the items that have a uinput code
  Module,       \* the names of the HID modules
  NoModule,     \* a name that no HID has
  Function,     \* the functions bound to keys
  Def,          \* what each of them is, see Definition
  ModeLists,    \* the lists that the RPC may set a ToggleHid's modes to
  MaxQueue,     \* bound: no event while this many messages are unread anywhere
  MaxDown,      \* bound: the functions that are down at once
  MaxMissed     \* bound: no call fails while this many items are missed

Hids   == {"usb", "uinput"} \cup Module
Names  == Hids \cup {NoModule}
Device == {"keyboard", "mouse"}

(* Hold: Key, Special, ModifierKey, LeftClick and RightClick. Type:        *)
(* BasicString and ComplexString, by the items that uinput presses and     *)
(* releases for their text: those of its characters that have a code, and  *)
(* LeftShift around those that require it, which all have one. Toggle has  *)
(* its modes in a variable. Move:                                          *)
(* ImmediateMove and ImmediateScroll. Repeat: ConstMove, ConstScroll, Move *)
(* and Scroll, which have no prev_state. Both move the mouse in one        *)
(* direction or in two.                                                    *)
Definition ==
  [kind : {"Hold"}, item : Item]
    \cup [kind : {"Type"}, items : SUBSET Mapped]
    \cup [kind : {"Shortcut"}, modifiers : Seq(Item), keys : Seq(Item)]
    \cup [kind : {"Switch"}, name : Names]
    \cup [kind : {"Toggle"}]
    \cup [kind : {"SendCommand"}, name : Names]
    \cup [kind : {"Move", "Repeat"}, directions : 1..2]

OfKind(kind) == {f \in Function : Def[f].kind = kind}

ASSUME ItemAssumption ==
  /\ DeviceOf \in [Item -> Device] /\ Mapped \subseteq Item
ASSUME NamesAssumption ==
  {"usb", "uinput"} \cap Module = {} /\ NoModule \notin Hids
ASSUME FunctionAssumption ==
  /\ DOMAIN Def = Function /\ \A f \in Function : Def[f] \in Definition
  /\ ModeLists \subseteq Seq(Names) /\ ModeLists # {}
ASSUME ShortcutAssumption ==  \* modifiers and keys are the keyboard's
  \A f \in OfKind("Shortcut") :
    \A item \in ToSet(Def[f].modifiers) \cup ToSet(Def[f].keys) : DeviceOf[item] = "keyboard"
ASSUME BoundAssumption == MaxQueue \in Nat /\ MaxDown \in Nat /\ MaxMissed \in Nat

VARIABLES
  down,         \* the functions whose prev_state is high
  modes,        \* the modes of each ToggleHid
  hid_idx,      \* the place of each ToggleHid in its modes, from 0
  alive,        \* the event loop has not panicked
  queue,        \* the messages the HID thread has not received
  cur_hid,      \* the HID that it routes to
  channel,      \* the messages that each module has not received
  held,         \* external: what each HID holds
  report,       \* external: what the host was last told of each usb device
  moved,        \* external: the usb mouse has moved since its last report
  failed,       \* history: the usb devices whose last report did not get through
  missed        \* history: the items of which each HID missed the last message

loopVars == <<down, modes, hid_idx, alive>>
vars     == <<loopVars, queue, cur_hid, channel, held, report, moved, failed, missed>>

Init ==
  /\ down = {}
  /\ modes \in [OfKind("Toggle") -> ModeLists]
  /\ hid_idx = [f \in OfKind("Toggle") |-> 0]
  /\ alive = TRUE
  /\ queue = <<>>
  /\ cur_hid = "usb"
  /\ channel = [m \in Module |-> <<>>]
  /\ held = [h \in Hids |-> {}]
  /\ report = [d \in Device |-> {}]
  /\ moved = FALSE
  /\ failed = {}
  /\ missed = [h \in Hids |-> {}]

-----------------------------------------------------------------------------
(* The messages, and what each function sends when its key goes down.      *)
Hold(item)    == [op |-> "Hold", item |-> item]
Release(item) == [op |-> "Release", item |-> item]
Send(device)  == [op |-> "Send", device |-> device]
Motion        == [op |-> "Motion"]
Type(items)   == [op |-> "Type", items |-> items]
SwitchTo(name) == [op |-> "Switch", name |-> name]
CommandTo(name) == [op |-> "SendCommand", name |-> name]

Each(op, items) == [i \in DOMAIN items |-> [op |-> op, item |-> items[i]]]

(* The modifiers are left down. *)
BugShortcut(d) ==
  Each("Hold", d.modifiers) \o Each("Hold", d.keys) \o <<Send("keyboard")>>
    \o Each("Release", d.keys) \o <<Send("keyboard")>>

Shortcut(d) ==
  Each("Hold", d.modifiers) \o Each("Hold", d.keys) \o <<Send("keyboard")>>
    \o Each("Release", d.keys) \o Each("Release", d.modifiers) \o <<Send("keyboard")>>

(* The report is sent before the last of the movements. *)
BugMove(d) == [i \in 1..d.directions |-> IF i = d.directions THEN Send("mouse") ELSE Motion] \o <<Motion>>

Move(d) == [i \in 1..d.directions |-> Motion] \o <<Send("mouse")>>

Pressed(item) == <<Hold(item), Send(DeviceOf[item])>>

OnPress(f) ==
  LET d == Def[f]
  IN  CASE d.kind = "Hold"        -> Pressed(d.item)
        [] d.kind = "Type"        -> <<Type(d.items), Send("keyboard")>>
        [] d.kind = "Shortcut"    -> Shortcut(d)
        [] d.kind = "Switch"      -> <<SwitchTo(d.name)>>
        [] d.kind = "Toggle"      -> <<SwitchTo(modes[f][hid_idx[f] + 1])>>
        [] d.kind = "SendCommand" -> <<CommandTo(d.name)>>
        [] d.kind = "Move"        -> Move(d)

(* What it sends when its key comes up. *)
OnRelease(f) ==
  IF f \in OfKind("Hold")
  THEN <<Release(Def[f].item), Send(DeviceOf[Def[f].item])>>
  ELSE <<>>

-----------------------------------------------------------------------------
Unread == Len(queue) + FoldFunction(+, 0, [m \in Module |-> Len(channel[m])])

(* A ToggleHid with no modes returns before it looks at the state.         *)
Reacts(f) == alive /\ Unread < MaxQueue /\ (f \in OfKind("Toggle") => modes[f] # <<>>)

(* ToggleHid indexes its modes, which may have become fewer. *)
OutOfModes(f) == f \in OfKind("Toggle") /\ hid_idx[f] >= Len(modes[f])

(* The place after the last is used once. *)
BugNextMode(f) == IF hid_idx[f] >= Len(modes[f]) THEN 0 ELSE hid_idx[f] + 1

NextMode(f) == IF hid_idx[f] + 1 >= Len(modes[f]) THEN 0 ELSE hid_idx[f] + 1

Press(f) ==
  /\ f \notin down /\ Cardinality(down) < MaxDown
  /\ Reacts(f)
  /\ IF OutOfModes(f)
     THEN alive' = FALSE /\ UNCHANGED <<queue, down, hid_idx>>
     ELSE /\ queue' = queue \o OnPress(f)
          /\ down' = down \cup {f}
          /\ hid_idx' = [g \in DOMAIN hid_idx |-> IF g = f THEN NextMode(f) ELSE hid_idx[g]]
          /\ UNCHANGED alive
  /\ UNCHANGED <<modes, cur_hid, channel, held, report, moved, failed, missed>>

ReleaseKey(f) ==
  /\ f \in down
  /\ Reacts(f)
  /\ queue' = queue \o OnRelease(f)
  /\ down' = down \ {f}
  /\ UNCHANGED <<modes, hid_idx, alive, cur_hid, channel, held, report, moved, failed, missed>>

(* A poll with the key down, or the stick beyond the threshold, and the    *)
(* period over: the pace is left open.                                     *)
Repeat(f) ==
  /\ Reacts(f)
  /\ queue' = queue \o Move(Def[f])
  /\ UNCHANGED <<down, modes, hid_idx, alive, cur_hid, channel, held, report, moved, failed, missed>>

(* Command::SetVariable of a ToggleHid's modes. *)
SetModes(f, list) ==
  /\ modes' = [modes EXCEPT ![f] = list]
  /\ UNCHANGED <<down, hid_idx, alive, queue, cur_hid, channel, held, report, moved, failed, missed>>

-----------------------------------------------------------------------------
(* What an HID holds after a message. *)
HeldAfter(h, msg) ==
  CASE msg.op = "Hold"    -> held[h] \cup {msg.item}
    [] msg.op = "Release" -> held[h] \ {msg.item}
    [] OTHER              -> held[h]

(* The HID thread receives a message, which it routes. *)
Receive(msg) ==
  /\ queue # <<>>
  /\ msg = Head(queue)
  /\ queue' = Tail(queue)
  /\ UNCHANGED loopVars

Routed(msg) == msg.op \notin {"Switch", "SendCommand"}

ToUsb ==
  \E msg \in ToSet(queue) :
    /\ Receive(msg)
    /\ Routed(msg) /\ msg.op # "Send"
    /\ cur_hid = "usb"
    /\ held' = [held EXCEPT !["usb"] = HeldAfter("usb", msg)]
    /\ moved' = (moved \/ msg = Motion)
    /\ UNCHANGED <<cur_hid, channel, report, failed, missed>>

OnDevice(d) == {i \in held["usb"] : DeviceOf[i] = d}

(* Keyboard::send and Mouse::send, which may fail. *)
UsbSend ==
  \E msg \in ToSet(queue) :
    /\ Receive(msg)
    /\ msg.op = "Send"
    /\ cur_hid = "usb"
    /\ report' = [report EXCEPT ![msg.device] = OnDevice(msg.device)]
    /\ moved' = (moved /\ msg.device # "mouse")
    /\ failed' = failed \ {msg.device}
    /\ UNCHANGED <<cur_hid, channel, held, missed>>

UsbSendFails ==
  \E msg \in ToSet(queue) :
    /\ Receive(msg)
    /\ msg.op = "Send"
    /\ cur_hid = "usb"
    /\ failed' = failed \cup {msg.device}
    /\ moved' \in {moved, moved /\ msg.device # "mouse"}
    /\ UNCHANGED <<cur_hid, channel, held, report, missed>>

(* The items that a message is about. A text is clicked key by key, with   *)
(* LeftShift pressed and released around those that require it.            *)
About(msg) ==
  CASE msg.op \in {"Hold", "Release"} -> {msg.item}
    [] msg.op = "Type"                -> msg.items
    [] OTHER                          -> {}

ToUinput ==
  \E msg \in ToSet(queue) :
    /\ Receive(msg)
    /\ Routed(msg)
    /\ cur_hid = "uinput"
    /\ held' = [held EXCEPT !["uinput"] =
                  IF msg.op = "Type" THEN @ \ msg.items ELSE HeldAfter("uinput", msg) \cap Mapped]
    /\ missed' = [missed EXCEPT !["uinput"] = @ \ About(msg)]
    /\ UNCHANGED <<cur_hid, channel, report, moved, failed>>

FewMissed == Cardinality({p \in Hids \X Item : p[2] \in missed[p[1]]}) < MaxMissed

(* A call to uinput fails, which is logged: a press or release is lost, or *)
(* a text goes on with its next key and leaves some of its items down.     *)
ToUinputFails ==
  \E msg \in ToSet(queue) :
    /\ Receive(msg)
    /\ Routed(msg)
    /\ cur_hid = "uinput" /\ FewMissed
    /\ \/ /\ msg.op \in {"Hold", "Release"}
          /\ msg.item \in Mapped
          /\ missed' = [missed EXCEPT !["uinput"] = @ \cup {msg.item}]
          /\ UNCHANGED held
       \/ /\ msg.op = "Type"
          /\ \E left \in SUBSET msg.items :
               /\ held' = [held EXCEPT !["uinput"] = (@ \ msg.items) \cup left]
               /\ missed' = [missed EXCEPT !["uinput"] = (@ \ msg.items) \cup left]
    /\ UNCHANGED <<cur_hid, channel, report, moved, failed>>

ToModule ==
  \E msg \in ToSet(queue) :
    /\ Receive(msg)
    /\ Routed(msg)
    /\ cur_hid \in Module
    /\ channel' = [channel EXCEPT ![cur_hid] = Append(@, msg)]
    /\ UNCHANGED <<cur_hid, held, report, moved, failed, missed>>

(* The current HID after a switch: one to a name that is no HID is ignored. *)
HidNamed(name) == IF name \in Hids THEN name ELSE cur_hid

Switch ==
  \E msg \in ToSet(queue) :
    /\ Receive(msg)
    /\ msg.op = "Switch"
    /\ cur_hid' = HidNamed(msg.name)
    /\ UNCHANGED <<channel, held, report, moved, failed, missed>>

(* SendCommand reaches the module that it names, current or not. *)
SendCommand ==
  \E msg \in ToSet(queue) :
    /\ Receive(msg)
    /\ msg.op = "SendCommand"
    /\ channel' = [m \in Module |-> IF m = msg.name THEN Append(channel[m], msg) ELSE channel[m]]
    /\ UNCHANGED <<cur_hid, held, report, moved, failed, missed>>

(* A module's thread receives a message. What the module does with a text  *)
(* is its own matter; it is taken to leave nothing down and nothing up.    *)
ModuleReceives(m) ==
  /\ channel[m] # <<>>
  /\ channel' = [channel EXCEPT ![m] = Tail(@)]
  /\ LET msg == Head(channel[m])
     IN  /\ held' = [held EXCEPT ![m] = HeldAfter(m, msg)]
         /\ missed' = [missed EXCEPT ![m] = IF msg.op = "Type" THEN @ ELSE @ \ About(msg)]
  /\ UNCHANGED <<loopVars, queue, cur_hid, report, moved, failed>>

(* The call into the module fails, which is logged. A message that could   *)
(* not be sent to the module is lost in the same way.                      *)
ModuleFails(m) ==
  /\ channel[m] # <<>> /\ FewMissed
  /\ Head(channel[m]).op \in {"Hold", "Release"}
  /\ channel' = [channel EXCEPT ![m] = Tail(@)]
  /\ missed' = [missed EXCEPT ![m] = @ \cup About(Head(channel[m]))]
  /\ UNCHANGED <<loopVars, queue, cur_hid, held, report, moved, failed>>

-----------------------------------------------------------------------------
Threads ==
  \/ ToUsb \/ UsbSend \/ UsbSendFails \/ ToUinput \/ ToUinputFails \/ ToModule
  \/ Switch \/ SendCommand
  \/ \E m \in Module : ModuleReceives(m)
  \/ \E m \in Module : ModuleFails(m)

Pressable == Function \ OfKind("Repeat")
Switching == OfKind("Switch") \cup OfKind("Toggle")

Next ==
  \/ Threads
  \/ \E f \in Pressable : Press(f)
  \/ \E f \in Pressable : ReleaseKey(f)
  \/ \E f \in OfKind("Repeat") : Repeat(f)
  \/ \E f \in OfKind("Toggle"), list \in ModeLists : SetModes(f, list)

Spec == Init /\ [][Next]_vars

(* Someone who switches HIDs only with no key down (though the queue may   *)
(* still hold what the keys sent) and never sets a ToggleHid to fewer      *)
(* modes. The server asks for neither.                                     *)
CarefulNext ==
  \/ Threads
  \/ \E f \in Pressable :
       /\ f \in Switching => down \cap OfKind("Hold") = {}
       /\ Press(f)
  \/ \E f \in Pressable : ReleaseKey(f)
  \/ \E f \in OfKind("Repeat") : Repeat(f)
  \/ \E f \in OfKind("Toggle"), list \in ModeLists :
       Len(list) >= Len(modes[f]) /\ SetModes(f, list)

CarefulSpec == Init /\ [][CarefulNext]_vars

-----------------------------------------------------------------------------
Texts == {Def[f].items : f \in OfKind("Type")}

Message ==
  [op : {"Hold", "Release"}, item : Item]
    \cup [op : {"Send"}, device : Device]
    \cup [op : {"Motion"}]
    \cup [op : {"Type"}, items : Texts]
    \cup [op : {"Switch", "SendCommand"}, name : Names]

(* The variables have their types, and however a ToggleHid's modes grow,   *)
(* its place in them exists and the event loop goes on.                    *)
TypeOK ==
  /\ down \subseteq Function
  /\ modes \in [OfKind("Toggle") -> Seq(Names)]
  /\ hid_idx \in [OfKind("Toggle") -> Nat]
  /\ \A f \in OfKind("Toggle") : modes[f] # <<>> => hid_idx[f] < Len(modes[f])
  /\ alive
  /\ queue \in Seq(Message)
  /\ cur_hid \in Hids
  /\ channel \in [Module -> Seq(Message)]
  /\ held \in [Hids -> SUBSET Item]
  /\ report \in [Device -> SUBSET Item]
  /\ moved \in BOOLEAN
  /\ failed \subseteq Device
  /\ missed \in [Hids -> SUBSET Item]

CaughtUp == queue = <<>> /\ \A m \in Module : channel[m] = <<>>

ItemsDown == {Def[f].item : f \in down \cap OfKind("Hold")}

(* The items that a shortcut or a text releases, for whoever holds them,   *)
(* and the items that two functions hold.                                  *)
InShortcut == UNION {ToSet(Def[f].modifiers \o Def[f].keys) : f \in OfKind("Shortcut")}
InText     == UNION Texts
Shared ==
  InShortcut \cup InText
    \cup {i \in Item : \E f, g \in OfKind("Hold") : f # g /\ Def[f].item = i /\ Def[g].item = i}

(* Once the threads have caught up, no HID holds anything that no function *)
(* holds down, and only the current HID holds anything: shortcuts, texts   *)
(* and commands leave nothing behind, and a switch, though it is applied   *)
(* by the HID thread long after it was asked for, never comes between a    *)
(* press and its release. An item whose function is down is held by the    *)
(* current HID, if no other function sends it. Both but for the items of   *)
(* which the HID missed the last message: a call that fails is not         *)
(* repeated, and spoils its item only, until the next that gets through.   *)
HeldIsDown ==
  CaughtUp =>
    /\ \A h \in Hids : held[h] \ missed[h] \subseteq (IF h = cur_hid THEN ItemsDown ELSE {})
    /\ (ItemsDown \ Shared) \cap Mapped \subseteq held[cur_hid] \cup missed[cur_hid]

(* The host knows what is held on usb and how the mouse moved, unless a    *)
(* report is still on its way or the last one failed: no change is left    *)
(* unreported, even if the HID is switched as soon as the change is made.  *)
ReportCurrent ==
  \A d \in Device :
    (\A i \in DOMAIN queue : queue[i].op # "Send" \/ queue[i].device # d) /\ d \notin failed
      => report[d] = OnDevice(d) /\ (d = "mouse" => ~moved)
=============================================================================
