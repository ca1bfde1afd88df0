----------------------------- MODULE Bluetooth -----------------------------
(***************************************************************************)
(* Wii Remotes: the driver of the internal Bluetooth adapter               *)
(* (drivers/usb_bluetooth.c).                                              *)
(*                                                                         *)
(* btPoll, a repeating event, takes an event and a packet of data from the *)
(* adapter, looks after the one command that may be outstanding, and pages *)
(* remotes.  It is one action: btPoll is not reentered, and nothing else   *)
(* touches the driver's state once the adapter is bound.  Only btProbe     *)
(* sends its first command outside, and may find btPoll inside its wait.   *)
(*                                                                         *)
(* The adapter answers commands in order; remotes are switched on and off, *)
(* ask for a connection or wait for a page, and open their channels.  Left *)
(* out: fragments of packets, which button it is, transfers of data that   *)
(* fail, the 60 s after which no remote is paged any more, and the removal *)
(* of the adapter, which is soldered in.                                   *)
(***************************************************************************)
EXTENDS Naturals, Sequences, SequencesExt, FiniteSets

CONSTANTS
  Remotes,
  Pairings,            \* the list of WM_GetPairings, a sequence of remotes
  LinkKeys,            \* the remotes the adapter has a key for
  BT_MAX_REMOTES, BT_COMMAND_QUEUE,
  Wii,                 \* whether H_ConsoleType is a Wii, whose pairings are known
  Disturbances,        \* answers lost, late or bad, channels closed
  TransfersFail,       \* a command may not reach the adapter
  None

ASSUME BluetoothAssumption ==
  /\ IsFiniteSet(Remotes) /\ None \notin Remotes /\ LinkKeys \subseteq Remotes
  /\ Pairings \in Seq(Remotes) /\ BT_MAX_REMOTES \in Nat \ {0}
  /\ BT_COMMAND_QUEUE \in Nat \ {0} /\ Disturbances \in Nat
  /\ {Wii, TransfersFail} \subseteq BOOLEAN

Channels == {"control", "interrupt"}
Slots == 1..BT_MAX_REMOTES

VARIABLES
  adapter,             \* the driver's struct, but for the remotes
  remotes,
  ctl, evs, acl,       \* commands at the adapter; its events and data, in order
  scan,                \* the adapter listens for remotes
  air,                 \* the remotes themselves
  refused,             \* history: a command found the queue full
  wasReset,            \* history: the driver has reset an adapter in use
  unread,              \* history: the adapter has refused to tell its address
  left                 \* things that may still go wrong

vars == <<adapter, remotes, ctl, evs, acl, scan, air, refused, wasReset, unread, left>>

Command(op, r, h) == [op |-> op, r |-> r, h |-> h]
Plain(op) == Command(op, None, 0)
Event(ev, op, r, h, ok) == [ev |-> ev, op |-> op, r |-> r, h |-> h, ok |-> ok]
Complete(op, ok) == Event("complete", op, None, 0, ok)
Status(op, r, ok) == Event("status", op, r, 0, ok)
Message(h, kind, c, ok) == [h |-> h, kind |-> kind, c |-> c, ok |-> ok]

\* The driver's number of a channel: that of "control" or "interrupt", or 0.
Null == "null"

NoChannel == [local |-> FALSE, remote |-> FALSE, configured |-> FALSE]
NoRemote == [used |-> FALSE, r |-> None, h |-> 0, ch |-> [c \in Channels |-> NoChannel], held |-> FALSE]
\* To a remote, whose cid is what the driver has told it to address.
Closed == [st |-> "closed", cid |-> Null, got |-> FALSE, acked |-> FALSE]
Off == [ph |-> "off", h |-> 0, ch |-> [c \in Channels |-> Closed], mode |-> FALSE,
        pressed |-> FALSE, unheard |-> FALSE]

Init ==
  /\ adapter = [init |-> "reset", pending |-> "none", queue |-> <<>>, page |-> None, next |-> 1,
                bound |-> FALSE, probing |-> FALSE, keys |-> {}]
  /\ remotes = [i \in Slots |-> NoRemote]
  /\ ctl = <<>> /\ evs = <<>> /\ acl = <<>>
  /\ scan = FALSE /\ air = [r \in Remotes |-> Off]
  /\ refused = FALSE /\ wasReset = FALSE /\ unread = FALSE /\ left = Disturbances

\* A bound: something goes wrong while at most one remote is on, and after
\* that the others stay off.
Alone(r) == \A q \in Remotes \ {r} : air[q].ph = "off"
MayGoWrong == left > 0 /\ \E r \in Remotes : Alone(r)
Disturb == MayGoWrong /\ left' = left - 1
In(e, s) == \E k \in DOMAIN s : s[k] = e

-----------------------------------------------------------------------------
(***************************************************************************)
(* The adapter and the remotes.                                            *)
(***************************************************************************)
Linked(r) == air[r].ph = "up"
FreeHandle == CHOOSE h \in 1..Cardinality(Remotes) : \A r \in Remotes : air[r].h # h
HasLink(h) == \E r \in Remotes : Linked(r) /\ air[r].h = h
RemoteOf(h) == CHOOSE r \in Remotes : Linked(r) /\ air[r].h = h
Idle(r) == [Off EXCEPT !.ph = IF air[r].ph = "off" THEN "off" ELSE "idle"]
Data(h) == SelectSeq(acl, LAMBDA m : m.h # h)          \* what is left once link h ends

\* What the adapter says to a command.
OfLink(c, then) ==
  IF HasLink(c.h) THEN <<Status(c.op, None, TRUE), then>> ELSE <<Status(c.op, None, FALSE)>>
OfRemote(c, ev, ok) ==
  <<Complete(c.op, TRUE)>> \o (IF Linked(c.r) THEN <<Event(ev, "none", c.r, air[c.r].h, ok)>> ELSE <<>>)
Answer(c) ==
  CASE c.op \in {"reset", "mask", "scan", "address"} -> <<Complete(c.op, TRUE)>>
    [] c.op = "keys"        -> <<Event("keys", "none", None, 0, TRUE), Complete("keys", TRUE)>>
    [] c.op = "create"      -> <<Status("create", c.r, air[c.r].ph \notin {"wait", "up"})>>
                               \o (IF air[c.r].ph = "off" THEN <<Event("connection", "none", c.r, 0, FALSE)>> ELSE <<>>)
    [] c.op \in {"accept", "reject"} -> <<Status(c.op, c.r, air[c.r].ph = "asked")>>
    [] c.op = "auth"        -> OfLink(c, Event("keyrequest", "none", IF HasLink(c.h) THEN RemoteOf(c.h) ELSE None, 0, TRUE))
    [] c.op = "encrypt"     -> OfLink(c, Event("encrypted", "none", None, c.h, TRUE))
    [] c.op = "disconnect"  -> OfLink(c, Event("gone", "none", None, c.h, TRUE))
    [] c.op = "keyreply"    -> OfRemote(c, "authenticated", TRUE)
    [] c.op = "keynegative" -> OfRemote(c, "pinrequest", TRUE)
    [] c.op = "pinnegative" -> OfRemote(c, "authenticated", FALSE)

\* What it says if it cannot.
Failure(c) ==
  CASE c.op = "address" -> <<Complete("address", FALSE)>>
    [] c.op = "encrypt" -> OfLink(c, Event("encrypted", "none", None, c.h, FALSE))

Obeyed(c) ==
  CASE c.op = "reset"                                         -> [r \in Remotes |-> Idle(r)]
    [] c.op = "create" /\ air[c.r].ph \in {"idle", "asked"}   -> [air EXCEPT ![c.r].ph = "wait"]
    [] c.op = "accept" /\ air[c.r].ph = "asked"               -> [air EXCEPT ![c.r].ph = "wait"]
    [] c.op = "reject" /\ air[c.r].ph = "asked"               -> [air EXCEPT ![c.r] = Idle(c.r)]
    [] c.op = "disconnect" /\ HasLink(c.h)                    -> [air EXCEPT ![RemoteOf(c.h)] = Idle(RemoteOf(c.h))]
    [] OTHER                                                  -> air

\* The adapter takes a command and answers, or gets stuck on it, or fails.
Serve ==
  /\ ctl # <<>>
  /\ LET c == Head(ctl) IN
     /\ ctl' = Tail(ctl)
     /\ \/ /\ evs' = evs \o Answer(c) /\ air' = Obeyed(c) /\ UNCHANGED <<unread, left>>
           /\ scan' = (c.op = "scan" \/ (scan /\ c.op # "reset"))
           /\ acl' = CASE c.op = "reset" -> <<>> [] c.op = "disconnect" -> Data(c.h) [] OTHER -> acl
        \/ Disturb /\ UNCHANGED <<evs, air, scan, acl, unread>>
        \/ /\ c.op \in {"address", "encrypt"} /\ Disturb
           /\ evs' = evs \o Failure(c) /\ unread' = (unread \/ c.op = "address")
           /\ UNCHANGED <<air, scan, acl>>
  /\ UNCHANGED <<adapter, remotes, refused, wasReset>>

Other == <<adapter, remotes, ctl, scan, refused, wasReset, unread>>

\* Starting takes a remote longer than its commands and events take the adapter.
SwitchOn(r) ==
  /\ ~wasReset /\ air[r].ph = "off" /\ (left < Disturbances => Alone(r)) /\ ctl = <<>> /\ evs = <<>>
  /\ air' = [air EXCEPT ![r].ph = "idle"] /\ UNCHANGED <<evs, acl, left, Other>>

\* A remote goes, by itself or because it is out of reach.
Leaves(r) ==
  /\ Linked(r) /\ air' = [air EXCEPT ![r] = Off]
  /\ evs' = Append(evs, Event("gone", "none", None, air[r].h, TRUE))
  /\ acl' = Data(air[r].h)
  /\ UNCHANGED <<left, Other>>

Asks(r) ==
  /\ ~wasReset /\ scan /\ air[r].ph = "idle" /\ ~In(Event("request", "none", r, 0, TRUE), evs)
  /\ air' = [air EXCEPT ![r].ph = "asked"] /\ evs' = Append(evs, Event("request", "none", r, 0, TRUE))
  /\ UNCHANGED <<acl, left, Other>>

\* A connection that was accepted or paged comes about, or not.
Establish(r) ==
  /\ air[r].ph = "wait"
  /\ \/ /\ air' = [air EXCEPT ![r].ph = "up", ![r].h = FreeHandle]
        /\ evs' = Append(evs, Event("connection", "none", r, FreeHandle, TRUE))
     \/ air' = [air EXCEPT ![r].ph = "idle"] /\ evs' = Append(evs, Event("connection", "none", r, 0, FALSE))
  /\ UNCHANGED <<acl, left, Other>>

\* A remote with a key opens a channel, once its link is known; it may close
\* one once it works.
Says(r, kind, c, ok) == acl' = Append(acl, Message(air[r].h, kind, c, ok))
Opens(r, c) ==
  /\ ~wasReset /\ ctl = <<>> /\ Linked(r) /\ r \in LinkKeys /\ air[r].ch[c].st = "closed" /\ ~In(Event("connection", "none", r, air[r].h, TRUE), evs)
  /\ air' = [air EXCEPT ![r].ch[c].st = "asked"] /\ Says(r, "connReq", c, TRUE) /\ UNCHANGED <<evs, left, Other>>

Closes(r, c) ==
  /\ air[r].mode /\ air[r].ch[c].st = "open" /\ Disturb /\ Says(r, "disconnReq", air[r].ch[c].cid, TRUE)
  /\ air' = [air EXCEPT ![r].ch[c] = Closed] /\ UNCHANGED <<evs, Other>>

\* The button is pressed or let go, and the remote reports it, if its channel
\* is open; it waits for the report before it was taken (a bound of the model).
Ready(a, c) == a.ch[c].st = "open" /\ a.ch[c].got /\ a.ch[c].acked
Button(r) ==
  /\ ctl = <<>> /\ evs = <<>> /\ ~wasReset /\ air[r].mode /\ \A k \in DOMAIN acl : acl[k].kind = "report" => acl[k].h # air[r].h
  /\ \/ /\ Ready(air[r], "interrupt") /\ Says(r, "report", air[r].ch["interrupt"].cid, ~air[r].pressed)
        /\ air' = [air EXCEPT ![r].pressed = ~@, ![r].unheard = FALSE]
     \/ /\ ~Ready(air[r], "interrupt") /\ UNCHANGED acl
        /\ air' = [air EXCEPT ![r].pressed = ~@, ![r].unheard = TRUE]
  /\ UNCHANGED <<evs, left, Other>>

-----------------------------------------------------------------------------
(***************************************************************************)
(* The driver's functions, on a record s of what btPoll changes; "works"   *)
(* says whether the transfers of this btPoll reach the adapter.            *)
(***************************************************************************)
\* hciCommandNow
CanSend(s) == s.a.pending = "none" /\ s.works
Sent(s, cmd) == [s EXCEPT !.a.pending = cmd.op, !.ctl = Append(@, cmd)]
hciCommandNow(s, cmd) == IF CanSend(s) THEN Sent(s, cmd) ELSE s

hciCommand(s, cmd) ==
  IF s.a.pending = "none" THEN hciCommandNow(s, cmd)
  ELSE IF Len(s.a.queue) >= BT_COMMAND_QUEUE THEN [s EXCEPT !.refused = TRUE]
  ELSE [s EXCEPT !.a.queue = Append(@, cmd)]

hciServiceQueue(s) ==
  IF s.a.queue # <<>> /\ CanSend(s)
  THEN [Sent(s, Head(s.a.queue)) EXCEPT !.a.queue = Tail(@)] ELSE s

\* Mutant: any remote will do.
AnyRemote(s, h) == {i \in Slots : s.rem[i].used}
remoteByHandle(s, h) == {i \in Slots : s.rem[i].used /\ s.rem[i].h = h}
remoteByAddress(s, r) == {i \in Slots : s.rem[i].used /\ s.rem[i].r = r}
First(is) == CHOOSE i \in is : \A j \in is : i <= j

\* allocateRemote, when there is a slot
FreeSlots(s) == {i \in Slots : ~s.rem[i].used}
allocateRemote(s, r, h) ==
  IF remoteByAddress(s, r) # {}
  THEN [s EXCEPT !.rem[First(remoteByAddress(s, r))].h = h]
  ELSE [s EXCEPT !.rem[First(FreeSlots(s))] =
          [NoRemote EXCEPT !.used = TRUE, !.r = r, !.h = h, !.ch = [c \in Channels |-> [NoChannel EXCEPT !.local = TRUE]]]]

LocalCID(s, i, c) == IF s.rem[i].ch[c].local THEN c ELSE Null

\* aclSend: what remote s.rem[i] makes of a message about channel c, to which
\* the driver's number cid belongs, and what it says to it.
Hears(s, r, kind, c, cid, ok) ==
  LET ch == s.air[r].ch[c]
      Says2(to, ms) == s.acl \o [k \in DOMAIN ms |-> Message(s.air[r].h, ms[k][1], to, ms[k][2])]
      Open == [Closed EXCEPT !.st = "open", !.cid = cid]
  IN CASE kind = "connReq" /\ ch.st = "closed" ->
            [s EXCEPT !.air[r].ch[c] = Open, !.acl = Says2(cid, << <<"connRsp", TRUE>>, <<"configReq", TRUE>> >>)]
       [] kind = "connReq" /\ ch.st # "closed" -> [s EXCEPT !.acl = Says2(cid, << <<"connRsp", FALSE>> >>)]
       [] kind = "connRsp" /\ ch.st = "asked" ->
            [s EXCEPT !.air[r].ch[c] = Open, !.acl = Says2(cid, << <<"configReq", TRUE>> >>)]
       [] kind = "configReq" /\ ch.st = "open" ->
            [s EXCEPT !.air[r].ch[c].got = TRUE, !.acl = Says2(ch.cid, << <<"configRsp", TRUE>> >>)]
       [] kind = "configRsp" /\ ch.st = "open" /\ ok -> [s EXCEPT !.air[r].ch[c].acked = TRUE]
       [] kind = "mode" /\ Ready(s.air[r], "control") -> [s EXCEPT !.air[r].mode = TRUE]
       [] OTHER -> s

aclSend(s, i, kind, c, ok) ==
  LET to == {r \in Remotes : s.air[r].ph = "up" /\ s.air[r].h = s.rem[i].h}
  IN IF to = {} THEN s ELSE Hears(s, CHOOSE r \in to : TRUE, kind, c, LocalCID(s, i, c), ok)

connectChannel(s, i, c) == IF s.rem[i].ch[c].remote THEN s ELSE aclSend(s, i, "connReq", c, TRUE)

wiimoteConfigure(s, i) ==
  IF \A c \in Channels : s.rem[i].ch[c].configured THEN aclSend(s, i, "mode", "control", TRUE) ELSE s

\* The channel with that number, as a set: at 0 are those that were closed,
\* the control channel first.
channelByLocal(s, i, cid) ==
  LET cs == {c \in Channels : LocalCID(s, i, c) = cid} IN IF "control" \in cs THEN {"control"} ELSE cs

-----------------------------------------------------------------------------
(***************************************************************************)
(* Data: aclPacket, l2capPacket, l2capSignal and wiimoteInput.             *)
(***************************************************************************)
\* Mutant: no configuration is asked for.
ConnectedUnconfigured(s, i, c) == [s EXCEPT !.rem[i].ch[c].remote = TRUE]
Connected(s, i, c) == aclSend([s EXCEPT !.rem[i].ch[c].remote = TRUE], i, "configReq", c, TRUE)
Configured(s, i, c) == wiimoteConfigure([s EXCEPT !.rem[i].ch[c].configured = TRUE], i)

\* A channel that a remote opens is accepted, whatever became of it before.
l2capSignal(s, i, m) ==
  LET cs == channelByLocal(s, i, m.c)
      c == CHOOSE x \in cs : TRUE
  IN CASE m.kind = "connReq"                   -> Connected(aclSend(s, i, "connRsp", m.c, TRUE), i, m.c)
       [] cs = {}                              -> s
       [] m.kind = "connRsp" /\ m.ok           -> Connected(s, i, c)
       [] m.kind = "configReq"                 -> Configured(aclSend(s, i, "configRsp", c, s.rem[i].ch[c].remote), i, c)
       [] m.kind = "configRsp" /\ m.ok         -> Configured(s, i, c)
       [] m.kind = "disconnReq"                -> [s EXCEPT !.rem[i].ch[c] = NoChannel]
       [] OTHER                                -> s

\* The button of the last report; while it is down, it repeats.
wiimoteInput(s, i, pressed) == [s EXCEPT !.rem[i].held = pressed]

aclPacket(s, m) ==
  IF remoteByHandle(s, m.h) = {} THEN s
  ELSE LET i == First(remoteByHandle(s, m.h)) IN
       IF m.kind # "report" THEN l2capSignal(s, i, m)
       ELSE IF m.c = LocalCID(s, i, "interrupt") THEN wiimoteInput(s, i, m.ok) ELSE s

-----------------------------------------------------------------------------
(***************************************************************************)
(* Events.                                                                 *)
(***************************************************************************)
Steps == <<"reset", "mask", "scan", "address", "keys", "ready">>
initAdvance(s, op, ok) ==
  LET k == CHOOSE k \in 1..5 : Steps[k] = s.a.init
      then == [s EXCEPT !.a.init = Steps[k + 1]]
  IN IF s.a.init = "ready" \/ s.a.init # op \/ (op = "address" /\ ~ok) THEN s
     ELSE IF op = "keys" THEN then ELSE hciCommand(then, Plain(Steps[k + 1]))

Answered(s, op) == IF s.a.pending = op THEN [s EXCEPT !.a.pending = "none"] ELSE s
PageEnded(s, ended) == IF ended THEN [s EXCEPT !.a.page = None] ELSE s

connectionComplete(s, e) ==
  LET t == PageEnded(s, s.a.page = e.r)
  IN CASE ~e.ok -> t
       [] e.ok /\ remoteByAddress(t, e.r) \cup FreeSlots(t) = {} -> hciCommand(t, Command("disconnect", None, e.h))
       [] OTHER -> hciCommand(allocateRemote(t, e.r, e.h), Command("auth", None, e.h))

pairingKnown(r) == ~Wii \/ r \in Range(Pairings)

Handled(s, e) ==
  CASE e.ev = "complete"      -> initAdvance(Answered(s, e.op), e.op, e.ok)
    [] e.ev = "status"        -> PageEnded(Answered(s, e.op), e.op = "create" /\ ~e.ok)
    [] e.ev = "connection"    -> connectionComplete(s, e)
    [] e.ev = "request"       -> hciCommand(s, Command(IF pairingKnown(e.r) THEN "accept" ELSE "reject", e.r, 0))
    [] e.ev = "gone"          -> LET is == remoteByHandle(s, e.h)
                                 IN IF is = {} THEN s ELSE [s EXCEPT !.rem[First(is)] = NoRemote]
    [] e.ev = "authenticated" -> IF e.ok THEN hciCommand(s, Command("encrypt", None, e.h)) ELSE s
    [] e.ev = "encrypted"     -> LET is == remoteByHandle(s, e.h)
                                 IN IF is = {} \/ ~e.ok THEN s
                                    ELSE connectChannel(connectChannel(s, First(is), "control"), First(is), "interrupt")
    [] e.ev = "keys"          -> [s EXCEPT !.a.keys = LinkKeys]
    [] e.ev = "pinrequest"    -> hciCommand(s, Command("pinnegative", e.r, 0))
    [] e.ev = "keyrequest"    -> hciCommand(s, Command(IF e.r \in s.a.keys THEN "keyreply" ELSE "keynegative", e.r, 0))

hciEvent(s, e) == hciServiceQueue(Handled(s, e))

\* The command timed out: the driver resets the adapter.
\* Mutant: the page is not given up.
TimedOutKeepsPage(s) ==
  hciCommandNow([s EXCEPT !.a.pending = "none", !.a.queue = <<>>, !.a.init = "reset"], Plain("reset"))
\* Mutant: the initialisation does not start again.
TimedOutKeepsInit(s) ==
  hciCommandNow([s EXCEPT !.a.pending = "none", !.a.queue = <<>>, !.a.page = None], Plain("reset"))
TimedOut(s) ==
  hciCommandNow([s EXCEPT !.a.pending = "none", !.a.queue = <<>>, !.a.page = None, !.a.init = "reset"], Plain("reset"))

\* The next pairing in turn that is not connected is paged.
tryStoredRemote(s) ==
  LET n == Len(Pairings)
      At(k) == Pairings[((s.a.next + k - 2) % n) + 1]
      apart == {k \in 1..n : remoteByAddress(s, At(k)) = {}}
      next(k) == ((s.a.next + k - 1) % n) + 1
  IN CASE ~Wii \/ n = 0 \/ s.a.page # None \/ s.a.pending # "none" \/ s.a.init # "ready" -> s
       [] apart = {} -> s
       [] OTHER -> LET k == First(apart)
                       t == [s EXCEPT !.a.next = next(k)]
                   IN IF CanSend(t) THEN [Sent(t, Command("create", At(k), 0)) EXCEPT !.a.page = At(k)] ELSE t

-----------------------------------------------------------------------------
(***************************************************************************)
(* btProbe and btPoll.                                                     *)
(***************************************************************************)
btProbe ==
  /\ ~adapter.bound
  /\ adapter' = [adapter EXCEPT !.bound = TRUE, !.probing = TRUE]
  /\ ctl' = Append(ctl, Plain("reset"))
  /\ UNCHANGED <<remotes, evs, acl, scan, air, refused, wasReset, unread, left>>

\* The wait for the first command is over; one btPoll may have had the answer
\* and sent the next command in it.
ProbeReturns ==
  /\ adapter.probing /\ adapter' = [adapter EXCEPT !.probing = FALSE, !.pending = "reset"]
  /\ UNCHANGED <<remotes, ctl, evs, acl, scan, air, refused, wasReset, unread, left>>

\* Two seconds without an answer, which is lost unless the adapter is slow.
Lost == \A k \in DOMAIN evs : evs[k].op # adapter.pending
InUse == \E r \in Remotes : air[r].ph \in {"wait", "up"}

btPoll(timeout, page) ==
  /\ adapter.bound /\ (adapter.probing => adapter.pending = "none")
  /\ timeout => adapter.pending # "none" /\ Lost /\ (ctl # <<>> => MayGoWrong)
  /\ left' = IF timeout /\ ctl # <<>> THEN left - 1 ELSE left
  /\ wasReset' = (wasReset \/ (timeout /\ (ctl # <<>> \/ InUse \/ \E i \in Slots : remotes[i].used)))
  /\ \E works \in IF TransfersFail THEN BOOLEAN ELSE {TRUE} :
     LET s0 == [a |-> adapter, rem |-> remotes, ctl |-> ctl, acl |-> IF acl = <<>> THEN acl ELSE Tail(acl),
                air |-> air, refused |-> refused, works |-> works]
         s1 == IF evs = <<>> THEN s0 ELSE hciEvent(s0, Head(evs))
         s2 == IF acl = <<>> THEN s1 ELSE aclPacket(s1, Head(acl))
         s3 == hciServiceQueue(IF timeout THEN TimedOut(s2) ELSE s2)
         s == IF page THEN tryStoredRemote(s3) ELSE s3
     IN /\ adapter' = s.a /\ remotes' = s.rem /\ ctl' = s.ctl /\ acl' = s.acl
        /\ air' = s.air /\ refused' = s.refused
  /\ evs' = IF evs = <<>> THEN evs ELSE Tail(evs)
  /\ UNCHANGED <<scan, unread>>

Next ==
  \/ btProbe \/ ProbeReturns \/ Serve
  \/ \E timeout, page \in BOOLEAN : btPoll(timeout, page)
  \/ \E r \in Remotes : SwitchOn(r) \/ Leaves(r) \/ Asks(r) \/ Establish(r) \/ Button(r)
  \/ \E r \in Remotes, c \in Channels : Opens(r, c) \/ Closes(r, c)

Spec == Init /\ [][Next]_vars

\* btPoll runs every 10 ms and takes what there is (weak fairness, with what
\* enables it and what it does spelled out); its two seconds pass; the adapter
\* works on its commands, and a connection comes about or fails.
Waiting == adapter.bound /\ ~adapter.probing /\ evs \o acl # <<>>
Taken == Len(evs' \o acl') < Len(evs \o acl)
Overdue == adapter.pending # "none" /\ Lost /\ ctl = <<>>
FairSpec ==
  /\ Spec
  /\ WF_vars(btProbe) /\ WF_vars(ProbeReturns) /\ WF_vars(Serve)
  /\ ([]<>~Waiting \/ []<><<Taken>>_vars) /\ []<>~Overdue
  /\ \A r \in Remotes : WF_vars(Establish(r))

-----------------------------------------------------------------------------
(***************************************************************************)
(* Properties.                                                             *)
(***************************************************************************)
\* Every variable has its type, and the command queue is not overrun.
TypeOK ==
  /\ adapter.init \in Range(Steps) /\ adapter.keys \subseteq LinkKeys
  /\ adapter.page \in Remotes \cup {None} /\ adapter.next \in 1..(Len(Pairings) + 1)
  /\ Len(adapter.queue) <= BT_COMMAND_QUEUE
  /\ \A i \in Slots : remotes[i].r \in (IF remotes[i].used THEN Remotes ELSE {None})
  /\ \A r \in Remotes : /\ air[r].ph \in {"off", "idle", "asked", "wait", "up"}
                        /\ air[r].h \in 0..Cardinality(Remotes)
  /\ {scan, refused, wasReset, unread} \subseteq BOOLEAN /\ left \in 0..Disturbances

\* A slot of the driver stands for a link of the adapter, by its handle and
\* its address, and each link has its slot, or the event that makes them
\* agree is on its way; until the driver resets an adapter in use, which
\* ends the links without an event and leaves the slots (btPoll).
SlotsFollowLinks ==
  wasReset \/
  /\ \A i \in Slots : remotes[i].used =>
       \/ Linked(remotes[i].r) /\ air[remotes[i].r].h = remotes[i].h
       \/ In(Event("gone", "none", None, remotes[i].h, TRUE), evs)
  /\ \A i, j \in Slots : remotes[i].used /\ remotes[j].used /\ i # j => remotes[i].h # remotes[j].h
  /\ \A r \in Remotes : Linked(r) =>
       \/ \E i \in Slots : remotes[i].used /\ remotes[i].r = r /\ remotes[i].h = air[r].h
       \/ In(Event("connection", "none", r, air[r].h, TRUE), evs)
       \/ adapter.pending = "disconnect" \/ In(Command("disconnect", None, air[r].h), adapter.queue)

\* The adapter is believed to page a remote only while it does: otherwise no
\* remote is paged any more (tryStoredRemote returns while pagePending).
PageInFlight ==
  adapter.page # None =>
    \/ adapter.pending = "create" \/ air[adapter.page].ph = "wait" \/ Linked(adapter.page)
    \/ \E k \in DOMAIN evs : evs[k].r = adapter.page /\ evs[k].ev \in {"connection", "status"}

\* The button that slot i repeats is held, or the driver is about to hear
\* that it is not.
HeldOrTold(i) ==
  \/ air[remotes[i].r].pressed
  \/ In(Event("gone", "none", None, remotes[i].h, TRUE), evs)
  \/ \E k \in DOMAIN acl : acl[k].h = remotes[i].h /\ acl[k].kind = "report" /\ ~acl[k].ok

\* A button repeats (btPoll) only while it is held, or its release or the end
\* of the link is on its way, until the driver resets an adapter in use.  The
\* one exception is a button that was let go while its remote had closed the
\* interrupt channel and could not say so: l2capSignal clears the channel,
\* but not the buttons, and btPoll goes on.
RepeatsWhileHeld ==
  wasReset \/ \A i \in Slots : remotes[i].used /\ remotes[i].held =>
    HeldOrTold(i) \/ air[remotes[i].r].unheard

\* Without that exception the driver does not meet it.
RepeatsOnlyHeld ==
  wasReset \/ \A i \in Slots : remotes[i].used /\ remotes[i].held => HeldOrTold(i)

\* What the driver believes of its remotes.
SlotsKept == TypeOK /\ SlotsFollowLinks /\ RepeatsWhileHeld

\* The queue of commands is long enough: no caller of hciCommand looks at
\* what it returns, and a command that is refused is not sent again.  After
\* a reset of an adapter in use nothing is said any more, since the slots it
\* leaves and the links the adapter has dropped no longer match.
NoneRefused == wasReset \/ ~refused

\* Every command gets through, and a page that has ended is forgotten.
CommandsKept == PageInFlight /\ NoneRefused

\* The adapter comes up, and again after each answer that was lost, unless
\* it does not tell its address: then initAdvance asks no further, and no
\* command is left that could time out.
AdapterComesUp == <>[](adapter.init = "ready") \/ <>unread

\* A remote with a key whose link lasts is configured and heard, whichever
\* side opens which channel first, if nothing goes wrong.
RemoteHeard == \A r \in LinkKeys : Linked(r) ~> (air[r].mode \/ ~Linked(r) \/ left < Disturbances)
=============================================================================
