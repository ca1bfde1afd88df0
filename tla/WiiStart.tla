------------------------------ MODULE WiiStart ------------------------------
(***************************************************************************)
(* The start on a Wii (wii/init.c: H_InitWii, testMEM2, armbootnow;        *)
(* wii/mini_ipc.c): a state machine that finds out what runs on the ARM    *)
(* coprocessor, IOS or some copy of MINI, obtains the rights it needs and  *)
(* ends with the hardware open and the MINI of NPLL running.               *)
(*                                                                         *)
(* The coprocessor works beside it.  A request to MINI is posted and       *)
(* served later, and a MINI that starts says so by writing the address of  *)
(* its header in the last word of MEM2, a word that testMEM2 overwrites    *)
(* and restores.  How IOS grants the rights, and the layout of its IPC,    *)
(* are left out.                                                           *)
(***************************************************************************)
EXTENDS Naturals, Sequences

CONSTANTS
  WaitMiniRetries,     \* waitMiniRetries, 5
  LaunchRetries,       \* the retries of armbootnow, 10
  RecvAttempts,        \* messages that MINI_IPCExchange looks at, 3
  InQueue,             \* requests that MINI's queue holds
  Disturbances         \* answers late or lost, refusals

ASSUME WiiStartAssumption ==
  /\ WaitMiniRetries \in Nat /\ Disturbances \in Nat
  /\ LaunchRetries \in Nat \ {0} /\ InQueue \in Nat \ {0} /\ RecvAttempts \in Nat \ {0}

VARIABLES
  state,               \* of H_InitWii, or of a function it has called
  flags,               \* stateFlags, the set of those that are set
  waits, launches,     \* waitMiniRetries, and the tries left in armbootnow
  request, looks,      \* of MINI_Init, and the messages it may look at for a reply
  hw,                  \* the rights that are open: AHBPROT, SRNPROT, MEM2
  arm,                 \* what runs on the coprocessor: IOS, the MINI that was
                       \* there before, NPLL's own, or that being loaded
  word, saved,         \* the last word of MEM2, and what testMEM2 keeps of it
  inq, outq,           \* requests to MINI and its replies
  why,                 \* the reason of a panic
  seen,                \* history: what went wrong on the way
  left

vars == <<state, flags, waits, launches, request, looks, hw, arm, word, saved, inq, outq, why, seen, left>>
tries == <<waits, launches>>
posted == <<request, looks>>
ppc == <<state, flags, tries, posted, saved, why>>
out == <<hw, arm, word, inq, outq>>

Rights == {"AHBPROT", "SRNPROT", "MEM2"}
Requests == <<"ping", "slwping", "getvers">>

Init ==
  /\ arm \in {"ios", "original"}
  /\ hw \in SUBSET Rights /\ (arm = "original" => "MEM2" \in hw)
  /\ word = (IF arm = "original" THEN "header" ELSE "none") /\ saved = "none"
  /\ state = "analyze" /\ flags = (IF arm = "original" THEN {"ORIG_MINI"} ELSE {})
  /\ waits = WaitMiniRetries /\ launches = LaunchRetries
  /\ request = 1 /\ looks = RecvAttempts
  /\ inq = <<>> /\ outq = <<>> /\ why = "none" /\ seen = {} /\ left = Disturbances

Disturb == left > 0 /\ left' = left - 1
Note(what) == seen' = seen \cup {what}
Goto(s) == state' = s
Panic(reason) == state' = "panic" /\ why' = reason

-----------------------------------------------------------------------------
(***************************************************************************)
(* The coprocessor.  MINI replies to the requests of MINI_Init.            *)
(***************************************************************************)
Serves ==
  /\ arm \in {"original", "ours"} /\ inq # <<>>
  /\ LET m == Head(inq) IN
     /\ hw' = IF m \in Rights THEN hw \cup {m} ELSE hw
     /\ arm' = IF m = "jump" THEN "loading" ELSE arm
     /\ inq' = IF m = "jump" THEN <<>> ELSE Tail(inq)
     /\ outq' = CASE m = "jump" -> <<>> [] m \in Rights -> outq [] OTHER -> Append(outq, m)
  /\ UNCHANGED <<word, seen, left, ppc>>

\* MINI opens MEM2 and publishes its header.
Starts ==
  /\ arm = "loading" /\ arm' = "ours"
  /\ hw' = hw \cup {"MEM2"} /\ word' = "header"
  /\ UNCHANGED <<inq, outq, seen, left, ppc>>

-----------------------------------------------------------------------------
(***************************************************************************)
(* Analysis.                                                               *)
(***************************************************************************)
Perms == {"AHBPROT", "SRNPROT", "MEM2"}
Set(fs, on) == flags' = IF on THEN flags \cup fs ELSE flags \ fs
Decided(fs) ==
  /\ flags' = fs
  /\ Goto(IF "CUR_MINI" \in fs THEN "analyze_mini" ELSE "analyze_ios")

\* History: MINI was still being loaded when this was last looked at.
Looked == (seen \ {"loading"}) \cup (IF arm = "loading" THEN {"loading"} ELSE {})

\* STATE_ANALYZE, up to what testMEM2 reads and keeps of the word.
Analyze ==
  /\ state = "analyze" /\ Goto("reading")
  /\ flags' = (flags \ (Perms \cup {"CUR_MINI"})) \cup (hw \ {"MEM2"})
  /\ saved' = IF "MEM2" \in hw THEN word ELSE "closed"
  /\ UNCHANGED <<tries, posted, out, why, seen, left>>

\* History: a header that was published since then is lost when testMEM2
\* writes the word, or restores it.
Lost == IF word = "header" /\ saved # "header" /\ "MEM2" \in hw THEN {"overwritten"} ELSE {}

\* testMEM2 writes the word.  Without access it does not change.
Written ==
  /\ state = "reading" /\ seen' = seen \cup Lost
  /\ IF "MEM2" \in hw THEN word' = "deadbeef" /\ Goto("testing")
     ELSE UNCHANGED word /\ Goto("closed")
  /\ UNCHANGED <<flags, tries, posted, saved, hw, arm, inq, outq, why, left>>

\* testMEM2 looks at the word again and restores it; the header is looked for
\* after that.  A MINI that wrote the word in between did so before testMEM2
\* looked or after.
Result ==
  /\ state \in {"testing", "closed"} /\ saved' = "none"
  /\ \E open \in IF state = "closed" THEN {FALSE}
                 ELSE IF word = "deadbeef" /\ saved # "closed" THEN {TRUE} ELSE BOOLEAN :
       Decided(flags \cup (IF open THEN {"MEM2"} ELSE {})
                     \cup (IF open /\ saved = "header" THEN {"CUR_MINI"} ELSE {}))
  /\ seen' = Looked \cup Lost
  /\ UNCHANGED <<tries, posted, hw, arm, inq, outq, why, left>>
\* Mutant: the word is not restored.
TestedKeeps == Result /\ word' = word
Tested == Result /\ word' = IF "MEM2" \in hw THEN saved ELSE word

\* Mutant: the retries are not counted.
AnalyzeIosWaits ==
  /\ state = "analyze_ios"
  /\ IF "RAN_DEVSHA" \in flags /\ "RAN_ABN" \notin flags /\ "AHBPROT" \notin flags
     THEN Panic("rights")
     ELSE /\ Goto(IF "RAN_ABN" \in flags THEN "analyze"
                  ELSE IF "IOS_INIT" \notin flags THEN "ios_init"
                  ELSE IF "AHBPROT" \notin flags THEN "ios_priv_esc" ELSE "ios_armbootnow")
          /\ UNCHANGED why
  /\ UNCHANGED <<flags, tries, posted, saved, out, seen, left>>
AnalyzeIos ==
  /\ state = "analyze_ios"
  /\ IF "RAN_DEVSHA" \in flags /\ "RAN_ABN" \notin flags /\ "AHBPROT" \notin flags
     THEN Panic("rights") /\ UNCHANGED waits
     ELSE IF "RAN_ABN" \in flags
     THEN IF waits = 0 THEN Panic("no mini") /\ UNCHANGED waits
          ELSE waits' = waits - 1 /\ Goto("analyze") /\ UNCHANGED why
     ELSE /\ Goto(IF "IOS_INIT" \notin flags THEN "ios_init"
                  ELSE IF "AHBPROT" \notin flags THEN "ios_priv_esc" ELSE "ios_armbootnow")
          /\ UNCHANGED <<waits, why>>
  /\ UNCHANGED <<flags, launches, posted, saved, out, seen, left>>

AnalyzeMini ==
  /\ state = "analyze_mini"
  /\ Goto(IF "MINI_INIT" \notin flags THEN "mini_init"
          ELSE IF ~(Perms \subseteq flags) THEN "mini_priv_esc"
          ELSE IF "ORIG_MINI" \in flags
               THEN IF "MINI_RELOADED" \in flags THEN "ready" ELSE "mini_reload"
          ELSE IF "RAN_ABN" \in flags THEN "sanitize" ELSE "unreachable")
  /\ UNCHANGED <<flags, tries, posted, saved, why, out, seen, left>>

-----------------------------------------------------------------------------
(***************************************************************************)
(* Under IOS.                                                              *)
(***************************************************************************)
OnIos == arm = "ios"

\* ES_Init panics when IOS does not answer, after very many tries.
IosInit ==
  /\ state = "ios_init"
  /\ \/ OnIos /\ Set({"IOS_INIT"}, TRUE) /\ Goto("analyze_ios") /\ UNCHANGED <<why, seen, left>>
     \/ OnIos /\ Panic("no ios") /\ Disturb /\ Note("silent") /\ UNCHANGED flags
     \/ ~OnIos /\ Panic("no ios") /\ Note("ios on mini") /\ UNCHANGED <<flags, left>>
  /\ UNCHANGED <<tries, posted, saved, out>>

\* IOS grants the rights, refuses, or only seems to grant them.
IosPrivEsc ==
  /\ state = "ios_priv_esc"
  /\ \/ /\ Goto("hw_unrestrict") /\ Set({"RAN_DEVSHA"}, TRUE)
        /\ \/ hw' = hw \cup {"AHBPROT"} /\ UNCHANGED <<left, seen>>
           \/ UNCHANGED hw /\ Disturb /\ Note("refused")
        /\ UNCHANGED why
     \/ Panic("rights") /\ Disturb /\ Note("refused") /\ UNCHANGED <<flags, hw>>
  /\ UNCHANGED <<tries, posted, saved, arm, word, inq, outq>>

\* armbootnow: one turn of its loop.  ES_LaunchTitle that times out is taken
\* for a launch; after any other end of it, or of the calls before it, ES_Init
\* is called again.  It may find no place for its hook in this IOS, or too
\* many tickets.
Armbootnow ==
  /\ state = "ios_armbootnow" /\ hw' = hw \cup {"SRNPROT"}
  /\ \/ /\ OnIos /\ Goto("analyze") /\ Set({"RAN_ABN"}, TRUE)
        /\ \/ arm' = "loading" /\ UNCHANGED <<left, seen>>
           \/ UNCHANGED arm /\ Disturb /\ Note("launch lost")
        /\ UNCHANGED <<launches, why>>
     \/ /\ OnIos /\ Disturb /\ launches' = launches - 1
        /\ IF launches = 1 THEN Panic("launch") /\ UNCHANGED seen
           ELSE \/ UNCHANGED <<state, why, seen>>
                \/ Panic("no ios") /\ Note("silent")
        /\ UNCHANGED <<flags, arm>>
     \/ OnIos /\ Disturb /\ Panic("odd ios") /\ UNCHANGED <<flags, launches, arm, seen>>
     \/ ~OnIos /\ Panic("no ios") /\ Note("ios on mini") /\ UNCHANGED <<flags, launches, arm, left>>
  /\ UNCHANGED <<waits, posted, saved, word, inq, outq>>

\* Registers that are still closed take no writes.
HwUnrestrict ==
  /\ state = "hw_unrestrict" /\ Goto("analyze")
  /\ hw' = IF "AHBPROT" \in hw THEN Rights ELSE hw
  /\ seen' = IF "AHBPROT" \in hw THEN seen ELSE seen \cup {"closed"}
  /\ UNCHANGED <<flags, tries, posted, saved, arm, word, inq, outq, why, left>>

-----------------------------------------------------------------------------
(***************************************************************************)
(* Under MINI.                                                             *)
(***************************************************************************)
MiniInit ==
  /\ state = "mini_init"
  /\ IF word # "header" THEN Panic("header") /\ UNCHANGED posted
     ELSE Goto("post") /\ request' = 1 /\ looks' = RecvAttempts /\ UNCHANGED why
  /\ UNCHANGED <<flags, tries, saved, out, seen, left>>

\* A request waits for room in the queue, but not for ever.
\* MINI_IPCExchange posts, and takes replies until one is for this request.
\* The tags start again with each MINI_Init, so a late reply to the same
\* request of an earlier one is as good as any.
Room == Len(inq) < InQueue
Stuck == ~Room /\ Disturb
Post ==
  /\ state = "post"
  /\ \/ Room /\ inq' = Append(inq, Requests[request]) /\ Goto("recv") /\ UNCHANGED left
     \/ Stuck /\ Goto("analyze") /\ UNCHANGED inq
  /\ UNCHANGED <<flags, tries, posted, saved, hw, arm, word, outq, why, seen>>

Recv ==
  /\ state = "recv" /\ outq # <<>> /\ outq' = Tail(outq)
  /\ IF Head(outq) = Requests[request]
     THEN IF request = 3 THEN Goto("analyze") /\ Set({"MINI_INIT"}, TRUE) /\ UNCHANGED posted
          ELSE Goto("post") /\ request' = request + 1 /\ looks' = RecvAttempts /\ UNCHANGED flags
     ELSE IF looks = 1 THEN Goto("analyze") /\ UNCHANGED <<flags, posted>>
          ELSE looks' = looks - 1 /\ UNCHANGED <<state, flags, request>>
  /\ UNCHANGED <<tries, saved, hw, arm, word, inq, why, seen, left>>

\* No reply in time, and STATE_ANALYZE again.
RecvTimesOut ==
  /\ state = "recv" /\ outq = <<>> /\ Goto("analyze") /\ Disturb
  /\ UNCHANGED <<flags, tries, posted, saved, out, why, seen>>

\* Whether the jump could be posted is not looked at.
MiniReload ==
  /\ state = "mini_reload" /\ word' = "none"
  /\ \/ Room /\ inq' = Append(inq, "jump") /\ UNCHANGED left
     \/ Stuck /\ UNCHANGED inq
  /\ flags' = (flags \ {"MINI_INIT", "CUR_MINI"}) \cup {"MINI_RELOADED"} /\ Goto("settle")
  /\ UNCHANGED <<tries, posted, saved, hw, arm, outq, why, seen>>

\* Half a second: MINI is up by then, or it is slow, or was not asked.
\* Mutant: no wait.
SettleAtOnce == state = "settle" /\ Goto("analyze") /\ UNCHANGED <<flags, tries, posted, saved, out, why, seen, left>>
Coming == arm = "loading" \/ \E k \in DOMAIN inq : inq[k] = "jump"
Settle ==
  /\ state = "settle" /\ Goto("analyze")
  /\ IF arm = "ours" THEN UNCHANGED <<left, seen>>
     ELSE Note("slow") /\ (IF Coming THEN Disturb ELSE UNCHANGED left)
  /\ UNCHANGED <<flags, tries, posted, saved, out, why>>

\* The rights are posted one after the other, and not waited for.
MiniPrivEsc ==
  /\ state \in {"mini_priv_esc", "mini_priv_esc2"}
  /\ \/ /\ Room /\ UNCHANGED <<why, left>>
        /\ IF state = "mini_priv_esc"
           THEN inq' = Append(inq, "AHBPROT") /\ Goto("mini_priv_esc2")
           ELSE inq' = Append(inq, "SRNPROT") /\ Goto("hw_unrestrict")
     \/ Stuck /\ Panic("stuck") /\ UNCHANGED inq
  /\ UNCHANGED <<flags, tries, posted, saved, hw, arm, word, outq, seen>>

\* STATE_POST_IOS_SANITIZE
Sanitize ==
  /\ state = "sanitize"
  /\ \/ Goto("ready") /\ UNCHANGED <<why, left>>
     \/ Panic("usb") /\ Disturb
  /\ UNCHANGED <<flags, tries, posted, saved, out, seen>>

\* The checks after the state machine.
Ready ==
  /\ state = "ready"
  /\ IF {"AHBPROT", "MEM2"} \subseteq hw THEN Goto("common") /\ UNCHANGED why ELSE Panic("checks")
  /\ UNCHANGED <<flags, tries, posted, saved, out, seen, left>>

Ended == state \in {"common", "panic"} /\ UNCHANGED vars

PpcStep ==
  \/ Analyze \/ Written \/ Tested \/ AnalyzeIos \/ AnalyzeMini \/ IosInit \/ IosPrivEsc \/ Armbootnow \/ HwUnrestrict
  \/ MiniInit \/ Post \/ Recv \/ RecvTimesOut \/ MiniReload \/ Settle \/ MiniPrivEsc \/ Sanitize \/ Ready
Next == PpcStep \/ Serves \/ Starts \/ Ended

Spec == Init /\ [][Next]_vars
FairSpec == Spec /\ WF_vars(PpcStep) /\ WF_vars(Serves) /\ WF_vars(Starts)

-----------------------------------------------------------------------------
(***************************************************************************)
(* Properties.                                                             *)
(***************************************************************************)
States == {"analyze", "reading", "testing", "closed", "analyze_ios", "analyze_mini", "ios_init", "ios_priv_esc",
           "ios_armbootnow", "hw_unrestrict", "mini_init", "post", "recv", "mini_reload", "settle",
           "mini_priv_esc", "mini_priv_esc2", "sanitize", "ready", "unreachable", "common", "panic"}
Flags == Rights \cup {"ORIG_MINI", "CUR_MINI", "MINI_INIT", "MINI_RELOADED", "IOS_INIT",
                      "RAN_DEVSHA", "RAN_ABN"}
Messages == {Requests[k] : k \in 1..3} \cup {"jump", "AHBPROT", "SRNPROT"}

\* Every variable has its type, and MINI's queue is never overrun.
TypeOK ==
  /\ state \in States /\ flags \subseteq Flags
  /\ waits \in 0..WaitMiniRetries /\ launches \in 0..LaunchRetries
  /\ request \in 1..3 /\ looks \in 1..RecvAttempts
  /\ hw \subseteq Rights /\ arm \in {"ios", "original", "loading", "ours"}
  /\ {word, saved} \subseteq {"none", "header", "deadbeef", "closed"}
  /\ inq \in Seq(Messages) /\ Len(inq) <= InQueue /\ outq \in Seq(Messages)
  /\ why \in {"none", "rights", "no ios", "no mini", "launch", "header", "usb", "checks",
              "stuck", "odd ios"}
  /\ left \in 0..Disturbances

\* NPLL goes on to I_InitCommon only with every right open and its own MINI
\* running and initialised, wherever it started from; the checks at the end
\* look at two of the rights only.
ReadyIsSound ==
  state = "common" => /\ Rights \subseteq hw /\ arm = "ours"
                      /\ {"MINI_INIT", "CUR_MINI"} \subseteq flags

\* "impossible to reach due to the above guards": __builtin_unreachable.
UnreachableStays == state # "unreachable"

\* IOS is spoken to only while it runs, unless MINI takes longer to reload
\* than the half second it is given.
IosOnlyOnIos == "ios on mini" \in seen => "slow" \in seen

\* What the start keeps to until it ends.
StartSafe == TypeOK /\ ReadyIsSound /\ UnreachableStays /\ IosOnlyOnIos

\* A panic has its own cause outside: the rights were refused; IOS does not
\* answer, or is gone because MINI was slow; MINI was not there because its
\* launch was lost, it was still being loaded at the last look, or testMEM2
\* had overwritten the address it had published; the launch failed each time;
\* the controllers, this IOS, or a MINI that takes no more requests.
PanicHasCause ==
  state = "panic" =>
    CASE why = "rights"  -> "refused" \in seen
      [] why = "no ios"  -> seen \cap {"slow", "silent"} # {}
      [] why = "no mini" -> seen \cap {"launch lost", "loading", "overwritten"} # {}
      [] why = "launch"  -> launches = 0
      [] why \in {"usb", "stuck", "odd ios"} -> left < Disturbances
      [] OTHER           -> FALSE

\* The start ends, ready or with a panic.
Settles == <>(state \in {"common", "panic"})

\* "we can only access this after we've gained some perms in AHBPROT", and "do
\* more general hw unrestriction now that we have perms" (H_InitWii).
UnrestrictHasRights == "closed" \notin seen
=============================================================================
