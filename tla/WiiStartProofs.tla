--------------------------- MODULE WiiStartProofs ---------------------------
(***************************************************************************)
(* The start on a Wii ends well, or with a panic, from every beginning and *)
(* whatever the coprocessor does, and the panic has its cause: StartSafe   *)
(* and PanicHasCause for any bounds.                                       *)
(***************************************************************************)
EXTENDS WiiStart, TLAPS

Jump == \E k \in DOMAIN inq : inq[k] = "jump"
Slow == "slow" \in seen
OnMini == "ios on mini" \in seen

\* Who runs, by what H_InitWii remembers of its start.
Origin ==
  /\ "ORIG_MINI" \in flags => arm # "ios" /\ "RAN_ABN" \notin flags /\ "IOS_INIT" \notin flags
  /\ "ORIG_MINI" \in flags /\ "MINI_RELOADED" \notin flags => arm = "original"
  /\ "ORIG_MINI" \notin flags =>
       /\ "MINI_RELOADED" \notin flags /\ arm # "original"
       /\ "RAN_ABN" \notin flags => arm = "ios"

\* A header is one of the MINI that runs, and of no MINI that is to be left.
Header == word = "header" \/ saved = "header" \/ "CUR_MINI" \in flags
Published ==
  Header => arm = "ours" \/ (arm = "original" /\ "MINI_RELOADED" \notin flags)

\* MINI is reloaded once, and by the one that was there.
Reload == Jump => "MINI_RELOADED" \in flags /\ arm = "original"

\* What H_InitWii knows where.
Places ==
  /\ \A right \in Rights : right \in flags => right \in hw
  /\ saved # "none" => saved # "deadbeef" /\ state \in {"reading", "testing", "closed"}
  /\ word = "deadbeef" => state = "testing"
  /\ state = "testing" => "MEM2" \in hw
  /\ state = "testing" /\ saved = "header" => word = "deadbeef"
  /\ state = "reading" /\ saved # "closed" => "MEM2" \in hw
  /\ state = "closed" => saved = "closed"
  /\ state \in {"analyze_mini", "mini_init", "mini_reload", "mini_priv_esc", "mini_priv_esc2",
                "sanitize", "ready"} =>
       "CUR_MINI" \in flags
  /\ state = "mini_reload" => "ORIG_MINI" \in flags /\ "MINI_RELOADED" \notin flags
  /\ state \in {"sanitize", "ready"} =>
       /\ Rights \subseteq flags /\ "MINI_INIT" \in flags
       /\ "ORIG_MINI" \in flags => "MINI_RELOADED" \in flags
  /\ state \in {"ios_init", "ios_priv_esc", "ios_armbootnow"} => "RAN_ABN" \notin flags

\* armbootnow is called as long as it may try.
Tried == launches = 0 => state = "panic"

\* Started from a MINI, H_InitWii does not take it for IOS, unless MINI is slow.
NoIos ==
  "ORIG_MINI" \in flags /\ ~Slow =>
    /\ "MEM2" \in hw
    /\ state \notin {"analyze_ios", "ios_init", "ios_priv_esc", "ios_armbootnow", "closed"}
    /\ state \in {"reading", "testing"} => saved = "header"
    /\ state \notin {"testing", "settle"} => word = "header" /\ ~Jump
    /\ state = "settle" /\ arm = "ours" => word = "header"

StartInv ==
  /\ TypeOK /\ ReadyIsSound /\ UnreachableStays /\ IosOnlyOnIos
  /\ Origin /\ Published /\ Reload /\ Places /\ Tried /\ NoIos
-----------------------------------------------------------------------------
(* Types.                                                                   *)

Counters ==
  /\ waits \in 0..WaitMiniRetries /\ launches \in 0..LaunchRetries
  /\ request \in 1..3 /\ looks \in 1..RecvAttempts /\ left \in 0..Disturbances
Queues == inq \in Seq(Messages) /\ Len(inq) <= InQueue /\ outq \in Seq(Messages)
Control ==
  /\ state \in States /\ flags \subseteq Flags /\ hw \subseteq Rights
  /\ arm \in {"ios", "original", "loading", "ours"}
  /\ {word, saved} \subseteq {"none", "header", "deadbeef", "closed"}
  /\ why \in {"none", "rights", "no ios", "no mini", "launch", "header", "usb", "checks",
              "stuck", "odd ios"}

LEMMA TypeParts == TypeOK <=> Counters /\ Queues /\ Control
BY DEF TypeOK, Counters, Queues, Control

LEMMA MessagesAre ==
  /\ Messages = {"ping", "slwping", "getvers", "jump", "AHBPROT", "SRNPROT"}
  /\ \A k \in 1..3 : Requests[k] \in {"ping", "slwping", "getvers"}
BY DEF Messages, Requests

LEMMA InitType == Init => TypeOK
<1> SUFFICES ASSUME Init PROVE Counters /\ Queues /\ Control
  BY TypeParts
<1>1. Counters
  BY WiiStartAssumption DEF Init, Counters
<1>2. Queues
  BY WiiStartAssumption DEF Init, Queues
<1>3. Control
  BY DEF Init, Control, States, Flags, Rights
<1>4. QED
  BY <1>1, <1>2, <1>3

LEMMA NextCounters ==
  ASSUME Counters, Tried, Next
  PROVE  Counters'
<1> USE WiiStartAssumption DEF Counters, Tried, Disturb, Panic, Goto, out, ppc, tries, posted
<1>1. CASE Analyze
  BY <1>1 DEF Analyze
<1>2. CASE Written
  BY <1>2 DEF Written
<1>3. CASE Tested
  BY <1>3 DEF Tested, Result
<1>4. CASE AnalyzeIos
  <2>1. /\ waits' = waits \/ (waits # 0 /\ waits' = waits - 1)
        /\ UNCHANGED <<launches, request, looks, left>>
    BY <1>4 DEF AnalyzeIos
  <2>2. QED
    BY <2>1
<1>5. CASE AnalyzeMini
  BY <1>5 DEF AnalyzeMini
<1>6. CASE IosInit
  <2>1. /\ left' = left \/ (left > 0 /\ left' = left - 1)
        /\ UNCHANGED <<waits, launches, request, looks>>
    BY <1>6 DEF IosInit
  <2>2. QED
    BY <2>1
<1>7. CASE IosPrivEsc
  <2>1. /\ left' = left \/ (left > 0 /\ left' = left - 1)
        /\ UNCHANGED <<waits, launches, request, looks>>
    BY <1>7 DEF IosPrivEsc
  <2>2. QED
    BY <2>1
<1>8. CASE Armbootnow
  <2>1. /\ \/ UNCHANGED <<launches, left>>
           \/ UNCHANGED launches /\ left > 0 /\ left' = left - 1
           \/ launches # 0 /\ launches' = launches - 1 /\ left > 0 /\ left' = left - 1
        /\ UNCHANGED <<waits, request, looks>>
    BY <1>8 DEF Armbootnow
  <2>2. QED
    BY <2>1
<1>9. CASE HwUnrestrict
  BY <1>9 DEF HwUnrestrict
<1>10. CASE MiniInit
  BY <1>10 DEF MiniInit
<1>11. CASE Post
  BY <1>11 DEF Post, Room, Stuck
<1>12. CASE Recv
  <2>1. /\ \/ UNCHANGED <<request, looks>>
           \/ request # 3 /\ request' = request + 1 /\ looks' = RecvAttempts
           \/ looks # 1 /\ looks' = looks - 1 /\ UNCHANGED request
        /\ UNCHANGED <<waits, launches, left>>
    BY <1>12 DEF Recv
  <2>2. QED
    BY <2>1
<1>13. CASE RecvTimesOut
  BY <1>13 DEF RecvTimesOut
<1>14. CASE MiniReload
  BY <1>14 DEF MiniReload, Room, Stuck
<1>15. CASE Settle
  BY <1>15 DEF Settle
<1>16. CASE MiniPrivEsc
  BY <1>16 DEF MiniPrivEsc, Room, Stuck
<1>17. CASE Sanitize
  BY <1>17 DEF Sanitize
<1>18. CASE Ready
  BY <1>18 DEF Ready
<1>19. CASE Serves
  BY <1>19 DEF Serves
<1>20. CASE Starts
  BY <1>20 DEF Starts
<1>21. CASE Ended
  BY <1>21 DEF Ended, vars
<1>22. QED
  BY <1>1, <1>2, <1>3, <1>4, <1>5, <1>6, <1>7, <1>8, <1>9, <1>10, <1>11, <1>12, <1>13,
     <1>14, <1>15, <1>16, <1>17, <1>18, <1>19, <1>20, <1>21 DEF Next, PpcStep

LEMMA NextQueues ==
  ASSUME Queues, request \in 1..3, Next
  PROVE  Queues'
<1> USE WiiStartAssumption, MessagesAre DEF Queues, out, ppc
<1>1. CASE Analyze
  BY <1>1 DEF Analyze
<1>2. CASE Written
  BY <1>2 DEF Written
<1>3. CASE Tested
  BY <1>3 DEF Tested, Result
<1>4. CASE AnalyzeIos
  BY <1>4 DEF AnalyzeIos
<1>5. CASE AnalyzeMini
  BY <1>5 DEF AnalyzeMini
<1>6. CASE IosInit
  BY <1>6 DEF IosInit
<1>7. CASE IosPrivEsc
  BY <1>7 DEF IosPrivEsc
<1>8. CASE Armbootnow
  BY <1>8 DEF Armbootnow
<1>9. CASE HwUnrestrict
  BY <1>9 DEF HwUnrestrict
<1>10. CASE MiniInit
  BY <1>10 DEF MiniInit
<1>11. CASE Post
  BY <1>11 DEF Post, Room, Stuck
<1>12. CASE Recv
  BY <1>12 DEF Recv
<1>13. CASE RecvTimesOut
  BY <1>13 DEF RecvTimesOut
<1>14. CASE MiniReload
  BY <1>14 DEF MiniReload, Room, Stuck
<1>15. CASE Settle
  BY <1>15 DEF Settle
<1>16. CASE MiniPrivEsc
  <2>1. UNCHANGED outq
    BY <1>16 DEF MiniPrivEsc
  <2>2. \/ UNCHANGED inq
        \/ Len(inq) < InQueue /\ inq' = Append(inq, "AHBPROT")
        \/ Len(inq) < InQueue /\ inq' = Append(inq, "SRNPROT")
    BY <1>16 DEF MiniPrivEsc, Room, Stuck
  <2>3. /\ inq \in Seq(Messages) /\ Len(inq) \in Nat /\ InQueue \in Nat
        /\ \A m \in Messages : Append(inq, m) \in Seq(Messages) /\ Len(Append(inq, m)) = Len(inq) + 1
    OBVIOUS
  <2>4. "AHBPROT" \in Messages /\ "SRNPROT" \in Messages
    BY MessagesAre
  <2>5. Len(inq) < InQueue => Len(inq) + 1 <= InQueue
    BY <2>3
  <2>6. Len(inq) <= InQueue /\ outq \in Seq(Messages)
    OBVIOUS
  <2>7. QED
    BY ONLY <2>1, <2>2, <2>3, <2>4, <2>5, <2>6 DEF Queues
<1>17. CASE Sanitize
  BY <1>17 DEF Sanitize
<1>18. CASE Ready
  BY <1>18 DEF Ready
<1>19. CASE Serves
  BY <1>19 DEF Serves
<1>20. CASE Starts
  BY <1>20 DEF Starts
<1>21. CASE Ended
  BY <1>21 DEF Ended, vars
<1>22. QED
  BY <1>1, <1>2, <1>3, <1>4, <1>5, <1>6, <1>7, <1>8, <1>9, <1>10, <1>11, <1>12, <1>13,
     <1>14, <1>15, <1>16, <1>17, <1>18, <1>19, <1>20, <1>21 DEF Next, PpcStep

LEMMA NextControl ==
  ASSUME Control, Next
  PROVE  Control'
<1> USE DEF Control, States, Flags, Rights, Goto, Panic, Set, Decided, Perms, out, ppc
<1>1. CASE Analyze
  BY <1>1 DEF Analyze
<1>2. CASE Written
  BY <1>2 DEF Written
<1>3. CASE Tested
  BY <1>3 DEF Tested, Result
<1>4. CASE AnalyzeIos
  BY <1>4 DEF AnalyzeIos
<1>5. CASE AnalyzeMini
  BY <1>5 DEF AnalyzeMini
<1>6. CASE IosInit
  BY <1>6 DEF IosInit
<1>7. CASE IosPrivEsc
  BY <1>7 DEF IosPrivEsc
<1>8. CASE Armbootnow
  BY <1>8 DEF Armbootnow
<1>9. CASE HwUnrestrict
  BY <1>9 DEF HwUnrestrict
<1>10. CASE MiniInit
  BY <1>10 DEF MiniInit
<1>11. CASE Post
  BY <1>11 DEF Post, Room, Stuck
<1>12. CASE Recv
  BY <1>12 DEF Recv
<1>13. CASE RecvTimesOut
  BY <1>13 DEF RecvTimesOut
<1>14. CASE MiniReload
  BY <1>14 DEF MiniReload, Room, Stuck
<1>15. CASE Settle
  BY <1>15 DEF Settle
<1>16. CASE MiniPrivEsc
  BY <1>16 DEF MiniPrivEsc, Room, Stuck
<1>17. CASE Sanitize
  BY <1>17 DEF Sanitize
<1>18. CASE Ready
  BY <1>18 DEF Ready
<1>19. CASE Serves
  BY <1>19 DEF Serves
<1>20. CASE Starts
  BY <1>20 DEF Starts
<1>21. CASE Ended
  BY <1>21 DEF Ended, vars
<1>22. QED
  BY <1>1, <1>2, <1>3, <1>4, <1>5, <1>6, <1>7, <1>8, <1>9, <1>10, <1>11, <1>12, <1>13,
     <1>14, <1>15, <1>16, <1>17, <1>18, <1>19, <1>20, <1>21 DEF Next, PpcStep

-----------------------------------------------------------------------------
(* The other parts.                                                         *)

LEMMA JumpServed ==
  ASSUME Queues, Serves, Head(inq) = "jump"
  PROVE  Jump /\ ~Jump'
BY DEF Queues, Serves, Jump

\* What Analyze does to the flags.
LEMMA AnalyzeFlags ==
  ASSUME Control, Analyze
  PROVE  /\ \A f \in {"ORIG_MINI", "RAN_ABN", "MINI_RELOADED", "IOS_INIT", "MINI_INIT", "RAN_DEVSHA"} :
              f \in flags' <=> f \in flags
         /\ "CUR_MINI" \notin flags'
         /\ \A right \in Rights : right \in flags' => right \in hw
         /\ "AHBPROT" \in flags' <=> "AHBPROT" \in hw
         /\ state = "analyze" /\ state' = "reading"
         /\ saved' = IF "MEM2" \in hw THEN word ELSE "closed"
         /\ UNCHANGED <<word, hw, arm, inq, launches, why, seen, left>>
<1>1. flags' = (flags \ (Perms \cup {"CUR_MINI"})) \cup (hw \ {"MEM2"})
  BY DEF Analyze
<1>2. /\ \A f \in {"ORIG_MINI", "RAN_ABN", "MINI_RELOADED", "IOS_INIT", "MINI_INIT", "RAN_DEVSHA"} :
           f \in flags' <=> f \in flags
      /\ "CUR_MINI" \notin flags'
      /\ \A right \in Rights : right \in flags' => right \in hw
      /\ "AHBPROT" \in flags' <=> "AHBPROT" \in hw
  BY <1>1 DEF Control, Perms, Rights
<1>3. QED
  BY <1>2 DEF Analyze, Goto, tries, out

\* What testMEM2 does.
LEMMA TestedDoes ==
  ASSUME Control, Places, Tested
  PROVE  /\ state \in {"testing", "closed"} /\ saved' = "none"
         /\ word' = IF "MEM2" \in hw THEN saved ELSE word
         /\ flags \subseteq flags'
         /\ \A f \in flags' :
              \/ f \in flags
              \/ state = "testing" /\ (f = "MEM2" \/ (f = "CUR_MINI" /\ saved = "header"))
         /\ IF "CUR_MINI" \in flags' THEN state' = "analyze_mini" ELSE state' = "analyze_ios"
         /\ state = "testing" /\ saved = "header" => "CUR_MINI" \in flags'
         /\ word = "header" /\ saved # "header" /\ "MEM2" \in hw => "overwritten" \in seen'
         /\ arm = "loading" => "loading" \in seen'
         /\ UNCHANGED <<hw, arm, inq, launches, why, left>>
<1>0. PICK open \in IF state = "closed" THEN {FALSE}
                    ELSE IF word = "deadbeef" /\ saved # "closed" THEN {TRUE} ELSE BOOLEAN :
        Decided(flags \cup (IF open THEN {"MEM2"} ELSE {})
                      \cup (IF open /\ saved = "header" THEN {"CUR_MINI"} ELSE {}))
  BY DEF Tested, Result
<1>1. /\ open \in BOOLEAN
      /\ open => state = "testing"
      /\ state = "testing" /\ word = "deadbeef" /\ saved # "closed" => open
      /\ Decided(flags \cup (IF open THEN {"MEM2"} ELSE {})
                       \cup (IF open /\ saved = "header" THEN {"CUR_MINI"} ELSE {}))
  <2>1. state \in {"testing", "closed"}
    BY DEF Tested, Result
  <2>2. CASE state = "closed"
    BY <1>0, <2>2
  <2>3. CASE state = "testing"
    BY <1>0, <2>3
  <2>4. QED
    BY <2>1, <2>2, <2>3
<1>2. word = "header" /\ saved # "header" /\ "MEM2" \in hw => "overwritten" \in seen'
  BY DEF Tested, Result, Lost
<1>3. arm = "loading" => "loading" \in seen'
  BY DEF Tested, Result, Looked
<1>4. IF "CUR_MINI" \in flags' THEN state' = "analyze_mini" ELSE state' = "analyze_ios"
  BY <1>1 DEF Decided, Goto
<1>5. /\ state \in {"testing", "closed"} /\ saved' = "none"
      /\ word' = IF "MEM2" \in hw THEN saved ELSE word
      /\ UNCHANGED <<hw, arm, inq, launches, why, left>>
  BY DEF Tested, Result, tries
<1>6. state = "testing" /\ saved = "header" => "CUR_MINI" \in flags'
  BY <1>1 DEF Decided, Places
<1>7. QED
  BY <1>1, <1>2, <1>3, <1>4, <1>5, <1>6 DEF Decided

LEMMA WrittenDoes ==
  ASSUME Written
  PROVE  /\ state = "reading"
         /\ IF "MEM2" \in hw THEN word' = "deadbeef" /\ state' = "testing"
            ELSE UNCHANGED word /\ state' = "closed"
         /\ word = "header" /\ saved # "header" /\ "MEM2" \in hw => "overwritten" \in seen'
         /\ UNCHANGED <<flags, saved, hw, arm, inq, launches, why, left>>
BY DEF Written, Lost, Goto, tries

\* What the two calls into IOS do.
LEMMA IosInitDoes ==
  ASSUME IosInit
  PROVE  /\ state = "ios_init" /\ (state' = "analyze_ios" \/ state' = "panic")
         /\ flags' = flags \/ (arm = "ios" /\ flags' = flags \cup {"IOS_INIT"})
         /\ UNCHANGED <<hw, arm, word, saved, inq, launches>>
         /\ OnMini' => OnMini \/ arm # "ios"
<1>1. arm # "ios" \/ seen' = seen \/ seen' = seen \cup {"silent"}
  BY DEF IosInit, OnIos, Note
<1>2. OnMini' => OnMini \/ arm # "ios"
  <2>1. CASE arm # "ios"
    BY <2>1
  <2>2. CASE seen' = seen
    BY <2>2 DEF OnMini
  <2>3. CASE seen' = seen \cup {"silent"}
    BY <2>3 DEF OnMini
  <2>4. QED
    BY <1>1, <2>1, <2>2, <2>3
<1>3. QED
  BY <1>2 DEF IosInit, OnIos, Set, Goto, Panic, out, tries

LEMMA ArmbootnowDoes ==
  ASSUME Armbootnow
  PROVE  /\ state = "ios_armbootnow"
         /\ hw' = hw \cup {"SRNPROT"}
         /\ \/ arm # "ios" /\ state' = "panic" /\ UNCHANGED <<flags, arm, launches>>
            \/ /\ arm = "ios" /\ state' = "analyze" /\ flags' = flags \cup {"RAN_ABN"}
               /\ arm' \in {"loading", "ios"} /\ UNCHANGED launches
            \/ arm = "ios" /\ state' = "panic" /\ UNCHANGED <<flags, arm, launches>>
            \/ /\ arm = "ios" /\ launches' = launches - 1 /\ UNCHANGED <<flags, arm>>
               /\ state' \in (IF launches = 1 THEN {"panic"} ELSE {"panic", "ios_armbootnow"})
         /\ UNCHANGED <<word, saved, inq>>
         /\ OnMini' => OnMini \/ arm # "ios"
<1>1. arm # "ios" \/ seen' = seen \/ seen' = seen \cup {"launch lost"} \/ seen' = seen \cup {"silent"}
  BY DEF Armbootnow, OnIos, Note
<1>2. OnMini' => OnMini \/ arm # "ios"
  <2>1. CASE arm # "ios"
    BY <2>1
  <2>2. CASE seen' = seen
    BY <2>2 DEF OnMini
  <2>3. CASE seen' = seen \cup {"launch lost"}
    BY <2>3 DEF OnMini
  <2>4. CASE seen' = seen \cup {"silent"}
    BY <2>4 DEF OnMini
  <2>5. QED
    BY <1>1, <2>1, <2>2, <2>3, <2>4
<1>3. QED
  BY <1>2 DEF Armbootnow, OnIos, Set, Goto, Panic, Disturb

LEMMA IosPrivEscDoes ==
  ASSUME IosPrivEsc
  PROVE  OnMini' <=> OnMini
BY DEF IosPrivEsc, OnMini, Note

LEMMA SlowStays ==
  ASSUME Slow, Next
  PROVE  Slow'
<1> USE DEF Slow, Note, Looked, out, ppc
<1>1. CASE Analyze
  BY <1>1 DEF Analyze
<1>2. CASE Written
  BY <1>2 DEF Written, Lost
<1>3. CASE Tested
  BY <1>3 DEF Tested, Result
<1>4. CASE AnalyzeIos
  BY <1>4 DEF AnalyzeIos
<1>5. CASE AnalyzeMini
  BY <1>5 DEF AnalyzeMini
<1>6. CASE IosInit
  BY <1>6 DEF IosInit
<1>7. CASE IosPrivEsc
  BY <1>7 DEF IosPrivEsc
<1>8. CASE Armbootnow
  BY <1>8 DEF Armbootnow
<1>9. CASE HwUnrestrict
  BY <1>9 DEF HwUnrestrict
<1>10. CASE MiniInit
  BY <1>10 DEF MiniInit
<1>11. CASE Post
  BY <1>11 DEF Post, Room, Stuck
<1>12. CASE Recv
  BY <1>12 DEF Recv
<1>13. CASE RecvTimesOut
  BY <1>13 DEF RecvTimesOut
<1>14. CASE MiniReload
  BY <1>14 DEF MiniReload, Room, Stuck
<1>15. CASE Settle
  BY <1>15 DEF Settle
<1>16. CASE MiniPrivEsc
  BY <1>16 DEF MiniPrivEsc, Room, Stuck
<1>17. CASE Sanitize
  BY <1>17 DEF Sanitize
<1>18. CASE Ready
  BY <1>18 DEF Ready
<1>19. CASE Serves
  BY <1>19 DEF Serves
<1>20. CASE Starts
  BY <1>20 DEF Starts
<1>21. CASE Ended
  BY <1>21 DEF Ended, vars
<1>22. QED
  BY <1>1, <1>2, <1>3, <1>4, <1>5, <1>6, <1>7, <1>8, <1>9, <1>10, <1>11, <1>12, <1>13,
     <1>14, <1>15, <1>16, <1>17, <1>18, <1>19, <1>20, <1>21 DEF Next, PpcStep

LEMMA JumpPosted ==
  ASSUME Queues, request \in 1..3, Next
  PROVE  Jump' => Jump \/ MiniReload
<1> USE DEF Queues, Jump, out, ppc
<1>1. CASE Analyze
  BY <1>1 DEF Analyze
<1>2. CASE Written
  BY <1>2 DEF Written, Lost
<1>3. CASE Tested
  BY <1>3 DEF Tested, Result
<1>4. CASE AnalyzeIos
  BY <1>4 DEF AnalyzeIos
<1>5. CASE AnalyzeMini
  BY <1>5 DEF AnalyzeMini
<1>6. CASE IosInit
  BY <1>6 DEF IosInit
<1>7. CASE IosPrivEsc
  BY <1>7 DEF IosPrivEsc
<1>8. CASE Armbootnow
  BY <1>8 DEF Armbootnow
<1>9. CASE HwUnrestrict
  BY <1>9 DEF HwUnrestrict
<1>10. CASE MiniInit
  BY <1>10 DEF MiniInit
<1>11. CASE Post
  <2>1. inq \in Seq(Messages) /\ Requests[request] # "jump"
        /\ (UNCHANGED inq \/ inq' = Append(inq, Requests[request]))
    BY <1>11, MessagesAre DEF Post, Queues
  <2>2. QED
    BY <2>1 DEF Jump
<1>12. CASE Recv
  BY <1>12 DEF Recv
<1>13. CASE RecvTimesOut
  BY <1>13 DEF RecvTimesOut
<1>14. CASE MiniReload
  BY <1>14 DEF MiniReload, Room, Stuck
<1>15. CASE Settle
  BY <1>15 DEF Settle
<1>16. CASE MiniPrivEsc
  BY <1>16 DEF MiniPrivEsc, Room, Stuck
<1>17. CASE Sanitize
  BY <1>17 DEF Sanitize
<1>18. CASE Ready
  BY <1>18 DEF Ready
<1>19. CASE Serves
  BY <1>19 DEF Serves
<1>20. CASE Starts
  BY <1>20 DEF Starts
<1>21. CASE Ended
  BY <1>21 DEF Ended, vars
<1>22. QED
  BY <1>1, <1>2, <1>3, <1>4, <1>5, <1>6, <1>7, <1>8, <1>9, <1>10, <1>11, <1>12, <1>13,
     <1>14, <1>15, <1>16, <1>17, <1>18, <1>19, <1>20, <1>21 DEF Next, PpcStep

LEMMA NextOrigin ==
  ASSUME Counters, Queues, Control, Origin, Reload, Places, Next
  PROVE  Origin'
<1> USE DEF Goto, Panic, Set, Decided, OnIos, Perms, Rights, Disturb, Note, out, ppc, Origin, Reload, Places
<1>1. CASE Analyze
  BY <1>1, AnalyzeFlags DEF Rights, Origin, Reload, Places
<1>2. CASE Written
  BY <1>2 DEF Written, Lost
<1>3. CASE Tested
  BY <1>3 DEF Tested, Result
<1>4. CASE AnalyzeIos
  BY <1>4 DEF AnalyzeIos
<1>5. CASE AnalyzeMini
  BY <1>5 DEF AnalyzeMini
<1>6. CASE IosInit
  BY <1>6, IosInitDoes DEF Origin
<1>7. CASE IosPrivEsc
  BY <1>7 DEF IosPrivEsc
<1>8. CASE Armbootnow
  BY <1>8, ArmbootnowDoes DEF Origin
<1>9. CASE HwUnrestrict
  BY <1>9 DEF HwUnrestrict
<1>10. CASE MiniInit
  BY <1>10 DEF MiniInit
<1>11. CASE Post
  BY <1>11 DEF Post, Room, Stuck
<1>12. CASE Recv
  BY <1>12 DEF Recv
<1>13. CASE RecvTimesOut
  BY <1>13 DEF RecvTimesOut
<1>14. CASE MiniReload
  BY <1>14 DEF MiniReload, Room, Stuck
<1>15. CASE Settle
  BY <1>15 DEF Settle
<1>16. CASE MiniPrivEsc
  BY <1>16 DEF MiniPrivEsc, Room, Stuck
<1>17. CASE Sanitize
  BY <1>17 DEF Sanitize
<1>18. CASE Ready
  BY <1>18 DEF Ready
<1>19. CASE Serves
  BY <1>19, JumpServed DEF Serves, ppc, Rights, Origin, Reload, Places
<1>20. CASE Starts
  BY <1>20 DEF Starts
<1>21. CASE Ended
  BY <1>21 DEF Ended, vars
<1>22. QED
  BY <1>1, <1>2, <1>3, <1>4, <1>5, <1>6, <1>7, <1>8, <1>9, <1>10, <1>11, <1>12, <1>13,
     <1>14, <1>15, <1>16, <1>17, <1>18, <1>19, <1>20, <1>21 DEF Next, PpcStep

LEMMA NextPublished ==
  ASSUME Counters, Queues, Control, Origin, Published, Reload, Places, Next
  PROVE  Published'
<1> USE DEF Goto, Panic, Set, Decided, OnIos, Perms, Rights, Disturb, Note, out, ppc, Origin, Published, Header, Reload, Places
<1>1. CASE Analyze
  BY <1>1, AnalyzeFlags DEF Rights, Origin, Published, Header, Reload, Places
<1>2. CASE Written
  BY <1>2 DEF Written, Lost
<1>3. CASE Tested
  BY <1>3 DEF Tested, Result
<1>4. CASE AnalyzeIos
  BY <1>4 DEF AnalyzeIos
<1>5. CASE AnalyzeMini
  BY <1>5 DEF AnalyzeMini
<1>6. CASE IosInit
  BY <1>6, IosInitDoes DEF Origin, Published, Header
<1>7. CASE IosPrivEsc
  BY <1>7 DEF IosPrivEsc
<1>8. CASE Armbootnow
  BY <1>8, ArmbootnowDoes DEF Origin, Published, Header
<1>9. CASE HwUnrestrict
  BY <1>9 DEF HwUnrestrict
<1>10. CASE MiniInit
  BY <1>10 DEF MiniInit
<1>11. CASE Post
  BY <1>11 DEF Post, Room, Stuck
<1>12. CASE Recv
  BY <1>12 DEF Recv
<1>13. CASE RecvTimesOut
  BY <1>13 DEF RecvTimesOut
<1>14. CASE MiniReload
  BY <1>14 DEF MiniReload, Room, Stuck
<1>15. CASE Settle
  BY <1>15 DEF Settle
<1>16. CASE MiniPrivEsc
  BY <1>16 DEF MiniPrivEsc, Room, Stuck
<1>17. CASE Sanitize
  BY <1>17 DEF Sanitize
<1>18. CASE Ready
  BY <1>18 DEF Ready
<1>19. CASE Serves
  BY <1>19, JumpServed DEF Serves, ppc, Rights, Origin, Published, Header, Reload, Places
<1>20. CASE Starts
  BY <1>20 DEF Starts
<1>21. CASE Ended
  BY <1>21 DEF Ended, vars
<1>22. QED
  BY <1>1, <1>2, <1>3, <1>4, <1>5, <1>6, <1>7, <1>8, <1>9, <1>10, <1>11, <1>12, <1>13,
     <1>14, <1>15, <1>16, <1>17, <1>18, <1>19, <1>20, <1>21 DEF Next, PpcStep

LEMMA NextReload ==
  ASSUME Counters, Queues, Control, Origin, Published, Reload, Places, Next
  PROVE  Reload'
<1> USE DEF Goto, Panic, Set, Decided, OnIos, Perms, Rights, Disturb, Note, out, ppc, Origin, Published, Header, Reload, Places
<1>0. Jump' => Jump \/ (state = "mini_reload" /\ state' = "settle")
  BY JumpPosted DEF Counters, MiniReload, Goto
<1> USE <1>0
<1>1. CASE Analyze
  BY <1>1, AnalyzeFlags DEF Rights, Origin, Published, Header, Reload, Places
<1>2. CASE Written
  BY <1>2 DEF Written, Lost
<1>3. CASE Tested
  BY <1>3 DEF Tested, Result
<1>4. CASE AnalyzeIos
  BY <1>4 DEF AnalyzeIos
<1>5. CASE AnalyzeMini
  BY <1>5 DEF AnalyzeMini
<1>6. CASE IosInit
  BY <1>6 DEF IosInit
<1>7. CASE IosPrivEsc
  BY <1>7 DEF IosPrivEsc
<1>8. CASE Armbootnow
  BY <1>8 DEF Armbootnow
<1>9. CASE HwUnrestrict
  BY <1>9 DEF HwUnrestrict
<1>10. CASE MiniInit
  BY <1>10 DEF MiniInit
<1>11. CASE Post
  BY <1>11 DEF Post, Room, Stuck
<1>12. CASE Recv
  BY <1>12 DEF Recv
<1>13. CASE RecvTimesOut
  BY <1>13 DEF RecvTimesOut
<1>14. CASE MiniReload
  BY <1>14 DEF MiniReload, Room, Stuck
<1>15. CASE Settle
  BY <1>15 DEF Settle
<1>16. CASE MiniPrivEsc
  BY <1>16 DEF MiniPrivEsc, Room, Stuck
<1>17. CASE Sanitize
  BY <1>17 DEF Sanitize
<1>18. CASE Ready
  BY <1>18 DEF Ready
<1>19. CASE Serves
  BY <1>19, JumpServed DEF Serves, ppc, Rights, Origin, Published, Header, Reload, Places
<1>20. CASE Starts
  BY <1>20 DEF Starts
<1>21. CASE Ended
  BY <1>21 DEF Ended, vars
<1>22. QED
  BY <1>1, <1>2, <1>3, <1>4, <1>5, <1>6, <1>7, <1>8, <1>9, <1>10, <1>11, <1>12, <1>13,
     <1>14, <1>15, <1>16, <1>17, <1>18, <1>19, <1>20, <1>21 DEF Next, PpcStep

LEMMA NextPlaces ==
  ASSUME Counters, Queues, Control, Origin, Published, Places, Next
  PROVE  Places'
<1> USE DEF Goto, Panic, Set, Decided, OnIos, Perms, Rights, Disturb, Note, out, ppc, Places, Origin, Published, Header
<1>1. CASE Analyze
  BY <1>1, AnalyzeFlags DEF Rights, Control, Places
<1>2. CASE Written
  BY <1>2 DEF Written, Lost
<1>3. CASE Tested
  BY <1>3 DEF Tested, Result
<1>4. CASE AnalyzeIos
  BY <1>4 DEF AnalyzeIos
<1>5. CASE AnalyzeMini
  BY <1>5 DEF AnalyzeMini
<1>6. CASE IosInit
  BY <1>6 DEF IosInit
<1>7. CASE IosPrivEsc
  BY <1>7 DEF IosPrivEsc
<1>8. CASE Armbootnow
  BY <1>8 DEF Armbootnow
<1>9. CASE HwUnrestrict
  BY <1>9 DEF HwUnrestrict
<1>10. CASE MiniInit
  BY <1>10 DEF MiniInit
<1>11. CASE Post
  BY <1>11 DEF Post, Room, Stuck
<1>12. CASE Recv
  BY <1>12 DEF Recv
<1>13. CASE RecvTimesOut
  BY <1>13 DEF RecvTimesOut
<1>14. CASE MiniReload
  BY <1>14 DEF MiniReload, Room, Stuck
<1>15. CASE Settle
  BY <1>15 DEF Settle
<1>16. CASE MiniPrivEsc
  BY <1>16 DEF MiniPrivEsc, Room, Stuck
<1>17. CASE Sanitize
  BY <1>17 DEF Sanitize
<1>18. CASE Ready
  BY <1>18 DEF Ready
<1>19. CASE Serves
  BY <1>19, JumpServed DEF Serves, ppc, Rights, Origin, Published, Header, Places
<1>20. CASE Starts
  BY <1>20 DEF Starts
<1>21. CASE Ended
  BY <1>21 DEF Ended, vars
<1>22. QED
  BY <1>1, <1>2, <1>3, <1>4, <1>5, <1>6, <1>7, <1>8, <1>9, <1>10, <1>11, <1>12, <1>13,
     <1>14, <1>15, <1>16, <1>17, <1>18, <1>19, <1>20, <1>21 DEF Next, PpcStep

LEMMA NextTried ==
  ASSUME Counters, Tried, Next
  PROVE  Tried'
<1> USE DEF Goto, Panic, out, ppc, tries, Tried, Counters
<1>1. CASE Analyze
  BY <1>1 DEF Analyze
<1>2. CASE Written
  BY <1>2 DEF Written, Lost
<1>3. CASE Tested
  BY <1>3 DEF Tested, Result
<1>4. CASE AnalyzeIos
  BY <1>4 DEF AnalyzeIos
<1>5. CASE AnalyzeMini
  BY <1>5 DEF AnalyzeMini
<1>6. CASE IosInit
  BY <1>6 DEF IosInit
<1>7. CASE IosPrivEsc
  BY <1>7 DEF IosPrivEsc
<1>8. CASE Armbootnow
  BY <1>8, ArmbootnowDoes DEF Tried, Counters
<1>9. CASE HwUnrestrict
  BY <1>9 DEF HwUnrestrict
<1>10. CASE MiniInit
  BY <1>10 DEF MiniInit
<1>11. CASE Post
  BY <1>11 DEF Post, Room, Stuck
<1>12. CASE Recv
  BY <1>12 DEF Recv
<1>13. CASE RecvTimesOut
  BY <1>13 DEF RecvTimesOut
<1>14. CASE MiniReload
  BY <1>14 DEF MiniReload, Room, Stuck
<1>15. CASE Settle
  BY <1>15 DEF Settle
<1>16. CASE MiniPrivEsc
  BY <1>16 DEF MiniPrivEsc, Room, Stuck
<1>17. CASE Sanitize
  BY <1>17 DEF Sanitize
<1>18. CASE Ready
  BY <1>18 DEF Ready
<1>19. CASE Serves
  BY <1>19 DEF Serves
<1>20. CASE Starts
  BY <1>20 DEF Starts
<1>21. CASE Ended
  BY <1>21 DEF Ended, vars
<1>22. QED
  BY <1>1, <1>2, <1>3, <1>4, <1>5, <1>6, <1>7, <1>8, <1>9, <1>10, <1>11, <1>12, <1>13,
     <1>14, <1>15, <1>16, <1>17, <1>18, <1>19, <1>20, <1>21 DEF Next, PpcStep

LEMMA NextNoIos ==
  ASSUME Counters, Queues, Control, Origin, Published, Reload, Places, NoIos, Next
  PROVE  NoIos'
<1> USE SlowStays DEF Goto, Panic, Set, Decided, OnIos, Perms, Rights, Disturb, Note, out, ppc, Looked, Slow, Origin, Published, Header, Reload, Places, NoIos
<1>0. Jump' => Jump \/ (state = "mini_reload" /\ state' = "settle")
  BY JumpPosted DEF Counters, MiniReload, Goto
<1> USE <1>0
<1>1. CASE Analyze
  BY <1>1, AnalyzeFlags DEF Rights, Origin, Published, Header, Reload, Places, NoIos
<1>2. CASE Written
  BY <1>2 DEF Written, Lost
<1>3. CASE Tested
  BY <1>3, TestedDoes, SlowStays DEF Places, NoIos, Rights
<1>4. CASE AnalyzeIos
  BY <1>4 DEF AnalyzeIos
<1>5. CASE AnalyzeMini
  BY <1>5 DEF AnalyzeMini
<1>6. CASE IosInit
  BY <1>6, IosInitDoes DEF Origin, NoIos
<1>7. CASE IosPrivEsc
  BY <1>7 DEF IosPrivEsc
<1>8. CASE Armbootnow
  BY <1>8, ArmbootnowDoes DEF Origin, NoIos
<1>9. CASE HwUnrestrict
  BY <1>9 DEF HwUnrestrict
<1>10. CASE MiniInit
  BY <1>10 DEF MiniInit
<1>11. CASE Post
  BY <1>11 DEF Post, Room, Stuck
<1>12. CASE Recv
  BY <1>12 DEF Recv
<1>13. CASE RecvTimesOut
  BY <1>13 DEF RecvTimesOut
<1>14. CASE MiniReload
  BY <1>14 DEF MiniReload
<1>15. CASE Settle
  BY <1>15 DEF Settle
<1>16. CASE MiniPrivEsc
  BY <1>16 DEF MiniPrivEsc, Room, Stuck
<1>17. CASE Sanitize
  BY <1>17 DEF Sanitize
<1>18. CASE Ready
  BY <1>18 DEF Ready
<1>19. CASE Serves
  BY <1>19, JumpServed, SlowStays DEF Serves, ppc, Rights, Origin, Published, Header, Reload, Places, NoIos, Slow
<1>20. CASE Starts
  BY <1>20 DEF Starts
<1>21. CASE Ended
  BY <1>21 DEF Ended, vars
<1>22. QED
  BY <1>1, <1>2, <1>3, <1>4, <1>5, <1>6, <1>7, <1>8, <1>9, <1>10, <1>11, <1>12, <1>13,
     <1>14, <1>15, <1>16, <1>17, <1>18, <1>19, <1>20, <1>21 DEF Next, PpcStep

LEMMA NextReady ==
  ASSUME StartInv, Next
  PROVE  ReadyIsSound'
<1> USE DEF Goto, Panic, Set, Decided, OnIos, Perms, Rights, Disturb, Note, out, ppc, StartInv, Origin, Published, Header, Reload, Places, ReadyIsSound
<1>1. CASE Analyze
  BY <1>1 DEF Analyze
<1>2. CASE Written
  BY <1>2 DEF Written, Lost
<1>3. CASE Tested
  BY <1>3 DEF Tested, Result
<1>4. CASE AnalyzeIos
  BY <1>4 DEF AnalyzeIos
<1>5. CASE AnalyzeMini
  BY <1>5 DEF AnalyzeMini
<1>6. CASE IosInit
  BY <1>6 DEF IosInit
<1>7. CASE IosPrivEsc
  BY <1>7 DEF IosPrivEsc
<1>8. CASE Armbootnow
  BY <1>8 DEF Armbootnow
<1>9. CASE HwUnrestrict
  BY <1>9 DEF HwUnrestrict
<1>10. CASE MiniInit
  BY <1>10 DEF MiniInit
<1>11. CASE Post
  BY <1>11 DEF Post, Room, Stuck
<1>12. CASE Recv
  BY <1>12 DEF Recv
<1>13. CASE RecvTimesOut
  BY <1>13 DEF RecvTimesOut
<1>14. CASE MiniReload
  BY <1>14 DEF MiniReload, Room, Stuck
<1>15. CASE Settle
  BY <1>15 DEF Settle
<1>16. CASE MiniPrivEsc
  BY <1>16 DEF MiniPrivEsc, Room, Stuck
<1>17. CASE Sanitize
  BY <1>17 DEF Sanitize
<1>18. CASE Ready
  BY <1>18 DEF Ready
<1>19. CASE Serves
  BY <1>19, JumpServed, TypeParts DEF Serves, ppc, Rights, StartInv, Origin, Published, Header, Reload, Places, ReadyIsSound
<1>20. CASE Starts
  BY <1>20 DEF Starts
<1>21. CASE Ended
  BY <1>21 DEF Ended, vars
<1>22. QED
  BY <1>1, <1>2, <1>3, <1>4, <1>5, <1>6, <1>7, <1>8, <1>9, <1>10, <1>11, <1>12, <1>13,
     <1>14, <1>15, <1>16, <1>17, <1>18, <1>19, <1>20, <1>21 DEF Next, PpcStep

LEMMA NextUnreachable ==
  ASSUME StartInv, Next
  PROVE  UnreachableStays'
<1> USE DEF Goto, Panic, Set, Decided, OnIos, Perms, Rights, Disturb, Note, out, ppc, StartInv, Origin, Published, Header, Places, UnreachableStays
<1>1. CASE Analyze
  BY <1>1, AnalyzeFlags, TypeParts DEF StartInv, UnreachableStays
<1>2. CASE Written
  BY <1>2 DEF Written, Lost
<1>3. CASE Tested
  BY <1>3 DEF Tested, Result
<1>4. CASE AnalyzeIos
  BY <1>4 DEF AnalyzeIos
<1>5. CASE AnalyzeMini
  BY <1>5 DEF AnalyzeMini
<1>6. CASE IosInit
  BY <1>6 DEF IosInit
<1>7. CASE IosPrivEsc
  BY <1>7 DEF IosPrivEsc
<1>8. CASE Armbootnow
  BY <1>8 DEF Armbootnow
<1>9. CASE HwUnrestrict
  BY <1>9 DEF HwUnrestrict
<1>10. CASE MiniInit
  BY <1>10 DEF MiniInit
<1>11. CASE Post
  BY <1>11 DEF Post, Room, Stuck
<1>12. CASE Recv
  BY <1>12 DEF Recv
<1>13. CASE RecvTimesOut
  BY <1>13 DEF RecvTimesOut
<1>14. CASE MiniReload
  BY <1>14 DEF MiniReload, Room, Stuck
<1>15. CASE Settle
  BY <1>15 DEF Settle
<1>16. CASE MiniPrivEsc
  BY <1>16 DEF MiniPrivEsc, Room, Stuck
<1>17. CASE Sanitize
  BY <1>17 DEF Sanitize
<1>18. CASE Ready
  BY <1>18 DEF Ready
<1>19. CASE Serves
  BY <1>19 DEF Serves
<1>20. CASE Starts
  BY <1>20 DEF Starts
<1>21. CASE Ended
  BY <1>21 DEF Ended, vars
<1>22. QED
  BY <1>1, <1>2, <1>3, <1>4, <1>5, <1>6, <1>7, <1>8, <1>9, <1>10, <1>11, <1>12, <1>13,
     <1>14, <1>15, <1>16, <1>17, <1>18, <1>19, <1>20, <1>21 DEF Next, PpcStep

LEMMA NextIos ==
  ASSUME StartInv, Next
  PROVE  IosOnlyOnIos'
<1> USE DEF Goto, Panic, Set, Decided, OnIos, Perms, Rights, Disturb, Note, out, ppc, StartInv, Looked, Slow, Origin, Places, NoIos, IosOnlyOnIos
<1>1. CASE Analyze
  BY <1>1, AnalyzeFlags, SlowStays, TypeParts DEF StartInv, IosOnlyOnIos, OnMini, Slow
<1>2. CASE Written
  BY <1>2 DEF Written, Lost
<1>3. CASE Tested
  <2>1. seen' = Looked \cup Lost
    BY <1>3 DEF Tested, Result
  <2>2. OnMini' <=> OnMini
    BY <2>1 DEF OnMini, Looked, Lost
  <2>3. QED
    BY <2>2, SlowStays DEF StartInv, IosOnlyOnIos, OnMini, Slow
<1>4. CASE AnalyzeIos
  BY <1>4 DEF AnalyzeIos
<1>5. CASE AnalyzeMini
  BY <1>5 DEF AnalyzeMini
<1>6. CASE IosInit
  BY <1>6, IosInitDoes, SlowStays DEF StartInv, IosOnlyOnIos, OnMini, Slow, Origin, NoIos, Places
<1>7. CASE IosPrivEsc
  BY <1>7, IosPrivEscDoes, SlowStays DEF StartInv, IosOnlyOnIos, OnMini, Slow
<1>8. CASE Armbootnow
  BY <1>8, ArmbootnowDoes, SlowStays DEF StartInv, IosOnlyOnIos, OnMini, Slow, Origin, NoIos, Places
<1>9. CASE HwUnrestrict
  BY <1>9 DEF HwUnrestrict
<1>10. CASE MiniInit
  BY <1>10 DEF MiniInit
<1>11. CASE Post
  BY <1>11 DEF Post, Room, Stuck
<1>12. CASE Recv
  BY <1>12 DEF Recv
<1>13. CASE RecvTimesOut
  BY <1>13 DEF RecvTimesOut
<1>14. CASE MiniReload
  BY <1>14 DEF MiniReload, Room, Stuck
<1>15. CASE Settle
  BY <1>15 DEF Settle
<1>16. CASE MiniPrivEsc
  BY <1>16 DEF MiniPrivEsc, Room, Stuck
<1>17. CASE Sanitize
  BY <1>17 DEF Sanitize
<1>18. CASE Ready
  BY <1>18 DEF Ready
<1>19. CASE Serves
  BY <1>19 DEF Serves
<1>20. CASE Starts
  BY <1>20 DEF Starts
<1>21. CASE Ended
  BY <1>21 DEF Ended, vars
<1>22. QED
  BY <1>1, <1>2, <1>3, <1>4, <1>5, <1>6, <1>7, <1>8, <1>9, <1>10, <1>11, <1>12, <1>13,
     <1>14, <1>15, <1>16, <1>17, <1>18, <1>19, <1>20, <1>21 DEF Next, PpcStep

-----------------------------------------------------------------------------
(***************************************************************************)
(* Why H_InitWii panics.  Each panic is brought back to the step that made *)
(* it unavoidable, which may lie many turns of the state machine before.   *)
(***************************************************************************)

\* An exploit that was not refused has opened AHBPROT, and H_InitWii knows.
Granted ==
  "RAN_DEVSHA" \in flags /\ "refused" \notin seen =>
    /\ "AHBPROT" \in hw
    /\ state \notin {"analyze", "hw_unrestrict"} => "AHBPROT" \in flags

\* A launch that was not lost ends IOS.
Launched == "RAN_ABN" \in flags /\ arm = "ios" => "launch lost" \in seen

\* The MINI of NPLL has opened MEM2 and published its header, which lasts
\* unless testMEM2 overwrites it.
Up ==
  arm = "ours" /\ "overwritten" \notin seen =>
    /\ "MEM2" \in hw
    /\ word = "header" \/ (state = "testing" /\ saved = "header" /\ word = "deadbeef")

\* After the launch, the analysis ends without a MINI for a reason.
Missed ==
  state = "analyze_ios" /\ "RAN_ABN" \in flags =>
    \E m \in {"launch lost", "loading", "overwritten"} : m \in seen

\* The header that was found is still there.
Found == "CUR_MINI" \in flags => word = "header" /\ state \notin {"reading", "testing", "closed"}

Causes == Granted /\ Launched /\ Up /\ Missed /\ Found /\ PanicHasCause

\* Nothing but a MINI being loaded is forgotten.
LEMMA SeenStays ==
  ASSUME NEW m, m # "loading", m \in seen, Next
  PROVE  m \in seen'
<1> USE DEF Note, Looked, out, ppc
<1>1. CASE Analyze
  BY <1>1 DEF Analyze
<1>2. CASE Written
  BY <1>2 DEF Written, Lost
<1>3. CASE Tested
  BY <1>3 DEF Tested, Result
<1>4. CASE AnalyzeIos
  BY <1>4 DEF AnalyzeIos
<1>5. CASE AnalyzeMini
  BY <1>5 DEF AnalyzeMini
<1>6. CASE IosInit
  BY <1>6 DEF IosInit
<1>7. CASE IosPrivEsc
  BY <1>7 DEF IosPrivEsc
<1>8. CASE Armbootnow
  BY <1>8 DEF Armbootnow
<1>9. CASE HwUnrestrict
  BY <1>9 DEF HwUnrestrict
<1>10. CASE MiniInit
  BY <1>10 DEF MiniInit
<1>11. CASE Post
  BY <1>11 DEF Post, Room, Stuck
<1>12. CASE Recv
  BY <1>12 DEF Recv
<1>13. CASE RecvTimesOut
  BY <1>13 DEF RecvTimesOut
<1>14. CASE MiniReload
  BY <1>14 DEF MiniReload, Room, Stuck
<1>15. CASE Settle
  BY <1>15 DEF Settle
<1>16. CASE MiniPrivEsc
  BY <1>16 DEF MiniPrivEsc, Room, Stuck
<1>17. CASE Sanitize
  BY <1>17 DEF Sanitize
<1>18. CASE Ready
  BY <1>18 DEF Ready
<1>19. CASE Serves
  BY <1>19 DEF Serves
<1>20. CASE Starts
  BY <1>20 DEF Starts
<1>21. CASE Ended
  BY <1>21 DEF Ended, vars
<1>22. QED
  BY <1>1, <1>2, <1>3, <1>4, <1>5, <1>6, <1>7, <1>8, <1>9, <1>10, <1>11, <1>12, <1>13,
     <1>14, <1>15, <1>16, <1>17, <1>18, <1>19, <1>20, <1>21 DEF Next, PpcStep

LEMMA IosInitSees ==
  ASSUME IosInit
  PROVE  /\ state = "ios_init" /\ word' = word /\ saved' = saved /\ hw' = hw /\ arm' = arm
         /\ \/ state' = "analyze_ios" /\ \A f : f \in flags' <=> f \in flags \/ f = "IOS_INIT"
            \/ /\ state' = "panic" /\ why' = "no ios" /\ UNCHANGED flags
               /\ "ios on mini" \in seen' \/ "silent" \in seen'
<1>1. \/ Set({"IOS_INIT"}, TRUE) /\ Goto("analyze_ios")
      \/ (Note("ios on mini") \/ Note("silent")) /\ Panic("no ios") /\ UNCHANGED flags
  BY DEF IosInit
<1>2. state = "ios_init" /\ UNCHANGED <<hw, arm, word, saved>>
  BY DEF IosInit, out
<1>3. QED
  BY <1>1, <1>2 DEF Set, Goto, Panic, Note

LEMMA ArmbootnowSees ==
  ASSUME Armbootnow
  PROVE  /\ "RAN_ABN" \in flags' /\ arm' = "ios" => "RAN_ABN" \in flags \/ "launch lost" \in seen'
         /\ \A f : f \in flags' => f \in flags \/ f = "RAN_ABN"
         /\ \A f : f \in flags => f \in flags'
         /\ state = "ios_armbootnow" /\ UNCHANGED <<word, saved>>
         /\ hw \subseteq hw' /\ arm' \in {arm, "loading"}
         /\ \/ state' = "analyze"
            \/ state' = "ios_armbootnow"
            \/ state' = "panic" /\ why' = "launch" /\ launches' = 0
            \/ state' = "panic" /\ why' = "no ios" /\ ("ios on mini" \in seen' \/ "silent" \in seen')
            \/ state' = "panic" /\ why' = "odd ios" /\ left > 0 /\ left' = left - 1
<1>1. \/ Panic("no ios") /\ (Note("ios on mini") \/ Note("silent")) /\ UNCHANGED <<flags, arm>>
      \/ Panic("odd ios") /\ Disturb /\ UNCHANGED <<flags, arm>>
      \/ /\ Goto("analyze") /\ Set({"RAN_ABN"}, TRUE)
         /\ arm' = "loading" \/ (UNCHANGED arm /\ Note("launch lost"))
      \/ /\ launches' = launches - 1 /\ UNCHANGED <<flags, arm>>
         /\ IF launches = 1 THEN Panic("launch") ELSE state' = state
  BY DEF Armbootnow
<1>4. /\ "RAN_ABN" \in flags' /\ arm' = "ios" => "RAN_ABN" \in flags \/ "launch lost" \in seen'
      /\ \A f : f \in flags' => f \in flags \/ f = "RAN_ABN"
      /\ \A f : f \in flags => f \in flags'
      /\ arm' \in {arm, "loading"}
  BY <1>1 DEF Set, Note
<1>5. \/ state' = "analyze"
      \/ state' = state
      \/ state' = "panic" /\ why' = "launch" /\ launches' = launches - 1 /\ launches = 1
      \/ state' = "panic" /\ why' = "no ios" /\ ("ios on mini" \in seen' \/ "silent" \in seen')
      \/ state' = "panic" /\ why' = "odd ios" /\ left > 0 /\ left' = left - 1
  BY <1>1 DEF Panic, Goto, Note, Disturb
<1>2. state = "ios_armbootnow" /\ hw' = hw \cup {"SRNPROT"} /\ UNCHANGED <<word, saved>>
  BY DEF Armbootnow
<1>3. QED
  <2>1. hw \subseteq hw' /\ state = "ios_armbootnow" /\ UNCHANGED <<word, saved>>
    BY <1>2
  <2>2. launches = 1 /\ launches' = launches - 1 => launches' = 0
    OBVIOUS
  <2>3. QED
    BY <1>4, <1>5, <2>1, <2>2

LEMMA IosPrivEscSees ==
  ASSUME IosPrivEsc
  PROVE  /\ state = "ios_priv_esc" /\ hw \subseteq hw' /\ UNCHANGED <<arm, word, saved>>
         /\ \A f : f \in flags => f \in flags'
         /\ \A f : f \in flags' => f \in flags \/ f = "RAN_DEVSHA"
         /\ state' = "hw_unrestrict" \/ (state' = "panic" /\ why' = "rights" /\ "refused" \in seen')
         /\ "AHBPROT" \in hw' \/ "refused" \in seen'
BY DEF IosPrivEsc, Set, Goto, Panic, Note

LEMMA NextGranted ==
  ASSUME StartInv, Granted, Next
  PROVE  Granted'
<1> USE DEF StartInv, Granted, Places
<1>0. \A m \in {"refused", "launch lost", "overwritten"} : m \in seen => m \in seen'
  BY SeenStays
<1> USE <1>0
<1>1. CASE Analyze
  BY <1>1, AnalyzeFlags, TypeParts DEF Control
<1>2. CASE Written
  BY <1>2, WrittenDoes
<1>3. CASE Tested
  BY <1>3, TestedDoes, TypeParts DEF StartInv, Control
<1>4. CASE AnalyzeIos
  BY <1>4 DEF AnalyzeIos, Goto, Panic, out, tries, posted
<1>5. CASE AnalyzeMini
  BY <1>5 DEF AnalyzeMini, Goto, out, tries
<1>6. CASE IosInit
  BY <1>6, IosInitSees DEF Control
<1>7. CASE IosPrivEsc
  BY <1>7, IosPrivEscSees DEF Control
<1>8. CASE Armbootnow
  BY <1>8, ArmbootnowSees DEF Control
<1>9. CASE HwUnrestrict
  BY <1>9 DEF HwUnrestrict, Goto, tries, Rights
<1>10. CASE MiniInit
  BY <1>10 DEF MiniInit, Goto, Panic, out, tries
<1>11. CASE Post
  BY <1>11 DEF Post, Goto, tries, posted
<1>12. CASE Recv
  <2>1. state = "recv" /\ state' # "analyze_ios" /\ state' # "panic" /\ state' # "testing" /\ \A f : f # "MINI_INIT" => (f \in flags' <=> f \in flags)
    BY <1>12 DEF Recv, Goto, Set
  <2>2. UNCHANGED <<saved, hw, arm, word, why, seen, left, launches>>
    BY <1>12 DEF Recv, tries
  <2>3. state' = "recv" \/ state' = "post" \/ state' = "analyze"
    BY <1>12 DEF Recv, Goto
  <2>4. QED
    BY <2>1, <2>2, <2>3
<1>13. CASE RecvTimesOut
  BY <1>13 DEF RecvTimesOut, Goto, tries, out
<1>14. CASE MiniReload
  BY <1>14 DEF MiniReload, Goto, tries
<1>15. CASE Settle
  BY <1>15 DEF Settle, Goto, Note, Disturb, tries, out
<1>16. CASE MiniPrivEsc
  BY <1>16 DEF MiniPrivEsc, Goto, tries
<1>17. CASE Sanitize
  BY <1>17 DEF Sanitize, Goto, Panic, Disturb, tries, out, TypeOK
<1>18. CASE Ready
  BY <1>18 DEF Ready, Goto, Panic, tries, out, Rights
<1>19. CASE Serves
  BY <1>19, JumpServed, TypeParts DEF Serves, ppc, tries
<1>20. CASE Starts
  BY <1>20 DEF Starts, ppc, Rights, tries
<1>21. CASE Ended
  BY <1>21 DEF Ended, vars
<1>22. QED
  BY <1>1, <1>2, <1>3, <1>4, <1>5, <1>6, <1>7, <1>8, <1>9, <1>10, <1>11, <1>12, <1>13,
     <1>14, <1>15, <1>16, <1>17, <1>18, <1>19, <1>20, <1>21 DEF Next, PpcStep

LEMMA NextLaunched ==
  ASSUME StartInv, Launched, Next
  PROVE  Launched'
<1> USE DEF StartInv, Launched, Origin, Reload
<1>0. \A m \in {"refused", "launch lost", "overwritten"} : m \in seen => m \in seen'
  BY SeenStays
<1> USE <1>0
<1>1. CASE Analyze
  BY <1>1, AnalyzeFlags, TypeParts DEF Control
<1>2. CASE Written
  BY <1>2, WrittenDoes
<1>3. CASE Tested
  BY <1>3, TestedDoes, TypeParts DEF StartInv, Control
<1>4. CASE AnalyzeIos
  BY <1>4 DEF AnalyzeIos, Goto, Panic, out, tries, posted
<1>5. CASE AnalyzeMini
  BY <1>5 DEF AnalyzeMini, Goto, out, tries
<1>6. CASE IosInit
  BY <1>6, IosInitSees DEF Control
<1>7. CASE IosPrivEsc
  BY <1>7, IosPrivEscSees DEF Control
<1>8. CASE Armbootnow
  BY <1>8, ArmbootnowSees DEF Control
<1>9. CASE HwUnrestrict
  BY <1>9 DEF HwUnrestrict, Goto, tries, Rights
<1>10. CASE MiniInit
  BY <1>10 DEF MiniInit, Goto, Panic, out, tries
<1>11. CASE Post
  BY <1>11 DEF Post, Goto, tries, posted
<1>12. CASE Recv
  <2>1. state = "recv" /\ state' # "analyze_ios" /\ state' # "panic" /\ state' # "testing" /\ \A f : f # "MINI_INIT" => (f \in flags' <=> f \in flags)
    BY <1>12 DEF Recv, Goto, Set
  <2>2. UNCHANGED <<saved, hw, arm, word, why, seen, left, launches>>
    BY <1>12 DEF Recv, tries
  <2>3. state' = "recv" \/ state' = "post" \/ state' = "analyze"
    BY <1>12 DEF Recv, Goto
  <2>4. QED
    BY <2>1, <2>2, <2>3
<1>13. CASE RecvTimesOut
  BY <1>13 DEF RecvTimesOut, Goto, tries, out
<1>14. CASE MiniReload
  BY <1>14 DEF MiniReload, Goto, tries
<1>15. CASE Settle
  BY <1>15 DEF Settle, Goto, Note, Disturb, tries, out
<1>16. CASE MiniPrivEsc
  BY <1>16 DEF MiniPrivEsc, Goto, tries
<1>17. CASE Sanitize
  BY <1>17 DEF Sanitize, Goto, Panic, Disturb, tries, out, TypeOK
<1>18. CASE Ready
  BY <1>18 DEF Ready, Goto, Panic, tries, out, Rights
<1>19. CASE Serves
  BY <1>19, JumpServed, TypeParts DEF Serves, ppc, tries
<1>20. CASE Starts
  BY <1>20 DEF Starts, ppc, Rights, tries
<1>21. CASE Ended
  BY <1>21 DEF Ended, vars
<1>22. QED
  BY <1>1, <1>2, <1>3, <1>4, <1>5, <1>6, <1>7, <1>8, <1>9, <1>10, <1>11, <1>12, <1>13,
     <1>14, <1>15, <1>16, <1>17, <1>18, <1>19, <1>20, <1>21 DEF Next, PpcStep

LEMMA NextUp ==
  ASSUME StartInv, Up, Next
  PROVE  Up'
<1> USE DEF StartInv, Up, Places, Origin, Reload
<1>0. \A m \in {"refused", "launch lost", "overwritten"} : m \in seen => m \in seen'
  BY SeenStays
<1> USE <1>0
<1>1. CASE Analyze
  BY <1>1, AnalyzeFlags, TypeParts DEF Control
<1>2. CASE Written
  BY <1>2, WrittenDoes
<1>3. CASE Tested
  BY <1>3, TestedDoes, TypeParts DEF StartInv, Control
<1>4. CASE AnalyzeIos
  BY <1>4 DEF AnalyzeIos, Goto, Panic, out, tries, posted
<1>5. CASE AnalyzeMini
  BY <1>5 DEF AnalyzeMini, Goto, out, tries
<1>6. CASE IosInit
  BY <1>6, IosInitSees DEF Control
<1>7. CASE IosPrivEsc
  BY <1>7, IosPrivEscSees DEF Control
<1>8. CASE Armbootnow
  BY <1>8, ArmbootnowSees DEF Control
<1>9. CASE HwUnrestrict
  BY <1>9 DEF HwUnrestrict, Goto, tries, Rights
<1>10. CASE MiniInit
  BY <1>10 DEF MiniInit, Goto, Panic, out, tries
<1>11. CASE Post
  BY <1>11 DEF Post, Goto, tries, posted
<1>12. CASE Recv
  <2>1. state = "recv" /\ state' # "analyze_ios" /\ state' # "panic" /\ state' # "testing" /\ \A f : f # "MINI_INIT" => (f \in flags' <=> f \in flags)
    BY <1>12 DEF Recv, Goto, Set
  <2>2. UNCHANGED <<saved, hw, arm, word, why, seen, left, launches>>
    BY <1>12 DEF Recv, tries
  <2>3. state' = "recv" \/ state' = "post" \/ state' = "analyze"
    BY <1>12 DEF Recv, Goto
  <2>4. QED
    BY <2>1, <2>2, <2>3
<1>13. CASE RecvTimesOut
  BY <1>13 DEF RecvTimesOut, Goto, tries, out
<1>14. CASE MiniReload
  BY <1>14 DEF MiniReload, Goto, tries
<1>15. CASE Settle
  BY <1>15 DEF Settle, Goto, Note, Disturb, tries, out
<1>16. CASE MiniPrivEsc
  BY <1>16 DEF MiniPrivEsc, Goto, tries
<1>17. CASE Sanitize
  BY <1>17 DEF Sanitize, Goto, Panic, Disturb, tries, out, TypeOK
<1>18. CASE Ready
  BY <1>18 DEF Ready, Goto, Panic, tries, out, Rights
<1>19. CASE Serves
  BY <1>19, JumpServed, TypeParts DEF Serves, ppc, tries
<1>20. CASE Starts
  BY <1>20 DEF Starts, ppc, Rights, tries
<1>21. CASE Ended
  BY <1>21 DEF Ended, vars
<1>22. QED
  BY <1>1, <1>2, <1>3, <1>4, <1>5, <1>6, <1>7, <1>8, <1>9, <1>10, <1>11, <1>12, <1>13,
     <1>14, <1>15, <1>16, <1>17, <1>18, <1>19, <1>20, <1>21 DEF Next, PpcStep

LEMMA NextMissed ==
  ASSUME StartInv, Launched, Up, Missed, Next
  PROVE  Missed'
<1> USE DEF StartInv, Launched, Up, Missed, Origin, Places
<1>0. \A m \in {"refused", "launch lost", "overwritten"} : m \in seen => m \in seen'
  BY SeenStays
<1> USE <1>0
<1>1. CASE Analyze
  BY <1>1, AnalyzeFlags, TypeParts DEF Control
<1>2. CASE Written
  BY <1>2, WrittenDoes
<1>3. CASE Tested
  BY <1>3, TestedDoes, TypeParts DEF StartInv, Control
<1>4. CASE AnalyzeIos
  BY <1>4 DEF AnalyzeIos, Goto, Panic, out, tries, posted
<1>5. CASE AnalyzeMini
  BY <1>5 DEF AnalyzeMini, Goto, out, tries
<1>6. CASE IosInit
  BY <1>6, IosInitSees DEF Control
<1>7. CASE IosPrivEsc
  BY <1>7, IosPrivEscSees DEF Control
<1>8. CASE Armbootnow
  BY <1>8, ArmbootnowSees DEF Control
<1>9. CASE HwUnrestrict
  BY <1>9 DEF HwUnrestrict, Goto, tries, Rights
<1>10. CASE MiniInit
  BY <1>10 DEF MiniInit, Goto, Panic, out, tries
<1>11. CASE Post
  BY <1>11 DEF Post, Goto, tries, posted
<1>12. CASE Recv
  <2>1. state = "recv" /\ state' # "analyze_ios" /\ state' # "panic" /\ state' # "testing" /\ \A f : f # "MINI_INIT" => (f \in flags' <=> f \in flags)
    BY <1>12 DEF Recv, Goto, Set
  <2>2. UNCHANGED <<saved, hw, arm, word, why, seen, left, launches>>
    BY <1>12 DEF Recv, tries
  <2>3. state' = "recv" \/ state' = "post" \/ state' = "analyze"
    BY <1>12 DEF Recv, Goto
  <2>4. QED
    BY <2>1, <2>2, <2>3
<1>13. CASE RecvTimesOut
  BY <1>13 DEF RecvTimesOut, Goto, tries, out
<1>14. CASE MiniReload
  BY <1>14 DEF MiniReload, Goto, tries
<1>15. CASE Settle
  BY <1>15 DEF Settle, Goto, Note, Disturb, tries, out
<1>16. CASE MiniPrivEsc
  <2>1. /\ UNCHANGED <<flags, saved, hw, arm, word, seen>>
        /\ state' \in {"mini_priv_esc2", "hw_unrestrict", "panic"}
    BY <1>16 DEF MiniPrivEsc, Goto, Panic, tries
  <2>2. QED
    BY <2>1
<1>17. CASE Sanitize
  BY <1>17 DEF Sanitize, Goto, Panic, Disturb, tries, out, TypeOK
<1>18. CASE Ready
  BY <1>18 DEF Ready, Goto, Panic, tries, out, Rights
<1>19. CASE Serves
  BY <1>19, JumpServed, TypeParts DEF Serves, ppc, tries
<1>20. CASE Starts
  BY <1>20 DEF Starts, ppc, Rights, tries
<1>21. CASE Ended
  BY <1>21 DEF Ended, vars
<1>22. QED
  BY <1>1, <1>2, <1>3, <1>4, <1>5, <1>6, <1>7, <1>8, <1>9, <1>10, <1>11, <1>12, <1>13,
     <1>14, <1>15, <1>16, <1>17, <1>18, <1>19, <1>20, <1>21 DEF Next, PpcStep

LEMMA NextFound ==
  ASSUME StartInv, Found, Next
  PROVE  Found'
<1> USE DEF StartInv, Found, Places
<1>0. \A m \in {"refused", "launch lost", "overwritten"} : m \in seen => m \in seen'
  BY SeenStays
<1> USE <1>0
<1>1. CASE Analyze
  BY <1>1, AnalyzeFlags, TypeParts DEF Control
<1>2. CASE Written
  BY <1>2, WrittenDoes
<1>3. CASE Tested
  BY <1>3, TestedDoes, TypeParts DEF StartInv, Control
<1>4. CASE AnalyzeIos
  BY <1>4 DEF AnalyzeIos, Goto, Panic, out, tries, posted
<1>5. CASE AnalyzeMini
  BY <1>5 DEF AnalyzeMini, Goto, out, tries
<1>6. CASE IosInit
  BY <1>6, IosInitSees DEF Control
<1>7. CASE IosPrivEsc
  BY <1>7, IosPrivEscSees DEF Control
<1>8. CASE Armbootnow
  BY <1>8, ArmbootnowSees DEF Control
<1>9. CASE HwUnrestrict
  BY <1>9 DEF HwUnrestrict, Goto, tries, Rights
<1>10. CASE MiniInit
  BY <1>10 DEF MiniInit, Goto, Panic, out, tries
<1>11. CASE Post
  BY <1>11 DEF Post, Goto, tries, posted
<1>12. CASE Recv
  <2>1. state = "recv" /\ state' # "analyze_ios" /\ state' # "panic" /\ state' # "testing" /\ \A f : f # "MINI_INIT" => (f \in flags' <=> f \in flags)
    BY <1>12 DEF Recv, Goto, Set
  <2>2. UNCHANGED <<saved, hw, arm, word, why, seen, left, launches>>
    BY <1>12 DEF Recv, tries
  <2>3. state' = "recv" \/ state' = "post" \/ state' = "analyze"
    BY <1>12 DEF Recv, Goto
  <2>4. QED
    BY <2>1, <2>2, <2>3
<1>13. CASE RecvTimesOut
  BY <1>13 DEF RecvTimesOut, Goto, tries, out
<1>14. CASE MiniReload
  BY <1>14 DEF MiniReload, Goto, tries
<1>15. CASE Settle
  BY <1>15 DEF Settle, Goto, Note, Disturb, tries, out
<1>16. CASE MiniPrivEsc
  <2>1. /\ UNCHANGED <<flags, saved, hw, arm, word, seen>>
        /\ state' \in {"mini_priv_esc2", "hw_unrestrict", "panic"}
    BY <1>16 DEF MiniPrivEsc, Goto, Panic, tries
  <2>2. QED
    BY <2>1
<1>17. CASE Sanitize
  BY <1>17 DEF Sanitize, Goto, Panic, Disturb, tries, out, TypeOK
<1>18. CASE Ready
  BY <1>18 DEF Ready, Goto, Panic, tries, out, Rights
<1>19. CASE Serves
  BY <1>19, JumpServed, TypeParts DEF Serves, ppc, tries
<1>20. CASE Starts
  BY <1>20 DEF Starts, ppc, Rights, tries
<1>21. CASE Ended
  BY <1>21 DEF Ended, vars
<1>22. QED
  BY <1>1, <1>2, <1>3, <1>4, <1>5, <1>6, <1>7, <1>8, <1>9, <1>10, <1>11, <1>12, <1>13,
     <1>14, <1>15, <1>16, <1>17, <1>18, <1>19, <1>20, <1>21 DEF Next, PpcStep

LEMMA NextPanic ==
  ASSUME StartInv, IosOnlyOnIos', Causes, Next
  PROVE  PanicHasCause'
<1> USE DEF StartInv, IosOnlyOnIos, Causes, Granted, Missed, Found, Places, PanicHasCause
<1>0. \A m \in {"refused", "launch lost", "overwritten"} : m \in seen => m \in seen'
  BY SeenStays
<1> USE <1>0
<1>1. CASE Analyze
  BY <1>1, AnalyzeFlags, TypeParts DEF Control
<1>2. CASE Written
  BY <1>2, WrittenDoes
<1>3. CASE Tested
  BY <1>3, TestedDoes, TypeParts DEF StartInv, Control
<1>4. CASE AnalyzeIos
  BY <1>4 DEF AnalyzeIos, Goto, Panic, out, tries, posted
<1>5. CASE AnalyzeMini
  BY <1>5 DEF AnalyzeMini, Goto, out, tries
<1>6. CASE IosInit
  BY <1>6, IosInitSees DEF Control
<1>7. CASE IosPrivEsc
  BY <1>7, IosPrivEscSees DEF Control
<1>8. CASE Armbootnow
  <2>1. left \in 0..Disturbances /\ Disturbances \in Nat
    BY WiiStartAssumption DEF StartInv, TypeOK
  <2>2. left > 0 /\ left' = left - 1 => left' < Disturbances
    BY ONLY <2>1
  <2>3. QED
    BY <1>8, ArmbootnowSees, <2>2 DEF Control
<1>9. CASE HwUnrestrict
  BY <1>9 DEF HwUnrestrict, Goto, tries, Rights
<1>10. CASE MiniInit
  BY <1>10 DEF MiniInit, Goto, Panic, out, tries
<1>11. CASE Post
  BY <1>11 DEF Post, Goto, tries, posted
<1>12. CASE Recv
  <2>1. state = "recv" /\ state' # "analyze_ios" /\ state' # "panic" /\ state' # "testing" /\ \A f : f # "MINI_INIT" => (f \in flags' <=> f \in flags)
    BY <1>12 DEF Recv, Goto, Set
  <2>2. UNCHANGED <<saved, hw, arm, word, why, seen, left, launches>>
    BY <1>12 DEF Recv, tries
  <2>3. state' = "recv" \/ state' = "post" \/ state' = "analyze"
    BY <1>12 DEF Recv, Goto
  <2>4. QED
    BY <2>1, <2>2, <2>3
<1>13. CASE RecvTimesOut
  BY <1>13 DEF RecvTimesOut, Goto, tries, out
<1>14. CASE MiniReload
  BY <1>14 DEF MiniReload, Goto, tries
<1>15. CASE Settle
  BY <1>15 DEF Settle, Goto, Note, Disturb, tries, out
<1>16. CASE MiniPrivEsc
  <2>1. left \in 0..Disturbances /\ Disturbances \in Nat
    BY WiiStartAssumption DEF StartInv, TypeOK
  <2>2. \/ state' \in {"mini_priv_esc2", "hw_unrestrict"}
        \/ state' = "panic" /\ why' = "stuck" /\ left > 0 /\ left' = left - 1
    BY <1>16 DEF MiniPrivEsc, Goto, Panic, Stuck, Disturb
  <2>3. left > 0 /\ left' = left - 1 => left' < Disturbances
    BY ONLY <2>1
  <2>4. QED
    BY <2>2, <2>3
<1>17. CASE Sanitize
  <2>1. left \in 0..Disturbances /\ Disturbances \in Nat
    BY WiiStartAssumption DEF StartInv, TypeOK
  <2>2. \/ state' = "ready" /\ UNCHANGED <<why, left>>
        \/ state' = "panic" /\ why' = "usb" /\ left > 0 /\ left' = left - 1
    BY <1>17 DEF Sanitize, Goto, Panic, Disturb
  <2>3. left > 0 /\ left' = left - 1 => left' < Disturbances
    BY ONLY <2>1
  <2>4. QED
    BY <2>2, <2>3
<1>18. CASE Ready
  BY <1>18 DEF Ready, Goto, Panic, tries, out, Rights
<1>19. CASE Serves
  BY <1>19, JumpServed, TypeParts DEF Serves, ppc, tries
<1>20. CASE Starts
  BY <1>20 DEF Starts, ppc, Rights, tries
<1>21. CASE Ended
  BY <1>21 DEF Ended, vars
<1>22. QED
  BY <1>1, <1>2, <1>3, <1>4, <1>5, <1>6, <1>7, <1>8, <1>9, <1>10, <1>11, <1>12, <1>13,
     <1>14, <1>15, <1>16, <1>17, <1>18, <1>19, <1>20, <1>21 DEF Next, PpcStep

-----------------------------------------------------------------------------
(* The theorems.                                                            *)

LEMMA StartInvInit == Init => StartInv
<1> SUFFICES ASSUME Init PROVE StartInv
  OBVIOUS
<1>1. ~Jump
  BY DEF Init, Jump
<1>2. ReadyIsSound /\ UnreachableStays /\ IosOnlyOnIos
  BY DEF Init, ReadyIsSound, UnreachableStays, IosOnlyOnIos
<1>3. Origin /\ Published /\ Reload
  BY <1>1 DEF Init, Origin, Published, Header, Reload
<1>4. Places /\ Tried /\ NoIos
  BY <1>1, WiiStartAssumption DEF Init, Places, Rights, Tried, NoIos
<1>5. QED
  BY InitType, <1>2, <1>3, <1>4 DEF StartInv

LEMMA StartInvNext == StartInv /\ [Next]_vars => StartInv'
<1> SUFFICES ASSUME StartInv, [Next]_vars PROVE StartInv'
  OBVIOUS
<1>1. CASE Next
  <2>1. Counters /\ Queues /\ Control /\ request \in 1..3
    BY TypeParts DEF StartInv, Counters
  <2>2. TypeOK'
    BY <1>1, <2>1, TypeParts, NextCounters, NextQueues, NextControl DEF StartInv, TypeOK, Counters, Queues, Control
  <2>3. Origin' /\ Published' /\ Reload'
    BY <1>1, <2>1, NextOrigin, NextPublished, NextReload DEF StartInv
  <2>4. Places' /\ Tried' /\ NoIos'
    BY <1>1, <2>1, NextPlaces, NextTried, NextNoIos DEF StartInv
  <2>5. ReadyIsSound' /\ UnreachableStays' /\ IosOnlyOnIos'
    BY <1>1, NextReady, NextUnreachable, NextIos
  <2>6. QED
    BY <2>2, <2>3, <2>4, <2>5 DEF StartInv
<1>2. CASE UNCHANGED vars
  <2>1. TypeOK'
    BY <1>2 DEF vars, StartInv, TypeOK
  <2>2. (Jump' <=> Jump) /\ (Header' <=> Header)
    BY <1>2 DEF vars, Jump, Header
  <2>3. Origin' /\ Published' /\ Reload'
    BY <1>2, <2>2 DEF vars, StartInv, Origin, Published, Reload
  <2>4. Places' /\ Tried' /\ NoIos'
    BY <1>2, <2>2 DEF vars, StartInv, Places, Tried, NoIos, Slow
  <2>5. ReadyIsSound' /\ UnreachableStays' /\ IosOnlyOnIos'
    BY <1>2 DEF vars, StartInv, ReadyIsSound, UnreachableStays, IosOnlyOnIos
  <2>6. QED
    BY <2>1, <2>3, <2>4, <2>5 DEF StartInv
<1>3. QED
  BY <1>1, <1>2

\* Wherever NPLL starts from and however MINI and IOS behave, H_InitWii goes on
\* only with every right and its own MINI, does not fall into the
\* __builtin_unreachable of STATE_ANALYZE_MINI, and speaks to IOS only while it
\* runs unless MINI was slow to reload.
THEOREM WiiStartSafe == Spec => []StartSafe
<1>1. StartInv => StartSafe
  BY DEF StartInv, StartSafe
<1>2. QED
  BY <1>1, StartInvInit, StartInvNext, PTL DEF Spec

LEMMA CausesInit == Init => Causes
BY WiiStartAssumption DEF Init, Causes, Granted, Launched, Up, Missed, Found, PanicHasCause

LEMMA CausesNext == StartInv /\ StartInv' /\ Causes /\ [Next]_vars => Causes'
<1> SUFFICES ASSUME StartInv, StartInv', Causes, [Next]_vars PROVE Causes'
  OBVIOUS
<1>1. CASE Next
  <2>1. Granted' /\ Launched' /\ Up'
    BY <1>1, NextGranted, NextLaunched, NextUp DEF Causes
  <2>2. Missed' /\ Found'
    BY <1>1, NextMissed, NextFound DEF Causes
  <2>3. PanicHasCause'
    BY <1>1, NextPanic DEF StartInv
  <2>4. QED
    BY <2>1, <2>2, <2>3 DEF Causes
<1>2. CASE UNCHANGED vars
  BY <1>2 DEF vars, Causes, Granted, Launched, Up, Missed, Found, PanicHasCause
<1>3. QED
  BY <1>1, <1>2

\* A panic of H_InitWii has the cause that its message names: it gives up on
\* MINI only when the launch was lost, MINI was still being loaded at the last
\* look, or testMEM2 overwrote the address MINI had just published; it finds no
\* header, or fails its last checks, never.
THEOREM PanicsAreCaused == Spec => []PanicHasCause
<1>1. Causes => PanicHasCause
  BY DEF Causes
<1>2. QED
  BY <1>1, StartInvInit, StartInvNext, CausesInit, CausesNext, PTL DEF Spec
=============================================================================
