---------------------------- MODULE NdpResponder ----------------------------
(***************************************************************************)
(* The IPv6 neighbour responder (ndp/proxy.go): Run, a loop that reloads   *)
(* the rule file and answers solicitations, and the announcer goroutine.   *)
(*                                                                         *)
(*   rulefile   the file the panel renames into place: its blocks and its  *)
(*              modification time; None when it is removed                 *)
(*   rules      what the loop answers for, and the modification time it    *)
(*              believes they have (0: none)                               *)
(*   due        a second has passed since the last reload                  *)
(*   refresh    the announce interval has passed                           *)
(*   loop       where Run is, with the solicitation it handles             *)
(*   last       announceState.last                                         *)
(*   queue      announcer.pending; woken: the channel wake holds a token   *)
(*   sender     where announcer.run is                                     *)
(*   told       history: blocks announced since they last entered `last`   *)
(*   fresh      history: the loop has read the file since its last change  *)
(*                                                                         *)
(* A block stands for its rule and for the address that is announced.      *)
(***************************************************************************)
EXTENDS Host

CONSTANTS
    RoutedBlocks,  \* blocks inside net.ipv6_prefix
    ExtraBlocks,   \* whole /64 blocks of net.ipv6_extra_prefix
    PrefixMode,    \* the ipv6 mode is "prefix", or "none" with an extra prefix
    Refreshes,     \* net.ipv6_announce_minutes > 0
    MaxPublished   \* bound: changes of the rule file

ASSUME NdpAssumption ==
    /\ PrefixMode \in BOOLEAN /\ Refreshes \in BOOLEAN /\ MaxPublished \in Nat
    /\ RoutedBlocks \cap ExtraBlocks = {}
    /\ {None, "drain", "leaving"} \cap (RoutedBlocks \cup ExtraBlocks) = {}
    /\ None \notin {"drain", "leaving"}

VARIABLES rulefile, published, rules, due, refresh, loop, last, queue, woken, sender,
          told, fresh

ndpVars == <<rulefile, published, rules, due, refresh, loop, last, queue, woken, sender,
             told, fresh>>

AllBlocks == RoutedBlocks \cup ExtraBlocks

\* cmdIPv6Proxy hands Run one prefix.
Allowed == IF PrefixMode THEN RoutedBlocks ELSE ExtraBlocks

\* What ndppdConf can render.
Renderable == SUBSET (IF PrefixMode THEN AllBlocks ELSE ExtraBlocks)

Loop(step, target, mtime) == [at |-> step, target |-> target, mtime |-> mtime]
At(step) == loop' = Loop(step, None, 0)

NdpInit ==
    /\ rulefile = None /\ published = 0
    /\ rules = [set |-> {}, mtime |-> 0]
    /\ due = TRUE /\ refresh = Refreshes
    /\ loop = Loop("top", None, 0)
    /\ last = {} /\ queue = {} /\ woken = FALSE /\ sender = None
    /\ told = {} /\ fresh = FALSE


-----------------------------------------------------------------------------
(* The writer of the file, and the clock *)

\* writeNDPPD: a rename, or a removal when there is no block.
RulesPublished ==
    /\ published < MaxPublished /\ published' = published + 1
    /\ \/ \E blocks \in Renderable \ {{}} : rulefile' = [set |-> blocks, mtime |-> published + 1]
       \/ rulefile # None /\ rulefile' = None
    /\ fresh' = FALSE
    /\ UNCHANGED <<rules, due, refresh, loop, last, queue, woken, sender, told>>

Second ==
    /\ ~due /\ due' = TRUE
    /\ UNCHANGED <<rulefile, published, rules, refresh, loop, last, queue, woken, sender, told, fresh>>

Interval ==
    /\ Refreshes /\ ~refresh /\ refresh' = TRUE
    /\ UNCHANGED <<rulefile, published, rules, due, loop, last, queue, woken, sender, told, fresh>>

-----------------------------------------------------------------------------
(* Run: the reload once a second *)

UNS == UNCHANGED <<rulefile, published, last, queue, woken, sender, told, refresh>>

KeepRules(r) == r                                                  \* mutant
Cleared(r) == [set |-> {}, mtime |-> 0]
Filtered(blocks) == blocks \cap Allowed

\* A file that is gone means no rules; one that cannot be read keeps the old.
Reload ==
    /\ loop.at = "top" /\ due
    /\ due' = FALSE
    /\ \/ rulefile = None /\ rules' = Cleared(rules) /\ At("sync") /\ fresh' = TRUE
       \/ rulefile # None /\ rules' = [rules EXCEPT !.set = Filtered(rulefile.set)]
             /\ At("stat") /\ fresh' = TRUE
       \/ CanFail("rules_file") /\ At("sync") /\ UNCHANGED <<rules, fresh>>
    /\ UNS

\* The modification time is read after the rules: the file may be a newer one.
StatAfterReload ==
    /\ loop.at = "stat"
    /\ rules' = IF rulefile = None THEN rules ELSE [rules EXCEPT !.mtime = rulefile.mtime]
    /\ At("sync")
    /\ UNCHANGED <<due, fresh>> /\ UNS

\* enqueue leaves a token in a channel of one place.
WakeWaiting(new) == new /\ sender = None                           \* mutant
Woke(new) == woken \/ new

\* announceState.sync: what is new or due is queued; what is gone is forgotten.
Sync ==
    LET queued == IF refresh THEN rules.set ELSE rules.set \ last IN
    /\ loop.at = "sync"
    /\ queue' = queue \cup queued
    /\ woken' = Woke(queued \ queue # {})
    /\ last' = rules.set
    /\ told' = told \cap (last \cap rules.set)
    /\ refresh' = FALSE
    /\ At("recv")
    /\ UNCHANGED <<rulefile, published, rules, due, sender, fresh>>

-----------------------------------------------------------------------------
(* Run: a solicitation *)

\* The socket times out after a second without a packet.
RecvTimeout == /\ loop.at = "recv" /\ due /\ At("top")
               /\ UNCHANGED <<rules, due, fresh>> /\ UNS

NotDue == /\ loop.at = "top" /\ ~due /\ At("recv")
          /\ UNCHANGED <<rules, due, fresh>> /\ UNS

\* With no rules the packet is dropped before the file is looked at.
Solicit(target) ==
    /\ loop.at = "recv"
    /\ loop' = IF rules.set = {} THEN Loop("top", None, 0) ELSE Loop("check", target, 0)
    /\ UNCHANGED <<rules, due, fresh>> /\ UNS

\* Stat, then a reload when the time differs; `mtime` is the file's at the Stat.
CheckFile ==
    /\ loop.at = "check"
    /\ \/ /\ rulefile # None
          /\ loop' = IF rulefile.mtime = rules.mtime THEN Loop("answer", loop.target, 0)
                     ELSE Loop("reload", loop.target, rulefile.mtime)
          /\ UNCHANGED <<rules, due, fresh>>
       \/ /\ rulefile = None /\ loop' = Loop("answer", loop.target, 0)
          /\ IF rules.mtime = 0 THEN UNCHANGED <<rules, due, fresh>>
             ELSE rules' = Cleared(rules) /\ due' = FALSE /\ fresh' = TRUE
    /\ UNS

ReloadForSolicitation ==
    /\ loop.at = "reload"
    /\ \/ /\ rules' = IF rulefile = None THEN Cleared(rules)
                      ELSE [set |-> Filtered(rulefile.set), mtime |-> loop.mtime]
          /\ due' = FALSE /\ fresh' = TRUE
       \/ CanFail("rules_file") /\ UNCHANGED <<rules, due, fresh>>
    /\ loop' = Loop("answer", loop.target, 0)
    /\ UNS

\* sendAdvertisement for what matches; an error of the send ends Run.
AnswerSolicitation ==
    /\ loop.at = "answer" /\ At("top")
    /\ UNCHANGED <<rules, due, fresh>> /\ UNS

\* Run returns on an error of the socket and systemd starts it again.
ResponderExit ==
    /\ CanFail("responder") /\ loop.at \in {"recv", "answer"}
    /\ rules' = [set |-> {}, mtime |-> 0] /\ due' = TRUE /\ refresh' = Refreshes
    /\ loop' = Loop("top", None, 0)
    /\ last' = {} /\ queue' = {} /\ woken' = FALSE /\ sender' = None /\ told' = {}
    /\ fresh' = FALSE
    /\ UNCHANGED <<rulefile, published>>

Run == Reload \/ StatAfterReload \/ Sync \/ RecvTimeout \/ NotDue
       \/ CheckFile \/ ReloadForSolicitation \/ AnswerSolicitation

-----------------------------------------------------------------------------
(* announcer.run; a block in `sender` is being sent, and then waited after *)

UNR == UNCHANGED <<rulefile, published, rules, due, refresh, loop, last, fresh>>

Park ==
    /\ sender = "leaving" /\ sender' = None
    /\ UNCHANGED <<queue, woken, told>> /\ UNR

Wake ==
    /\ woken /\ sender = None
    /\ woken' = FALSE /\ sender' = "drain"
    /\ UNCHANGED <<queue, told>> /\ UNR

Pop ==
    /\ sender = "drain"
    /\ \/ \E block \in queue : queue' = queue \ {block} /\ sender' = block
       \/ queue = {} /\ sender' = "leaving" /\ UNCHANGED queue
    /\ UNCHANGED <<woken, told>> /\ UNR

\* A send that fails is logged and not repeated.
SendAnnouncement ==
    /\ sender \in AllBlocks
    /\ told' = told \cup {sender} \/ (CanFail("announce") /\ UNCHANGED told)
    /\ sender' = "drain"
    /\ UNCHANGED <<queue, woken>> /\ UNR

Announcer == Park \/ Wake \/ Pop \/ SendAnnouncement

NdpNext ==
    \/ RulesPublished \/ Second \/ Interval
    \/ \E target \in AllBlocks : Solicit(target)
    \/ Run \/ ResponderExit \/ Announcer

NdpSpec == NdpInit /\ [][NdpNext]_ndpVars

\* The socket's timeout and the ticking clock bring the loop back; the announcer
\* is a goroutine of the process; no read or send fails for ever; the responder
\* is not ended for ever.
NdpFairness ==
    /\ <>[][~ResponderExit]_ndpVars
    /\ WF_ndpVars(Second) /\ WF_ndpVars(Run) /\ WF_ndpVars(Announcer) /\ WF_ndpVars(Interval)
    /\ SF_ndpVars(Reload /\ fresh')
    /\ \A block \in Allowed : SF_ndpVars(SendAnnouncement /\ sender = block /\ block \in told')

-----------------------------------------------------------------------------
(* Properties *)

NdpTypeOK ==
    /\ rulefile \in [set: SUBSET AllBlocks, mtime: 1..MaxPublished] \cup {None}
    /\ rules \in [set: SUBSET Allowed, mtime: 0..MaxPublished]
    /\ published \in 0..MaxPublished
    /\ {due, refresh, woken, fresh} \subseteq BOOLEAN
    /\ loop \in [at: {"top", "stat", "sync", "recv", "check", "reload", "answer"},
                 target: AllBlocks \cup {None}, mtime: 0..MaxPublished]
    /\ last \subseteq AllBlocks /\ queue \subseteq AllBlocks /\ told \subseteq AllBlocks
    /\ sender \in AllBlocks \cup {None, "drain", "leaving"}

\* What is queued is drained: either the sender is at it or a wake waits for it
\* (announcer.enqueue, "the drain loop is already awake").
WakeNotLost == queue # {} => woken \/ sender \notin {None, "leaving"}

\* Once the file has stopped changing, the responder answers for exactly those of
\* its blocks that lie in the prefix cmdIPv6Proxy gave it, and has announced each
\* of them (Run, announceState.sync), over races with the writer, failed reads and
\* restarts.  FileAnswered is about the blocks outside that prefix.
NdpSettles ==
    LET wanted == IF rulefile = None THEN {} ELSE Filtered(rulefile.set) IN
    <>[](rules.set = wanted /\ wanted \subseteq told)

\* Every block the manager has written into the file is answered for once the
\* responder has read it: a whole /64 too "has to be answered for" when it is
\* resolved by NDP (ndppdConf, ipv6.go:463-465; ipv6extra.go:40-41).
FileAnswered == fresh /\ rulefile # None => rules.set = rulefile.set

=============================================================================
