------------------------------ MODULE Skipchain ------------------------------
(***************************************************************************)
(* omniledger/skipchain: servers that extend a skipchain block by block.   *)
(* StoreSkipBlock collects a BFT signature on the link from the latest     *)
(* block to the new one, asks other servers to sign the higher links, and  *)
(* propagates the changed blocks.                                          *)
(*                                                                         *)
(* A block's hash covers its data and its back-links and so its whole      *)
(* history: a SkipBlockID is modelled as the sequence of the data of the   *)
(* blocks up to it, <<>> being the genesis block.  Index, height and       *)
(* back-links follow from that sequence.  All blocks have the roster       *)
(* Server.  A BFT round is what module CollectiveSigning promises: every   *)
(* server verifies, and it fails with threshold refusals.  A propagation   *)
(* is what module Propagate shows: it returns after every server stored,   *)
(* or ends the process of its root.                                        *)
(***************************************************************************)
EXTENDS Sequences, Functions, SkipHeights

CONSTANTS Server, Data, BaseHeight, MaximumHeight,
          Client,     \* StoreSkipBlock calls that may run at the same time
          Worker,     \* forwardSignature handlers that may run at the same time
          MaxBlock,   \* bound on the index of a block
          Scenario    \* what to look at: see the assumption

(* A scenario says which mishaps may happen ("failure" of requests and     *)
(* rounds, "concurrent" calls that extend the chain, one "crash"), how     *)
(* many calls at most extend the chain, how many blocks it has at the      *)
(* start, and whether GetUpdateChain is called.                            *)
ASSUME ScenarioAssumption ==
    Scenario \subseteq
      [mishaps : SUBSET {"failure", "concurrent", "crash"},
       calls : Nat, blocks : 0..2, reads : BOOLEAN]

ASSUME HeightAssumption ==
    /\ BaseHeight \in Nat /\ MaximumHeight \in 1..BaseHeight   \* verifyBlock
    /\ MaxBlock \in Nat

ASSUME RosterAssumption ==   \* a roster is a list of servers
    IsFiniteSet(Server) /\ Cardinality(Server) \in Nat

Block == UNION {[1..n -> Data] : n \in 0..MaxBlock}
Genesis == <<>>

(* The block, or the list of links, s is continued by t. *)
Precedes(s, t) == Len(s) <= Len(t) /\ s = SubSeq(t, 1, Len(s))

Previous(b) == SubSeq(b, 1, Len(b) - 1)
LatestLink(links) == links[Len(links)]

HeightOf(b) == Height(Len(b), BaseHeight, MaximumHeight)
BackLinkID(b, h) ==
    SubSeq(b, 1, BackLink(Len(b), h, BaseHeight, MaximumHeight))

Threshold == ((Cardinality(Server) + 1) * 2) \div 3

VARIABLES
    scenario,  \* the scenario of this behaviour
    genesis,   \* was the chain created
    sbm,       \* each server's SkipBlockMap: block |-> its forward-links
    saved,     \* what each server's save wrote last
    call,      \* the calls of StoreSkipBlock and forwardSignature under way
    fwdSigs,   \* ForwardSignature messages under way
    replies,   \* GetBlockReply messages under way
    acked,     \* blocks for which StoreSkipBlock returned a reply
    calls,     \* number of calls that extend the chain
    mishaps    \* the mishaps so far

vars == <<scenario, genesis, sbm, saved, call, fwdSigs, replies, acked, calls,
          mishaps>>

NoCall == [pc |-> "idle"]

(* One of the mishaps, as far as they are admitted. *)
Happens(m) ==
    /\ m \in scenario.mishaps
    /\ mishaps' = mishaps \cup {m}

(* No chain, or one every server has stored and saved. *)
Init ==
    /\ scenario \in Scenario
    /\ genesis = (scenario.blocks > 0)
    /\ \E first \in {b \in Block : Len(b) = 1} :
         sbm = [s \in Server |->
                  [b \in {b \in {Genesis, first} : Len(b) < scenario.blocks} |->
                     IF b = Genesis /\ scenario.blocks = 2 THEN <<first>> ELSE <<>>]]
    /\ saved = sbm
    /\ call = [k \in Client \cup Worker |-> NoCall]
    /\ fwdSigs = {}
    /\ replies = {}
    /\ acked = {}
    /\ calls = 0
    /\ mishaps = {}

-----------------------------------------------------------------------------
(* mutant: take over the links of the block as it came in *)
StoreReplacing(map, sb, links) ==
    [b \in DOMAIN map \cup {sb} |-> IF b = sb THEN links ELSE map[b]]

(* mutant: ignore a block that is known *)
StoreNewOnly(map, sb, links) ==
    [b \in DOMAIN map \cup {sb} |-> IF b \in DOMAIN map THEN map[b] ELSE links]

(* SkipBlockMap.Store: of a known block only the forward-links beyond      *)
(* those already there are taken over.                                     *)
Store(map, sb, links) ==
    [b \in DOMAIN map \cup {sb} |->
       IF b # sb THEN map[b]
       ELSE IF sb \notin DOMAIN map THEN links
       ELSE map[sb] \o SubSeq(links, Len(map[sb]) + 1, Len(links))]

(* save: written or not, depending on the time since the last save.  It is *)
(* followed only where a server may restart.                               *)
Save(s) ==
    \/ UNCHANGED saved
    \/ "crash" \in scenario.mishaps /\ saved' = [saved EXCEPT ![s] = sbm'[s]]

(* startBFT: a round that signs the link of the given level to newest. *)
StartBFT(k, s, level, newest, link) ==
    call' = [call EXCEPT ![k] =
               [pc |-> "bft", leader |-> s, level |-> level,
                newest |-> newest, link |-> link,
                vote |-> [q \in Server |-> "none"]]]

(* The blocks that startPropagation is to send to all servers. *)
Change(k, s, level, newest, changed) ==
    call' = [call EXCEPT ![k] =
               [pc |-> "changed", leader |-> s, level |-> level,
                newest |-> newest, changed |-> changed]]

(* StoreSkipBlock without LatestID: a new chain.  One chain is modelled.   *)
StoreGenesis(k, s) ==
    /\ ~genesis
    /\ genesis' = TRUE
    /\ Change(k, s, 0, Genesis, <<Genesis>>)
    /\ UNCHANGED <<sbm, saved, fwdSigs, replies, acked, calls, mishaps>>

(* StoreSkipBlock after block latest.  The client is told an error, and    *)
(* nothing changes, if the server does not know latest, if the walk to the *)
(* back-links meets an unknown block, or if latest has a forward-link.     *)
StoreSkipBlock(k, s, latest, data) ==
    LET prop == Append(latest, data)
        lowest == Len(BackLinkID(prop, HeightOf(prop) - 1))
    IN /\ call[k] = NoCall
       /\ Len(latest) < MaxBlock
       /\ \A i \in lowest..Len(latest) : SubSeq(latest, 1, i) \in DOMAIN sbm[s]
       /\ sbm[s][latest] = <<>>
       /\ calls < scenario.calls
       /\ calls' = calls + 1
       /\ IF \E j \in Client : call[j] # NoCall
          THEN Happens("concurrent") ELSE UNCHANGED mishaps
       /\ StartBFT(k, s, 0, prop, prop)
       /\ UNCHANGED <<genesis, sbm, saved, fwdSigs, replies, acked>>

(* mutant: compare with the level instead of the number of links *)
AcceptsOffByOne(q, c) ==
    LET target == BackLinkID(c.newest, c.level)
    IN /\ {target, Previous(c.newest)} \subseteq DOMAIN sbm[q]
       /\ c.link = c.newest
       /\ IF c.level = 0 THEN sbm[q][target] = <<>>
          ELSE Len(sbm[q][target]) < c.level

(* bftVerifyNewBlock (level 0) and bftVerifyFollowBlock at server q. *)
Accepts(q, c) ==
    LET target == BackLinkID(c.newest, c.level)
    IN /\ target \in DOMAIN sbm[q]
       /\ IF c.level = 0
          THEN sbm[q][target] = <<>>
          ELSE /\ Previous(c.newest) \in DOMAIN sbm[q]
               /\ c.link = c.newest
               /\ Len(sbm[q][target]) < c.level + 1

Verify(k, q) ==
    /\ call[k].pc = "bft"
    /\ call[k].vote[q] = "none"
    /\ call' = [call EXCEPT ![k].vote[q] =
                  IF Accepts(q, call[k]) THEN "accept" ELSE "refuse"]
    /\ UNCHANGED <<genesis, sbm, saved, fwdSigs, replies, acked, calls, mishaps>>

(* mutant: go on to a block that was added after it in the meantime *)
LaterTarget(c) ==
    LET target == BackLinkID(c.newest, c.level)
        links == sbm[c.leader][target]
    IN IF c.level = 0 /\ links # <<>> /\ LatestLink(links) \in DOMAIN sbm[c.leader]
       THEN LatestLink(links) ELSE target

(* The block that gets the link once it is signed. *)
Target(c) == BackLinkID(c.newest, c.level)

(* The round ends.  A signature is added to the links of the target, at    *)
(* the end of the list; without one the call returns an error.             *)
BFTDone(k) ==
    LET c == call[k]
        target == Target(c)
    IN /\ c.pc = "bft"
       /\ \A q \in Server : c.vote[q] \in {"accept", "refuse"}
       /\ IF Cardinality({q \in Server : c.vote[q] = "refuse"}) < Threshold
          THEN /\ sbm' = [sbm EXCEPT ![c.leader][target] = Append(@, c.link)]
               /\ IF c.level = 0
                  THEN call' = [call EXCEPT ![k] =
                                  [pc |-> "signed", leader |-> c.leader,
                                   newest |-> c.newest]]
                  ELSE Change(k, c.leader, c.level, c.newest, <<target>>)
          ELSE call' = [call EXCEPT ![k] = NoCall] /\ UNCHANGED sbm
       /\ UNCHANGED <<genesis, saved, fwdSigs, replies, acked, calls, mishaps>>

(* 60 seconds without a signature *)
BFTTimeout(k) ==
    /\ call[k].pc = "bft"
    /\ \/ Happens("failure")
       \/ (\E q \in Server : call[k].vote[q] = "lost") /\ UNCHANGED mishaps
    /\ call' = [call EXCEPT ![k] = NoCall]
    /\ UNCHANGED <<genesis, sbm, saved, fwdSigs, replies, acked, calls>>

(* The level asked for with the i-th of the higher back-links, from 0. *)
TargetHeight(i) == i + 1

(* StoreSkipBlock asks a random server for each higher link.  Failing to   *)
(* is not an error.                                                        *)
RequestHigherLinks(k) ==
    LET c == call[k]
        levels == {TargetHeight(i) : i \in 0..(HeightOf(c.newest) - 2)}
        link == sbm[c.leader][Previous(c.newest)][1]
    IN /\ c.pc = "signed"
       /\ \E sent \in SUBSET levels :
         /\ IF sent = levels THEN UNCHANGED mishaps ELSE Happens("failure")
         /\ \E to \in [sent -> Server] :
              fwdSigs' = fwdSigs \cup
                {[to |-> to[h], level |-> h, newest |-> c.newest,
                  link |-> link] : h \in sent}
         /\ \E n \in 0..(HeightOf(c.newest) - 1) : \E level \in [1..n -> sent] :
              /\ sent = {level[i] : i \in 1..n}
              /\ \A i, j \in DOMAIN level : i < j => level[i] < level[j]
              /\ Change(k, c.leader, 0, c.newest,
                        <<Previous(c.newest), c.newest>>
                          \o [i \in DOMAIN level |-> BackLinkID(c.newest, level[i])])
       /\ UNCHANGED <<genesis, sbm, saved, replies, acked, calls>>

(* startPropagation: the changed blocks are sent as they are now.  The new *)
(* block itself is not in the leader's map yet.                            *)
StartPropagation(k) ==
    LET c == call[k]
        added == IF c.level = 0 THEN {c.newest} ELSE {}
        links(b) == IF b \in added THEN <<>> ELSE sbm[c.leader][b]
    IN /\ c.pc = "changed"
       /\ call' = [call EXCEPT ![k] =
                     [pc |-> "propagate", leader |-> c.leader, level |-> c.level,
                      newest |-> c.newest,
                      sent |-> [i \in DOMAIN c.changed |->
                                  <<c.changed[i], links(c.changed[i])>>],
                      stored |-> [q \in Server |-> 0]]]
       /\ UNCHANGED <<genesis, sbm, saved, fwdSigs, replies, acked, calls, mishaps>>

(* propagateSkipBlock at server q stores the next of the blocks. *)
PropagateSkipBlock(k, q) ==
    /\ call[k].pc = "propagate"
    /\ call[k].stored[q] \in 0..(Len(call[k].sent) - 1)
    /\ LET sb == call[k].sent[call[k].stored[q] + 1]
       IN sbm' = [sbm EXCEPT ![q] = Store(@, sb[1], sb[2])]
    /\ call' = [call EXCEPT ![k].stored[q] = @ + 1]
    /\ Save(q)
    /\ UNCHANGED <<genesis, fwdSigs, replies, acked, calls, mishaps>>

(* mutant: do not wait for the other servers *)
ReturnEarly(k) ==
    /\ call[k].pc = "propagate"
    /\ call[k].leader \in Server
    /\ call[k].stored[call[k].leader] = Len(call[k].sent)
    /\ call' = [call EXCEPT ![k] = NoCall]
    /\ UNCHANGED <<genesis, sbm, fwdSigs, replies, calls, mishaps>>
    /\ IF call[k].level = 0
       THEN acked' = acked \cup {call[k].newest} /\ Save(call[k].leader)
       ELSE UNCHANGED <<acked, saved>>

(* startPropagation returns; StoreSkipBlock saves and replies. *)
Return(k) ==
    /\ call[k].pc = "propagate"
    /\ \A q \in Server : call[k].stored[q] = Len(call[k].sent)
    /\ call' = [call EXCEPT ![k] = NoCall]
    /\ UNCHANGED <<genesis, sbm, fwdSigs, replies, calls, mishaps>>
    /\ IF call[k].level = 0
       THEN acked' = acked \cup {call[k].newest} /\ Save(call[k].leader)
       ELSE UNCHANGED <<acked, saved>>

(* forwardSignature: sign the link, if the target is known. *)
ForwardSignature(k, m) ==
    /\ call[k] = NoCall
    /\ m \in fwdSigs
    /\ fwdSigs' = fwdSigs \ {m}
    /\ IF BackLinkID(m.newest, m.level) \in DOMAIN sbm[m.to]
       THEN StartBFT(k, m.to, m.level, m.newest, m.link)
       ELSE UNCHANGED call
    /\ UNCHANGED <<genesis, sbm, saved, replies, acked, calls, mishaps>>

LoseForwardSignature(m) ==
    /\ m \in fwdSigs
    /\ fwdSigs' = fwdSigs \ {m}
    /\ Happens("failure")
    /\ UNCHANGED <<genesis, sbm, saved, call, replies, acked, calls>>

(* GetUpdateChain at server s follows the last forward-link of a block and *)
(* asks server q for the next one if it does not know it; q replies.       *)
GetBlock(s, q) ==
    \E b \in DOMAIN sbm[s] :
      /\ scenario.reads
      /\ sbm[s][b] # <<>>
      /\ LET next == LatestLink(sbm[s][b])
         IN /\ next \in DOMAIN sbm[q] \ DOMAIN sbm[s]
            /\ replies' = replies \cup {[to |-> s, sb |-> next, links |-> sbm[q][next]]}
      /\ UNCHANGED <<genesis, sbm, saved, call, fwdSigs, acked, calls, mishaps>>

(* getBlockReply *)
GetBlockReply(m) ==
    /\ replies' = replies \ {m}
    /\ sbm' = [sbm EXCEPT ![m.to] = Store(@, m.sb, m.links)]
    /\ Save(m.to)
    /\ UNCHANGED <<genesis, call, fwdSigs, acked, calls, mishaps>>

(* The process of server s ends and starts again from what it saved        *)
(* (tryLoad).  Its calls and its part in the rounds and propagations of    *)
(* others are gone; what it has sent may still arrive.                     *)
Restart(s) ==
    /\ sbm' = [sbm EXCEPT ![s] = saved[s]]
    /\ call' = [k \in DOMAIN call |->
                  CASE call[k].pc = "propagate" /\ call[k].leader = s ->
                         [call[k] EXCEPT !.leader = "gone", !.stored[s] = -1]
                    [] call[k].pc = "propagate" /\ call[k].leader # s
                         /\ call[k].stored[s] < Len(call[k].sent) ->
                         [call[k] EXCEPT !.stored[s] = -1]
                    [] call[k].pc = "bft" /\ call[k].leader # s ->
                         [call[k] EXCEPT !.vote[s] = "lost"]
                    [] call[k].pc \in {"bft", "signed", "changed"}
                         /\ call[k].leader = s -> NoCall
                    [] OTHER -> call[k]]
    /\ UNCHANGED <<genesis, saved, fwdSigs, replies, acked, calls>>

(* One crash is modelled. *)
Crash(s) ==
    /\ "crash" \notin mishaps
    /\ Happens("crash")
    /\ Restart(s)

(* A server that went down does not answer: log.Fatalf in the propagation  *)
(* ends the process of the leader.  Once that is gone the rest of the tree *)
(* may get the data or not.                                                *)
PropagateTimeout(k) ==
    /\ call[k].pc = "propagate"
    /\ \E q \in Server : call[k].stored[q] = -1
    /\ IF call[k].leader \in Server THEN Restart(call[k].leader)
       ELSE /\ call' = [call EXCEPT ![k] = NoCall]
            /\ UNCHANGED <<genesis, sbm, saved, fwdSigs, replies, acked, calls>>
    /\ UNCHANGED mishaps

Step(k) ==
    \/ \E q \in Server : Verify(k, q) \/ PropagateSkipBlock(k, q)
    \/ BFTDone(k) \/ BFTTimeout(k)
    \/ RequestHigherLinks(k) \/ StartPropagation(k)
    \/ Return(k) \/ PropagateTimeout(k)

Next ==
    /\ UNCHANGED scenario
    /\ \/ \E k \in Client, s \in Server :
            \/ StoreGenesis(k, s)
            \/ \E latest \in DOMAIN sbm[s], data \in Data :
                 StoreSkipBlock(k, s, latest, data)
       \/ \E k \in Worker, m \in fwdSigs : ForwardSignature(k, m)
       \/ \E m \in fwdSigs : LoseForwardSignature(m)
       \/ \E k \in Client \cup Worker : Step(k)
       \/ \E s, q \in Server : GetBlock(s, q)
       \/ \E m \in replies : GetBlockReply(m)
       \/ \E s \in Server : Crash(s)

Spec == Init /\ [][Next]_vars

-----------------------------------------------------------------------------
(* The maps hold blocks with lists of links to blocks. *)
TypeOK ==
    /\ genesis \in BOOLEAN
    /\ \A s \in Server : \A map \in {sbm[s], saved[s]} :
         DOMAIN map \subseteq Block /\ \A b \in DOMAIN map : map[b] \in Seq(Block)
    /\ \A m \in fwdSigs : /\ m.to \in Server /\ m.newest \in Block
                           /\ m.level \in 1..(HeightOf(m.newest) - 1)
    /\ acked \subseteq Block
    /\ calls \in 0..scenario.calls
    /\ mishaps \subseteq scenario.mishaps

(* All forward-links any server holds. *)
Links == UNION {{<<b, Range(sbm[s][b])>> : b \in DOMAIN sbm[s]} : s \in Server}
Linked == UNION {l[2] : l \in Links}

(* A forward-link of any server leads from a block to a later one that has *)
(* it among its back-links, whatever is lost, restarted or stored at the   *)
(* same time: no signature is ever put on a link between unrelated blocks. *)
LinksMatchBackLinks ==
    /\ TypeOK
    /\ \A l \in Links : \A t \in l[2] :
         \E h \in 0..(HeightOf(t) - 1) : BackLinkID(t, h) = l[1]

(* No call of StoreSkipBlock began while another was under way, and no     *)
(* server restarted.                                                       *)
Undisturbed == mishaps \subseteq {"failure"}

(* A client is told of a block only when every server has it and the link  *)
(* to it, so that no server can be asked to extend the block before; also  *)
(* if requests and rounds fail.                                            *)
AckedEverywhere ==
    Undisturbed =>
      \A b \in acked \ {Genesis}, s \in Server :
        /\ b \in DOMAIN sbm[s]
        /\ Previous(b) \in DOMAIN sbm[s]
        /\ sbm[s][Previous(b)] # <<>> /\ sbm[s][Previous(b)][1] = b

(* "the skipblock will be added to the skipchain after verification that   *)
(* it fits and no other block already has been added" (skipchain.go lines  *)
(* 62-64): all linked blocks are on one chain.                             *)
OneChain == \A b, c \in Linked : Precedes(b, c) \/ Precedes(c, b)

(* A server's links of a block are never replaced: readers that followed   *)
(* one can rely on it (a crash may set a server back).                     *)
LinksOnlyGrow ==
    [][(\A s \in Server : ~ Restart(s)) =>
         \A s \in Server : \A b \in DOMAIN sbm[s] :
           b \in DOMAIN sbm'[s] /\ Precedes(sbm[s][b], sbm'[s][b])]_vars

(* What GetUpdateChain ends with at server s from block b: at every block  *)
(* the last link, until there is none.                                     *)
UpdateChainEnd(s, b) ==
    LET end[c \in DOMAIN sbm[s]] ==
          IF sbm[s][c] = <<>> THEN c
          ELSE IF LatestLink(sbm[s][c]) \in DOMAIN sbm[s] THEN end[LatestLink(sbm[s][c])]
          ELSE c
    IN end[b]

Quiet == /\ \A k \in DOMAIN call : call[k] = NoCall
         /\ fwdSigs = {}

(* GetUpdateChain gets "to the actual latest SkipBlock" (skipchain.go      *)
(* lines 170-172): with no call under way it ends, from any block and at   *)
(* any server, at the newest block that was acknowledged.                  *)
LatestFound ==
    Undisturbed /\ (\A k \in DOMAIN call : call[k] = NoCall) =>
      \A s \in Server : \A b \in DOMAIN sbm[s] :
        \A a \in acked : Len(UpdateChainEnd(s, b)) >= Len(a)

(* On a chain of two levels both links to an acknowledged block have got   *)
(* to every server once all requests were served, if none failed.  With    *)
(* more levels this is not so: bftVerifyFollowBlock goes by the number of  *)
(* links, and a link of level 2 that is signed before the one of level 1   *)
(* takes its place in the list, so that the latter is refused.             *)
HigherLinksArrive ==
    MaximumHeight <= 2 /\ mishaps = {} /\ Quiet =>
      \A b \in acked \ {Genesis}, s \in Server :
        \A h \in 0..(HeightOf(b) - 1) :
          b \in Range(sbm[s][BackLinkID(b, h)])
-----------------------------------------------------------------------------
(* The inductive invariant behind LinksMatchBackLinks and LinksOnlyGrow.   *)

(* t may be the target of a forward-link of b.                             *)
Fits(b, t) == \E h \in 0..(HeightOf(t) - 1) : BackLinkID(t, h) = b

LinkList(b) == {links \in Seq(Block) : \A i \in DOMAIN links : Fits(b, links[i])}

IsSkipBlockMap(map) ==
    /\ map \in [DOMAIN map -> Seq(Block)]
    /\ DOMAIN map \subseteq Block
    /\ \A b \in DOMAIN map : map[b] \in LinkList(b)

BFTCall == [pc : {"bft"}, leader : Server, level : Nat, newest : Block,
            link : Block, vote : [Server -> {"none", "accept", "refuse", "lost"}]]
SignedCall == [pc : {"signed"}, leader : Server, newest : Block]
ChangedCall == [pc : {"changed"}, leader : Server, level : Nat, newest : Block,
                changed : Seq(Block)]
PropagateCall == [pc : {"propagate"}, leader : Server \cup {"gone"}, level : Nat,
                  newest : Block, sent : Seq(Block \X Seq(Block)),
                  stored : [Server -> Int]]

(* The leader of a call that adds a block knows all its back-links.        *)
KnowsBackLinks(c, maps) ==
    /\ c.newest # Genesis
    /\ \A h \in 0..(HeightOf(c.newest) - 1) :
         BackLinkID(c.newest, h) \in DOMAIN maps[c.leader]

(* What holds of a call at each of its stages, for the servers' maps: who  *)
(* accepts a higher link has compared it with the new block, and what is   *)
(* sent to the others are blocks the leader has.                           *)
BFTOK(c, maps) ==
    /\ c.level \in 0..(HeightOf(c.newest) - 1)
    /\ BackLinkID(c.newest, c.level) \in DOMAIN maps[c.leader]
    /\ c.level = 0 => KnowsBackLinks(c, maps) /\ c.link = c.newest
    /\ \A q \in Server :
         c.level > 0 /\ c.vote[q] = "accept" => c.link = c.newest
SignedOK(c, maps) ==
    /\ KnowsBackLinks(c, maps)
    /\ maps[c.leader][Previous(c.newest)] # <<>>
ChangedOK(c, maps) ==
    \A i \in DOMAIN c.changed :
        \/ c.changed[i] \in DOMAIN maps[c.leader]
        \/ c.level = 0 /\ c.changed[i] = c.newest
PropagateOK(c) ==
    \A i \in DOMAIN c.sent : c.sent[i][2] \in LinkList(c.sent[i][1])

CallOK(c, maps) ==
    \/ c = NoCall
    \/ c \in BFTCall /\ BFTOK(c, maps)
    \/ c \in SignedCall /\ SignedOK(c, maps)
    \/ c \in ChangedCall /\ ChangedOK(c, maps)
    \/ c \in PropagateCall /\ PropagateOK(c)

ForwardOK(m) ==
    /\ m \in [to : Server, level : Nat, newest : Block, link : Block]
    /\ m.level \in 1..(HeightOf(m.newest) - 1)

ReplyOK(m) ==
    /\ m \in [to : Server, sb : Block, links : Seq(Block)]
    /\ m.links \in LinkList(m.sb)

MapsOK == /\ DOMAIN sbm = Server /\ DOMAIN saved = Server
          /\ \A s \in Server : IsSkipBlockMap(sbm[s]) /\ IsSkipBlockMap(saved[s])

IInv ==
    /\ scenario \in Scenario /\ genesis \in BOOLEAN
    /\ acked \subseteq Block
    /\ calls \in 0..scenario.calls
    /\ mishaps \subseteq scenario.mishaps
    /\ MapsOK
    /\ DOMAIN call = Client \cup Worker /\ \A k \in Client \cup Worker : CallOK(call[k], sbm)
    /\ \A m \in fwdSigs : ForwardOK(m)
    /\ \A m \in replies : ReplyOK(m)
-----------------------------------------------------------------------------
(* The inductive invariant behind AckedEverywhere and LatestFound, of      *)
(* behaviours that are undisturbed.                                        *)

(* In the servers' maps t and the blocks before it are everywhere, and the *)
(* first link of each leads to the next.                                   *)
Settled(t, maps) ==
    \A s \in Server :
        /\ \A i \in 0..Len(t) : SubSeq(t, 1, i) \in DOMAIN maps[s]
        /\ \A i \in 0..(Len(t) - 1) :
             /\ maps[s][SubSeq(t, 1, i)] # <<>>
             /\ maps[s][SubSeq(t, 1, i)][1] = SubSeq(t, 1, i + 1)

(* A call that adds a block, and the blocks of such calls from when the    *)
(* link to them is signed.                                                 *)
Adds(c) == c.pc = "signed" \/ (c.pc \in {"bft", "changed", "propagate"} /\ c.level = 0)
Working(c) == Adds(c) /\ c.pc # "bft"
InWork == {call[k].newest : k \in {k \in DOMAIN call : Working(call[k])}}

Known(t, maps, work) == Settled(t, maps) \/ t \in work

(* A block and its links, of which the first leads to the next block.      *)
KnownLinks(b, links, maps, work) ==
    /\ Known(b, maps, work)
    /\ \A i \in DOMAIN links : links[i] # Genesis /\ Known(links[i], maps, work)
    /\ links # <<>> => Len(links[1]) = Len(b) + 1

MapsKnown(new, maps, work) ==
    \A s \in Server : \A b \in DOMAIN new[s] : KnownLinks(b, new[s][b], maps, work)

(* The block before the one a call adds is settled.  It has no link while  *)
(* the round runs, and its first link is the new one afterwards.           *)
ExtendsEnd(c, maps) ==
    c.newest # Genesis =>
        /\ Settled(Previous(c.newest), maps)
        /\ LET links == maps[c.leader][Previous(c.newest)]
           IN IF c.pc = "bft" THEN links = <<>>
              ELSE links # <<>> /\ links[1] = c.newest

(* What a call that adds a block propagates.                               *)
SendsNewest(c) ==
    /\ c.pc = "changed" =>
         /\ c.newest \in Range(c.changed)
         /\ c.newest # Genesis => Previous(c.newest) \in Range(c.changed)
    /\ c.pc = "propagate" =>
         /\ \E i \in DOMAIN c.sent : c.sent[i][1] = c.newest
         /\ c.newest # Genesis =>
              \E i \in DOMAIN c.sent : /\ c.sent[i][1] = Previous(c.newest)
                                       /\ c.sent[i][2] # <<>>

(* A propagation that no restart has interrupted: what a server has stored *)
(* is in its map.                                                          *)
Delivers(c, maps, work) ==
    /\ c.leader \in Server
    /\ \A i \in DOMAIN c.sent : KnownLinks(c.sent[i][1], c.sent[i][2], maps, work)
    /\ \A q \in Server :
         /\ c.stored[q] \in 0..Len(c.sent)
         /\ \A i \in 1..c.stored[q] :
              /\ c.sent[i][1] \in DOMAIN maps[q]
              /\ Len(maps[q][c.sent[i][1]]) >= Len(c.sent[i][2])

CallUndisturbed(k, c, maps, work) ==
    /\ Adds(c) => k \in Client /\ ExtendsEnd(c, maps) /\ SendsNewest(c)
    /\ c.pc = "bft" => /\ c.newest # Genesis
                       /\ \A q \in Server : c.vote[q] # "lost"
                       /\ c.level > 0 => Known(c.newest, maps, work)
    /\ c.pc = "propagate" => Delivers(c, maps, work)

OneAdds ==
    \A j, k \in DOMAIN call : Adds(call[j]) /\ Adds(call[k]) => j = k

ChainInv ==
    /\ ~ genesis => /\ \A s \in Server : DOMAIN sbm[s] = {}
                    /\ \A k \in DOMAIN call : call[k] = NoCall
                    /\ fwdSigs = {} /\ replies = {}
    /\ OneAdds
    /\ \A k \in DOMAIN call : CallUndisturbed(k, call[k], sbm, InWork)
    /\ MapsKnown(sbm, sbm, InWork)
    /\ \A m \in fwdSigs : m.newest # Genesis /\ Known(m.newest, sbm, InWork)
    /\ \A m \in replies : KnownLinks(m.sb, m.links, sbm, InWork)
    /\ \A b \in acked : Settled(b, sbm)

UndisturbedInv == Undisturbed => ChainInv
=============================================================================
