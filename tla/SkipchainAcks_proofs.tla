------------------------ MODULE SkipchainAcks_proofs ------------------------
(***************************************************************************)
(* What a client and a reader of module Skipchain can rely on as long as   *)
(* calls of StoreSkipBlock do not overlap and no server restarts: a block  *)
(* that was acknowledged is everywhere, and GetUpdateChain gets to the     *)
(* newest of them.                                                         *)
(***************************************************************************)
EXTENDS Skipchain_proofs

(* A call that adds a block has a block and, if it was not cut short, a    *)
(* leader.                                                                 *)
LEMMA AddsTypes ==
    ASSUME IInv, NEW k \in Client \cup Worker, Adds(call[k])
    PROVE  /\ call[k].newest \in Block
           /\ call[k].leader \in Server \cup {"gone"}
           /\ call[k].pc # "propagate" => call[k].leader \in Server
<1>1. call[k].pc \in {"bft", "signed", "changed", "propagate"}
  BY DEF Adds
<1> QED
  BY <1>1, CallTypes DEF BFTCall, SignedCall, ChangedCall, PropagateCall

(* While the round of a call that adds a block runs, the block it extends  *)
(* gets no link: whatever comes into a map was known, hence settled.       *)
LEMMA EndStays ==
    ASSUME IInv, MapsOK', ChainInv, MapsGrow, MapsKnown(sbm', sbm, InWork),
           NEW j \in Client \cup Worker, Adds(call[j]), call[j].pc = "bft",
           call[j].newest # Genesis
    PROVE  sbm'[call[j].leader][Previous(call[j].newest)] = <<>>
<1> DEFINE l == call[j].leader
           p == Previous(call[j].newest)
           links == sbm'[l][p]
<1>1. /\ call[j].newest \in Block /\ l \in Server /\ p \in Block
      /\ DOMAIN call = Client \cup Worker
  BY AddsTypes, PreviousFacts DEF IInv
<1>2. Settled(p, sbm) /\ sbm[l][p] = <<>>
  BY <1>1, Zenon DEF ChainInv, CallUndisturbed, ExtendsEnd
<1>3. ASSUME NEW x \in InWork PROVE FALSE
  <2>1. PICK k \in DOMAIN call : Working(call[k])
    BY <1>3 DEF InWork
  <2> QED
    BY <1>1, <2>1, Zenon DEF ChainInv, OneAdds, Working
<1>4. p \in DOMAIN sbm'[l]
  <2>1. Len(p) \in 0..Len(p) /\ p = SubSeq(p, 1, Len(p))
    <3>1. p \in Seq(Data) /\ Len(p) \in Nat
      BY <1>1, BlockFacts
    <3> HIDE DEF p
    <3> QED
      BY <3>1
  <2>2. p \in DOMAIN sbm[l]
    BY <1>1, <1>2, <2>1, Zenon DEF Settled
  <2> QED
    BY <1>1, <2>2, Zenon DEF MapsGrow, Grows
<1>5. links \in Seq(Block) /\ links \in LinkList(p) /\ KnownLinks(p, links, sbm, InWork)
  BY <1>1, <1>4, Zenon DEF MapsOK, IsSkipBlockMap, MapsKnown
<1> HIDE DEF links
<1> SUFFICES ASSUME links # <<>> PROVE FALSE
  BY DEF links
<1>6. 1 \in DOMAIN links /\ links[1] \in Block
  BY <1>5
<1>7. links[1] # Genesis /\ Settled(links[1], sbm) /\ Fits(p, links[1])
  BY <1>3, <1>5, <1>6, Zenon DEF KnownLinks, Known, LinkList
<1>8. Len(p) \in 0..(Len(links[1]) - 1) /\ p = SubSeq(links[1], 1, Len(p))
  BY <1>6, <1>7, FitsFacts
<1> QED
  BY <1>1, <1>2, <1>6, <1>7, <1>8, SettledFirst

(* A step keeps the invariant if it keeps what it says of the calls in K,  *)
(* when all others are as before, and of what the step adds.           *)
LEMMA ChainStep ==
    ASSUME IInv, IInv', ChainInv, MapsGrow, OneAdds',
           NEW K \in SUBSET (Client \cup Worker),
           \A j \in Client \cup Worker : j \notin K => call'[j] = call[j],
           \A j \in K : CallUndisturbed(j, call'[j], sbm', InWork'),
           \A x \in InWork : x \in InWork' \/ Settled(x, sbm'),
           MapsKnown(sbm', sbm', InWork'),
           \A j \in Client \cup Worker :
             j \notin K /\ Adds(call[j]) /\ call[j].pc = "bft" /\ call[j].newest # Genesis =>
               sbm'[call[j].leader][Previous(call[j].newest)] = <<>>,
           \A m \in fwdSigs' \ fwdSigs :
             m.newest # Genesis /\ Known(m.newest, sbm', InWork'),
           \A m \in replies' \ replies : KnownLinks(m.sb, m.links, sbm', InWork'),
           \A b \in acked' \ acked : Settled(b, sbm'),
           genesis'
    PROVE  ChainInv'
<1>1. /\ MapsOf(sbm) /\ MapsOf(sbm') /\ AllGrow(sbm, sbm')
      /\ DOMAIN call = Client \cup Worker /\ DOMAIN call' = Client \cup Worker
  BY Zenon DEF IInv, MapsOK, MapsOf, MapsGrow, AllGrow
<1>2. /\ \A t \in Block : Known(t, sbm, InWork) => Known(t, sbm', InWork')
      /\ \A b \in Block, links \in Seq(Block) :
           KnownLinks(b, links, sbm, InWork) => KnownLinks(b, links, sbm', InWork')
  BY <1>1, KnownKept, Zenon
<1>3. ASSUME NEW j \in Client \cup Worker
      PROVE  CallUndisturbed(j, call'[j], sbm', InWork')
  <2>1. CASE j \in K
    BY <2>1, Zenon
  <2>2. CASE j \notin K
    <3> DEFINE c == call[j]
    <3>1. call'[j] = c /\ CallUndisturbed(j, c, sbm, InWork)
      BY <1>1, <2>2, Zenon DEF ChainInv
    <3>2. Adds(c) => j \in Client /\ ExtendsEnd(c, sbm') /\ SendsNewest(c)
      <4> SUFFICES ASSUME Adds(c) PROVE ExtendsEnd(c, sbm')
        BY <3>1, Zenon DEF CallUndisturbed
      <4>1. ExtendsEnd(c, sbm) /\ c.newest \in Block /\ c.leader \in Server
        BY <3>1, AddsTypes, Zenon DEF CallUndisturbed, Delivers
      <4>2. c.pc = "bft" /\ c.newest # Genesis =>
              sbm'[c.leader][Previous(c.newest)] = <<>>
        BY <2>2, Zenon
      <4> HIDE DEF c
      <4> QED
        BY <1>1, <4>1, <4>2, ExtendsEndKept, Zenon
    <3>3. c.pc = "bft" => /\ c.newest # Genesis
                          /\ \A q \in Server : c.vote[q] # "lost"
                          /\ c.level > 0 => Known(c.newest, sbm', InWork')
      <4>1. c.pc = "bft" => c.newest \in Block
        BY CallTypes DEF BFTCall
      <4> QED
        BY <1>2, <3>1, <4>1, Zenon DEF CallUndisturbed
    <3>4. c.pc = "propagate" => Delivers(c, sbm', InWork')
      <4>1. c.pc = "propagate" => c \in PropagateCall
        BY CallTypes
      <4>2. c.pc = "propagate" => Delivers(c, sbm, InWork)
        BY <3>1, Zenon DEF CallUndisturbed
      <4> HIDE DEF c
      <4> QED
        BY <1>1, <4>1, <4>2, DeliversKept, Zenon
    <3> QED
      BY <3>1, <3>2, <3>3, <3>4, Zenon DEF CallUndisturbed
  <2> QED
    BY <2>1, <2>2, Zenon
<1>4. \A m \in fwdSigs' : m.newest # Genesis /\ Known(m.newest, sbm', InWork')
  <2>1. \A m \in fwdSigs : m.newest \in Block
    BY DEF IInv, ForwardOK
  <2> QED
    BY <1>2, <2>1, Zenon DEF ChainInv
<1>5. \A m \in replies' : KnownLinks(m.sb, m.links, sbm', InWork')
  <2>1. \A m \in replies : m.sb \in Block /\ m.links \in Seq(Block)
    BY DEF IInv, ReplyOK
  <2> QED
    BY <1>2, <2>1, Zenon DEF ChainInv
<1>6. \A b \in acked' : Settled(b, sbm')
  <2>1. acked \subseteq Block
    BY DEF IInv
  <2> QED
    BY <1>1, <2>1, SettledKept, Zenon DEF ChainInv
<1> QED
  BY <1>1, <1>3, <1>4, <1>5, <1>6, Zenon DEF ChainInv

(* The calls after a step that makes call k c and leaves the others. *)
OnlyCall(k, c) ==
    /\ call'[k] = c
    /\ \A j \in Client \cup Worker : j # k => call'[j] = call[j]

(* How the actions say so. *)
LEMMA OnlyCallFacts ==
    ASSUME IInv, NEW k \in Client \cup Worker
    PROVE  /\ \A c : call' = [call EXCEPT ![k] = c] => OnlyCall(k, c)
           /\ call' = call => OnlyCall(k, call[k])
BY Zenon DEF IInv, OnlyCall

(* A step that changes a call but not the block it adds. *)
LEMMA SameWork ==
    ASSUME IInv, IInv', ChainInv, NEW k \in Client \cup Worker, NEW c,
           OnlyCall(k, c),
           Adds(c) => Adds(call[k]), Working(c) <=> Working(call[k]),
           Working(c) => c.newest = call[k].newest
    PROVE  /\ OneAdds' /\ InWork' = InWork
           /\ call'[k] = c
           /\ \A j \in Client \cup Worker : j \notin {k} => call'[j] = call[j]
<1>1. /\ DOMAIN call = Client \cup Worker /\ DOMAIN call' = DOMAIN call
      /\ call'[k] = c
      /\ \A j \in DOMAIN call : j # k => call'[j] = call[j]
  BY Zenon DEF IInv, OnlyCall
<1>2. OneAdds'
  BY <1>1, Zenon DEF ChainInv, OneAdds
<1>3. ASSUME NEW j \in DOMAIN call
      PROVE  /\ Working(call'[j]) <=> Working(call[j])
             /\ Working(call[j]) => call'[j].newest = call[j].newest
  BY <1>1, Zenon
<1>4. InWork' \subseteq InWork
  BY <1>1, <1>3, Zenon DEF InWork
<1>5. InWork \subseteq InWork'
  BY <1>1, <1>3, Zenon DEF InWork
<1> QED
  BY <1>1, <1>2, <1>4, <1>5, Zenon

(* A step that changes no map, and a call only. *)
LEMMA QuietStep ==
    ASSUME IInv, IInv', ChainInv, MapsGrow, sbm' = sbm, genesis' = genesis,
           NEW k \in Client \cup Worker, NEW c, call[k] # NoCall \/ fwdSigs # {},
           OnlyCall(k, c),
           Adds(c) => Adds(call[k]), Working(c) <=> Working(call[k]),
           Working(c) => c.newest = call[k].newest,
           CallUndisturbed(k, c, sbm, InWork),
           \A m \in fwdSigs' \ fwdSigs :
             m.newest # Genesis /\ Known(m.newest, sbm, InWork),
           replies' \subseteq replies, acked' \subseteq acked
    PROVE  ChainInv'
<1>1. /\ OneAdds' /\ InWork' = InWork /\ call'[k] = c
      /\ \A j \in Client \cup Worker : j \notin {k} => call'[j] = call[j]
  BY SameWork, Zenon
<1>2. MapsKnown(sbm', sbm', InWork')
  BY <1>1, Zenon DEF ChainInv
<1>3. ASSUME NEW j \in Client \cup Worker, Adds(call[j]), call[j].pc = "bft",
             call[j].newest # Genesis
      PROVE  sbm'[call[j].leader][Previous(call[j].newest)] = <<>>
  <2>1. ExtendsEnd(call[j], sbm)
    BY <1>3, Zenon DEF ChainInv, IInv, CallUndisturbed
  <2> QED
    BY <1>3, <2>1, Zenon DEF ExtendsEnd
<1>4. genesis'
  <2>1. k \in DOMAIN call
    BY DEF IInv
  <2> QED
    BY <2>1, Zenon DEF ChainInv
<1>5. {k} \in SUBSET (Client \cup Worker) /\ CallUndisturbed(k, call'[k], sbm', InWork')
  BY <1>1, Zenon
<1>6. \A j \in {k} : CallUndisturbed(j, call'[j], sbm', InWork')
  BY <1>5, Zenon
<1>7. /\ \A x \in InWork : x \in InWork' \/ Settled(x, sbm')
      /\ \A m \in fwdSigs' \ fwdSigs : m.newest # Genesis /\ Known(m.newest, sbm', InWork')
      /\ \A m \in replies' \ replies : KnownLinks(m.sb, m.links, sbm', InWork')
      /\ \A b \in acked' \ acked : Settled(b, sbm')
  BY <1>1, Zenon
<1> QED
  BY <1>1, <1>2, <1>3, <1>4, <1>5, <1>6, <1>7, ChainStep, ZenonT(30)

-----------------------------------------------------------------------------
(* A vote changes nothing but itself, and is not lost. *)
LEMMA VerifyChain ==
    ASSUME IInv, IInv', ChainInv, MapsGrow, NEW k \in Client \cup Worker,
           NEW q \in Server, Verify(k, q)
    PROVE  ChainInv'
<1> DEFINE v == IF Accepts(q, call[k]) THEN "accept" ELSE "refuse"
           c == [call[k] EXCEPT !.vote[q] = v]
<1>1. call[k] \in BFTCall /\ call[k].pc = "bft" /\ call[k] # NoCall
  BY CallTypes DEF Verify, NoCall
<1>2. /\ OnlyCall(k, c) /\ sbm' = sbm /\ genesis' = genesis
      /\ fwdSigs' = fwdSigs /\ replies' = replies /\ acked' = acked
  BY OnlyCallFacts, Zenon DEF Verify
<1>3. v # "lost"
  OBVIOUS
<1> HIDE DEF v
<1>4. /\ c.pc = "bft" /\ c.level = call[k].level /\ c.leader = call[k].leader
      /\ c.newest = call[k].newest
      /\ c.vote = [call[k].vote EXCEPT ![q] = v]
  BY <1>1 DEF BFTCall
<1> HIDE DEF c
<1>5. CallUndisturbed(k, call[k], sbm, InWork)
  BY Zenon DEF ChainInv, IInv
<1>6. \A p \in Server : c.vote[p] # "lost"
  <2>1. call[k].vote \in [Server -> {"none", "accept", "refuse", "lost"}]
    BY <1>1, Zenon DEF BFTCall
  <2>2. \A p \in Server : call[k].vote[p] # "lost"
    BY <1>1, <1>5, Zenon DEF CallUndisturbed
  <2> QED
    BY <1>3, <1>4, <2>1, <2>2, Zenon
<1>7. Adds(c) <=> Adds(call[k])
  BY <1>1, <1>4, Zenon DEF Adds
<1>8. ExtendsEnd(c, sbm) <=> ExtendsEnd(call[k], sbm)
  BY <1>1, <1>4, Zenon DEF ExtendsEnd
<1>9. SendsNewest(c)
  BY <1>4, Zenon DEF SendsNewest
<1>10. CallUndisturbed(k, c, sbm, InWork)
  BY <1>1, <1>4, <1>5, <1>6, <1>7, <1>8, <1>9, Zenon DEF CallUndisturbed
<1>11. ~Working(c) /\ ~Working(call[k])
  BY <1>1, <1>4, Zenon DEF Working
<1> QED
  BY <1>1, <1>2, <1>7, <1>10, <1>11, QuietStep, ZenonT(30)

(* A call that has ended asks for nothing. *)
LEMMA IdleUndisturbed ==
    ASSUME NEW k, NEW maps, NEW work
    PROVE  CallUndisturbed(k, NoCall, maps, work)
BY IdleAddsNot DEF CallUndisturbed, NoCall

(* A round that ends without a signature. *)
LEMMA NoSignatureChain ==
    ASSUME IInv, IInv', ChainInv, MapsGrow, NEW k \in Client \cup Worker,
           call[k].pc = "bft", OnlyCall(k, NoCall),
           UNCHANGED <<genesis, sbm, fwdSigs, replies, acked>>
    PROVE  ChainInv'
<1>1. call[k] # NoCall /\ ~Working(call[k])
  BY DEF NoCall, Working
<1> QED
  BY <1>1, IdleAddsNot, IdleUndisturbed, QuietStep, ZenonT(30)

(* A handler that begins to sign a higher link of a known block. *)
LEMMA ForwardSignatureChain ==
    ASSUME IInv, IInv', ChainInv, MapsGrow, NEW k \in Worker, NEW m \in fwdSigs,
           ForwardSignature(k, m)
    PROVE  ChainInv'
<1> DEFINE c == IF BackLinkID(m.newest, m.level) \in DOMAIN sbm[m.to]
                THEN [pc |-> "bft", leader |-> m.to, level |-> m.level,
                      newest |-> m.newest, link |-> m.link,
                      vote |-> [q \in Server |-> "none"]]
                ELSE NoCall
<1>1. /\ call[k] = NoCall /\ sbm' = sbm /\ genesis' = genesis
      /\ fwdSigs' \subseteq fwdSigs /\ replies' = replies /\ acked' = acked
  BY Zenon DEF ForwardSignature
<1>2. OnlyCall(k, c)
  <2>1. CASE BackLinkID(m.newest, m.level) \in DOMAIN sbm[m.to]
    <3>1. call' = [call EXCEPT ![k] = c]
      BY <2>1, Zenon DEF ForwardSignature, StartBFT
    <3> QED
      BY <3>1, OnlyCallFacts, Zenon
  <2>2. CASE BackLinkID(m.newest, m.level) \notin DOMAIN sbm[m.to]
    <3>1. call' = call /\ c = NoCall
      BY <2>2, Zenon DEF ForwardSignature
    <3> QED
      BY <1>1, <3>1, OnlyCallFacts, Zenon
  <2> QED
    BY <2>1, <2>2, Zenon
<1>3. m.level \in Nat /\ m.level # 0
  BY DEF IInv, ForwardOK
<1>4. ~Adds(c)
  BY <1>3, IdleAddsNot DEF Adds
<1>5. m.newest # Genesis /\ Known(m.newest, sbm, InWork)
  BY Zenon DEF ChainInv
<1>6. CallUndisturbed(k, c, sbm, InWork)
  <2>1. CASE BackLinkID(m.newest, m.level) \in DOMAIN sbm[m.to]
    BY <1>4, <1>5, <2>1, Zenon DEF CallUndisturbed
  <2>2. CASE BackLinkID(m.newest, m.level) \notin DOMAIN sbm[m.to]
    BY <2>2, IdleUndisturbed, Zenon
  <2> QED
    BY <2>1, <2>2, Zenon
<1> HIDE DEF c
<1>7. ~Working(c) /\ ~Working(call[k]) /\ fwdSigs # {}
  BY <1>1, <1>4, IdleAddsNot, Zenon DEF Working
<1> QED
  BY <1>1, <1>2, <1>4, <1>6, <1>7, QuietStep, ZenonT(30)

(* The call that has its signature asks for higher links of its block.     *)
LEMMA RequestHigherLinksChain ==
    ASSUME IInv, IInv', ChainInv, MapsGrow, NEW k \in Client \cup Worker,
           RequestHigherLinks(k), UNCHANGED scenario
    PROVE  ChainInv'
<1> DEFINE o == call[k]
           head == <<Previous(o.newest), o.newest>>
<1>1. o \in SignedCall /\ o.pc = "signed" /\ o # NoCall
  BY CallTypes DEF RequestHigherLinks, NoCall
<1>2. Adds(o) /\ Working(o) /\ o.newest \in Block /\ o.leader \in Server
  BY <1>1 DEF Adds, Working, SignedCall
<1>3. /\ sbm' = sbm /\ genesis' = genesis /\ replies' = replies /\ acked' = acked
  BY Zenon DEF RequestHigherLinks
<1>4. \A m \in fwdSigs' \ fwdSigs : m.newest = o.newest
  <2> DEFINE request(to, h) == [to |-> to[h], level |-> h, newest |-> o.newest,
                                link |-> sbm[o.leader][Previous(o.newest)][1]]
  <2>1. PICK sent : \E to \in [sent -> Server] :
          fwdSigs' = fwdSigs \cup {request(to, h) : h \in sent}
    BY Zenon DEF RequestHigherLinks
  <2>2. \A to, h : request(to, h).newest = o.newest
    BY Zenon
  <2> HIDE DEF request
  <2> QED
    BY <2>1, <2>2, Zenon
<1>5. PICK tail \in Seq(Block) : call' = [call EXCEPT ![k] =
                    [pc |-> "changed", leader |-> o.leader, level |-> 0,
                     newest |-> o.newest, changed |-> head \o tail]]
  BY RequestHigherLinksKeeps
<1> DEFINE c == [pc |-> "changed", leader |-> o.leader, level |-> 0,
                 newest |-> o.newest, changed |-> head \o tail]
<1>6. OnlyCall(k, c)
  BY <1>5, OnlyCallFacts, Zenon
<1>7. CallUndisturbed(k, o, sbm, InWork)
  BY Zenon DEF ChainInv, IInv
<1>8. /\ Adds(c) /\ Working(c) /\ c.newest = o.newest /\ c.pc = "changed"
      /\ c.changed = head \o tail /\ c.leader = o.leader
  BY Zenon DEF Adds, Working
<1>9. ExtendsEnd(c, sbm)
  BY <1>1, <1>2, <1>7, <1>8, Zenon DEF CallUndisturbed, ExtendsEnd
<1>10. o.newest \in Range(head \o tail) /\ Previous(o.newest) \in Range(head \o tail)
  <2>1. head \in Seq({Previous(o.newest), o.newest}) /\ Len(head) = 2
    OBVIOUS
  <2>2. {1, 2} \subseteq DOMAIN (head \o tail)
    BY <2>1
  <2>3. (head \o tail)[1] = Previous(o.newest) /\ (head \o tail)[2] = o.newest
    OBVIOUS
  <2> QED
    BY <2>2, <2>3 DEF Range
<1>11. k \in Client
  BY <1>2, <1>7, Zenon DEF CallUndisturbed
<1> HIDE DEF c, head
<1>12. CallUndisturbed(k, c, sbm, InWork)
  BY <1>8, <1>9, <1>10, <1>11, Zenon DEF CallUndisturbed, SendsNewest
<1>13. o.newest \in InWork /\ o.newest # Genesis
  <2>1. o.newest \in InWork
    BY <1>2, Zenon DEF InWork, IInv
  <2>2. o.newest # Genesis
    BY <1>1, CallTypes DEF SignedOK, KnowsBackLinks
  <2> QED
    BY <2>1, <2>2, Zenon
<1>14. \A m \in fwdSigs' \ fwdSigs : m.newest # Genesis /\ Known(m.newest, sbm, InWork)
  BY <1>4, <1>13, Zenon DEF Known
<1> QED
  BY <1>1, <1>2, <1>3, <1>6, <1>8, <1>12, <1>14, QuietStep, ZenonT(30)

(* What is sent to the servers are links the leader holds. *)
LEMMA StartPropagationChain ==
    ASSUME IInv, IInv', ChainInv, MapsGrow, NEW k \in Client \cup Worker,
           StartPropagation(k)
    PROVE  ChainInv'
<1> DEFINE o == call[k]
           links(b) == IF b \in (IF o.level = 0 THEN {o.newest} ELSE {})
                       THEN <<>> ELSE sbm[o.leader][b]
           sent == [i \in DOMAIN o.changed |-> <<o.changed[i], links(o.changed[i])>>]
           c == [pc |-> "propagate", leader |-> o.leader, level |-> o.level,
                 newest |-> o.newest, sent |-> sent,
                 stored |-> [q \in Server |-> 0]]
<1>1. o \in ChangedCall /\ ChangedOK(o, sbm) /\ o.pc = "changed" /\ o # NoCall
  BY CallTypes DEF StartPropagation, NoCall
<1>2. /\ o.leader \in Server /\ o.newest \in Block /\ o.level \in Nat
      /\ o.changed \in Seq(Block)
  BY <1>1 DEF ChangedCall
<1>3. /\ sbm' = sbm /\ genesis' = genesis /\ fwdSigs' = fwdSigs
      /\ replies' = replies /\ acked' = acked
  BY Zenon DEF StartPropagation
<1>4. OnlyCall(k, c)
  <2>1. call' = [call EXCEPT ![k] = c]
    BY DEF StartPropagation
  <2> HIDE DEF c
  <2> QED
    BY <2>1, OnlyCallFacts, Zenon
<1>5. CallUndisturbed(k, o, sbm, InWork)
  BY Zenon DEF ChainInv, IInv
<1>6. o.level = 0 => o.newest \in InWork /\ Adds(o) /\ Working(o)
  <2>1. o.level = 0 => Adds(o) /\ Working(o)
    BY <1>1 DEF Adds, Working
  <2> QED
    BY <2>1, Zenon DEF InWork, IInv
<1>7. ASSUME NEW i \in DOMAIN o.changed
      PROVE  KnownLinks(o.changed[i], links(o.changed[i]), sbm, InWork)
  <2>1. CASE o.level = 0 /\ o.changed[i] = o.newest
    <3>1. links(o.changed[i]) = <<>> /\ Known(o.changed[i], sbm, InWork)
      BY <1>6, <2>1, Zenon DEF Known
    <3> HIDE DEF links
    <3> QED
      BY <3>1 DEF KnownLinks
  <2>2. CASE ~(o.level = 0 /\ o.changed[i] = o.newest)
    <3>1. /\ o.changed[i] \in DOMAIN sbm[o.leader]
          /\ links(o.changed[i]) = sbm[o.leader][o.changed[i]]
      BY <1>1, <2>2, Zenon DEF ChangedOK
    <3> HIDE DEF links
    <3> QED
      BY <1>2, <3>1, Zenon DEF ChainInv, MapsKnown
  <2> QED
    BY <2>1, <2>2, Zenon
<1>8. o.level = 0 /\ o.newest # Genesis =>
        links(Previous(o.newest)) # <<>> /\ Previous(o.newest) # o.newest
  <2> SUFFICES ASSUME o.level = 0, o.newest # Genesis
               PROVE  links(Previous(o.newest)) # <<>> /\ Previous(o.newest) # o.newest
    BY Zenon
  <2>1. Len(Previous(o.newest)) = Len(o.newest) - 1 /\ Len(o.newest) \in Nat
    BY <1>2, PreviousFacts, Zenon
  <2>2. Previous(o.newest) # o.newest
    BY <2>1
  <2>3. sbm[o.leader][Previous(o.newest)] # <<>>
    BY <1>1, <1>5, <1>6, Zenon DEF CallUndisturbed, ExtendsEnd
  <2> QED
    BY <2>2, <2>3
<1> HIDE DEF links
<1>9. /\ sent \in Seq(Block \X {links(b) : b \in Block})
      /\ DOMAIN sent = DOMAIN o.changed
      /\ \A i \in DOMAIN o.changed :
           sent[i][1] = o.changed[i] /\ sent[i][2] = links(o.changed[i])
  BY <1>2
<1> HIDE DEF sent
<1>10. /\ c.pc = "propagate" /\ c.leader = o.leader /\ c.newest = o.newest
       /\ c.level = o.level /\ c.sent = sent /\ \A q \in Server : c.stored[q] = 0
  OBVIOUS
<1> HIDE DEF c
<1>11. Delivers(c, sbm, InWork)
  <2>1. \A i \in DOMAIN c.sent : KnownLinks(c.sent[i][1], c.sent[i][2], sbm, InWork)
    BY <1>7, <1>9, <1>10, Zenon
  <2>2. \A q \in Server : c.stored[q] \in 0..Len(c.sent) /\ 1..c.stored[q] = {}
    BY <1>9, <1>10
  <2> QED
    BY <1>2, <1>10, <2>1, <2>2, Zenon DEF Delivers
<1>12. Adds(c) <=> Adds(o)
  BY <1>1, <1>10, Zenon DEF Adds
<1>13. Working(c) <=> Working(o)
  BY <1>1, <1>10, <1>12, Zenon DEF Working
<1>14. ASSUME Adds(c) PROVE k \in Client /\ ExtendsEnd(c, sbm) /\ SendsNewest(c)
  <2>1. o.level = 0
    BY <1>1, <1>12, <1>14, Zenon DEF Adds
  <2>2. k \in Client /\ ExtendsEnd(o, sbm) /\ SendsNewest(o)
    BY <1>5, <1>12, <1>14, Zenon DEF CallUndisturbed
  <2>3. ExtendsEnd(c, sbm)
    BY <1>1, <1>10, <2>2, Zenon DEF ExtendsEnd
  <2>4. /\ \E i \in DOMAIN o.changed : o.changed[i] = o.newest
        /\ o.newest # Genesis =>
             \E i \in DOMAIN o.changed : o.changed[i] = Previous(o.newest)
    BY <1>1, <2>2 DEF SendsNewest, Range
  <2>5. \E i \in DOMAIN sent : sent[i][1] = o.newest
    BY <1>9, <2>4, Zenon
  <2>6. o.newest # Genesis =>
          \E i \in DOMAIN sent : sent[i][1] = Previous(o.newest) /\ sent[i][2] # <<>>
    BY <1>8, <1>9, <2>1, <2>4, Zenon
  <2>7. SendsNewest(c)
    BY <1>10, <2>5, <2>6, Zenon DEF SendsNewest
  <2> QED
    BY <2>2, <2>3, <2>7, Zenon
<1>15. CallUndisturbed(k, c, sbm, InWork)
  BY <1>10, <1>11, <1>14, Zenon DEF CallUndisturbed
<1> QED
  BY <1>1, <1>3, <1>4, <1>10, <1>12, <1>13, <1>15, QuietStep, ZenonT(30)

(* A known block is stored with links that are known. *)
LEMMA StoreKnown ==
    ASSUME IInv, ChainInv, NEW q \in Server, NEW sb \in Block, NEW links \in Seq(Block),
           KnownLinks(sb, links, sbm, InWork),
           sbm' = [sbm EXCEPT ![q] = Store(@, sb, links)]
    PROVE  /\ MapsKnown(sbm', sbm, InWork)
           /\ sb \in DOMAIN sbm'[q] /\ Len(sbm'[q][sb]) >= Len(links)
<1> DEFINE map == sbm[q]
           new == Store(map, sb, links)
<1>1. /\ sbm'[q] = new /\ \A s \in Server : s # q => sbm'[s] = sbm[s]
  BY Zenon DEF IInv, MapsOK
<1>2. /\ DOMAIN new = DOMAIN map \cup {sb}
      /\ \A b \in DOMAIN map : b # sb => new[b] = map[b]
      /\ sb \notin DOMAIN map => new[sb] = links
      /\ sb \in DOMAIN map =>
           new[sb] = map[sb] \o SubSeq(links, Len(map[sb]) + 1, Len(links))
  BY Zenon DEF Store
<1> HIDE DEF new
<1>3. \A b \in DOMAIN map : map[b] \in Seq(Block) /\ KnownLinks(b, map[b], sbm, InWork)
  BY Zenon DEF IInv, MapsOK, IsSkipBlockMap, ChainInv, MapsKnown
<1>4. KnownLinks(sb, new[sb], sbm, InWork) /\ Len(new[sb]) >= Len(links)
  <2>1. CASE sb \in DOMAIN map
    <3>1. map[sb] \in Seq(Block) /\ KnownLinks(sb, map[sb], sbm, InWork)
      BY <1>3, <2>1, Zenon
    <3> HIDE DEF map
    <3> QED
      BY <1>2, <2>1, <3>1, KnownLinksJoined, Zenon
  <2>2. CASE sb \notin DOMAIN map
    BY <1>2, <2>2
  <2> QED
    BY <2>1, <2>2, Zenon
<1>5. \A b \in DOMAIN new : KnownLinks(b, new[b], sbm, InWork)
  BY <1>2, <1>3, <1>4, Zenon
<1>6. MapsKnown(sbm', sbm, InWork)
  BY <1>1, <1>5, Zenon DEF MapsKnown, ChainInv
<1> QED
  BY <1>1, <1>2, <1>4, <1>6, Zenon

(* What was known before a step that keeps the blocks in work is known     *)
(* after it.                                                               *)
LEMMA MapsKnownKept ==
    ASSUME IInv, IInv', MapsGrow, MapsKnown(sbm', sbm, InWork), InWork' = InWork
    PROVE  MapsKnown(sbm', sbm', InWork')
<1>1. /\ MapsOf(sbm) /\ AllGrow(sbm, sbm')
      /\ \A s \in Server : \A b \in DOMAIN sbm'[s] : b \in Block /\ sbm'[s][b] \in Seq(Block)
  BY Zenon DEF IInv, MapsOK, MapsOf, MapsGrow, AllGrow, IsSkipBlockMap
<1>2. \A b \in Block, links \in Seq(Block) :
        KnownLinks(b, links, sbm, InWork) => KnownLinks(b, links, sbm', InWork')
  BY <1>1, KnownKept, Zenon
<1> QED
  BY <1>1, <1>2, Zenon DEF MapsKnown

(* A block of a propagation arrives. *)
LEMMA PropagateSkipBlockChain ==
    ASSUME IInv, IInv', ChainInv, MapsGrow, NEW k \in Client \cup Worker,
           NEW q \in Server, PropagateSkipBlock(k, q)
    PROVE  ChainInv'
<1> DEFINE o == call[k]
           c == [o EXCEPT !.stored[q] = @ + 1]
           n == o.stored[q] + 1
<1>1. o \in PropagateCall /\ PropagateOK(o) /\ o.pc = "propagate" /\ o # NoCall
  BY CallTypes DEF PropagateSkipBlock, NoCall
<1>2. /\ o.stored[q] \in 0..(Len(o.sent) - 1)
      /\ sbm' = [sbm EXCEPT ![q] = Store(@, o.sent[n][1], o.sent[n][2])]
      /\ genesis' = genesis /\ fwdSigs' = fwdSigs /\ replies' = replies /\ acked' = acked
  BY Zenon DEF PropagateSkipBlock
<1>3. OnlyCall(k, c)
  <2>1. call' = [call EXCEPT ![k] = c]
    BY DEF PropagateSkipBlock
  <2> HIDE DEF c
  <2> QED
    BY <2>1, OnlyCallFacts, Zenon
<1>4. /\ c.pc = "propagate" /\ c.newest = o.newest /\ c.leader = o.leader
      /\ c.level = o.level /\ c.sent = o.sent
      /\ c.stored = [o.stored EXCEPT ![q] = n]
  BY <1>1 DEF PropagateCall
<1> HIDE DEF c
<1>5. /\ o.sent \in Seq(Block \X Seq(Block)) /\ o.stored \in [Server -> Int]
      /\ o.newest \in Block
  BY <1>1, Zenon DEF PropagateCall
<1>6. n \in DOMAIN o.sent /\ n \in 0..Len(o.sent)
  BY <1>2, <1>5, NextSent, Zenon
<1>7. o.sent[n][1] \in Block /\ o.sent[n][2] \in Seq(Block)
  BY <1>2, <1>5, NextSent, Zenon
<1>8. CallUndisturbed(k, o, sbm, InWork) /\ Delivers(o, sbm, InWork)
  BY <1>1, Zenon DEF ChainInv, IInv, CallUndisturbed
<1>9. /\ MapsKnown(sbm', sbm, InWork)
      /\ o.sent[n][1] \in DOMAIN sbm'[q]
      /\ Len(sbm'[q][o.sent[n][1]]) >= Len(o.sent[n][2])
  <2>1. KnownLinks(o.sent[n][1], o.sent[n][2], sbm, InWork)
    BY <1>6, <1>8, Zenon DEF Delivers
  <2> HIDE DEF n
  <2> QED
    BY <1>2, <1>7, <2>1, StoreKnown, Zenon
<1>10. (Adds(c) <=> Adds(o)) /\ (Working(c) <=> Working(o))
  BY <1>1, <1>4 DEF Adds, Working
<1>11. /\ OneAdds' /\ InWork' = InWork /\ call'[k] = c
       /\ \A j \in Client \cup Worker : j \notin {k} => call'[j] = call[j]
  BY <1>3, <1>4, <1>10, SameWork, Zenon
<1>12. MapsKnown(sbm', sbm', InWork')
  BY <1>9, <1>11, MapsKnownKept, ZenonT(30)
<1>13. MapsOf(sbm) /\ MapsOf(sbm') /\ AllGrow(sbm, sbm')
  BY Zenon DEF IInv, MapsOK, MapsOf, MapsGrow, AllGrow
<1>14. Delivers(o, sbm', InWork)
  BY <1>1, <1>8, <1>13, DeliversKept, Zenon
<1>15. Delivers(c, sbm', InWork')
  <2>1. ASSUME NEW p \in Server
        PROVE  /\ c.stored[p] \in 0..Len(c.sent)
               /\ \A i \in 1..c.stored[p] :
                    /\ c.sent[i][1] \in DOMAIN sbm'[p]
                    /\ Len(sbm'[p][c.sent[i][1]]) >= Len(c.sent[i][2])
    <3>1. CASE p # q
      <4>1. c.stored[p] = o.stored[p]
        BY <1>4, <1>5, <3>1, Zenon
      <4> QED
        BY <1>4, <1>14, <4>1, Zenon DEF Delivers
    <3>2. CASE p = q
      <4>1. c.stored[q] = n
        BY <1>4, <1>5, Zenon
      <4>2. ASSUME NEW i \in 1..n
            PROVE  /\ c.sent[i][1] \in DOMAIN sbm'[q]
                   /\ Len(sbm'[q][c.sent[i][1]]) >= Len(c.sent[i][2])
        <5>1. i = n \/ i \in 1..o.stored[q]
          BY <1>2
        <5> HIDE DEF n
        <5> QED
          BY <1>4, <1>9, <1>14, <5>1, Zenon DEF Delivers
      <4> HIDE DEF n
      <4> QED
        BY <1>4, <1>6, <3>2, <4>1, <4>2, Zenon
    <3> QED
      BY <3>1, <3>2, SMTT(20)
  <2> QED
    BY <1>4, <1>11, <1>14, <2>1, Zenon DEF Delivers
<1>16. ASSUME Adds(c) PROVE k \in Client /\ ExtendsEnd(c, sbm') /\ SendsNewest(c)
  <2>1. k \in Client /\ ExtendsEnd(o, sbm) /\ SendsNewest(o)
    BY <1>8, <1>10, <1>16, Zenon DEF CallUndisturbed
  <2>2. ExtendsEnd(c, sbm) /\ SendsNewest(c)
    BY <1>1, <1>4, <2>1, Zenon DEF ExtendsEnd, SendsNewest
  <2>3. c.leader \in Server /\ c.pc # "bft" /\ c.newest \in Block
    BY <1>4, <1>5, <1>8, Zenon DEF Delivers
  <2> QED
    BY <1>13, <2>1, <2>2, <2>3, ExtendsEndKept, Zenon
<1>17. CallUndisturbed(k, call'[k], sbm', InWork')
  BY <1>4, <1>11, <1>15, <1>16, Zenon DEF CallUndisturbed
<1>18. /\ {k} \in SUBSET (Client \cup Worker) /\ genesis'
       /\ \A j \in {k} : CallUndisturbed(j, call'[j], sbm', InWork')
       /\ \A x \in InWork : x \in InWork' \/ Settled(x, sbm')
  BY <1>1, <1>2, <1>11, <1>17, Zenon DEF ChainInv, IInv
<1>19. \A j \in Client \cup Worker :
         Adds(call[j]) /\ call[j].pc = "bft" /\ call[j].newest # Genesis =>
           sbm'[call[j].leader][Previous(call[j].newest)] = <<>>
  BY <1>9, EndStays, Zenon DEF IInv
<1> QED
  BY <1>2, <1>11, <1>12, <1>18, <1>19, ChainStep, ZenonT(30)

(* A reply is stored. *)
LEMMA GetBlockReplyChain ==
    ASSUME IInv, IInv', ChainInv, MapsGrow, NEW m \in replies, GetBlockReply(m)
    PROVE  ChainInv'
<1>1. m.to \in Server /\ m.sb \in Block /\ m.links \in Seq(Block)
  BY DEF IInv, ReplyOK
<1>2. /\ sbm' = [sbm EXCEPT ![m.to] = Store(@, m.sb, m.links)]
      /\ genesis' = genesis /\ fwdSigs' = fwdSigs /\ replies' \subseteq replies
      /\ acked' = acked /\ call' = call
  BY Zenon DEF GetBlockReply
<1>3. MapsKnown(sbm', sbm, InWork)
  BY <1>1, <1>2, StoreKnown, Zenon DEF ChainInv
<1>4. OneAdds' /\ InWork' = InWork /\ genesis'
  BY <1>2, Zenon DEF ChainInv, OneAdds, InWork
<1>5. MapsKnown(sbm', sbm', InWork')
  BY <1>3, <1>4, MapsKnownKept, Zenon
<1>6. \A j \in Client \cup Worker :
         Adds(call[j]) /\ call[j].pc = "bft" /\ call[j].newest # Genesis =>
           sbm'[call[j].leader][Previous(call[j].newest)] = <<>>
  BY <1>3, EndStays, Zenon DEF IInv
<1>7. {} \in SUBSET (Client \cup Worker)
  OBVIOUS
<1> QED
  BY <1>2, <1>4, <1>5, <1>6, <1>7, ChainStep, ZenonT(30)

(* The block a call adds is settled when all servers have stored what was  *)
(* sent: each of them has the block, and for the one before it a first     *)
(* link that can only be the new one.                                      *)
LEMMA DeliveredSettles ==
    ASSUME IInv, ChainInv, NEW k \in Client \cup Worker, call[k].pc = "propagate",
           Adds(call[k]), \A q \in Server : call[k].stored[q] = Len(call[k].sent)
    PROVE  Settled(call[k].newest, sbm)
<1> DEFINE c == call[k]
           t == c.newest
           p == Previous(t)
<1>1. /\ c.leader \in Server /\ t \in Block /\ c.sent \in Seq(Block \X Seq(Block))
      /\ DOMAIN call = Client \cup Worker
  BY CallTypes, Zenon DEF PropagateCall, ChainInv, CallUndisturbed, Delivers, IInv
<1>2. ExtendsEnd(c, sbm) /\ SendsNewest(c) /\ Delivers(c, sbm, InWork)
  BY <1>1, Zenon DEF ChainInv, CallUndisturbed
<1>3. ASSUME NEW q \in Server, NEW i \in DOMAIN c.sent
      PROVE  /\ c.sent[i][1] \in DOMAIN sbm[q]
             /\ Len(sbm[q][c.sent[i][1]]) >= Len(c.sent[i][2])
             /\ c.sent[i][2] \in Seq(Block)
  <2>1. i \in 1..c.stored[q]
    BY <1>1
  <2> QED
    BY <1>1, <1>2, <2>1 DEF Delivers
<1>4. ASSUME NEW q \in Server PROVE t \in DOMAIN sbm[q]
  BY <1>2, <1>3, Zenon DEF SendsNewest
<1>5. CASE t = Genesis
  <2>1. Len(t) = 0 /\ SubSeq(t, 1, 0) = t
    BY <1>5 DEF Genesis
  <2> HIDE DEF t
  <2>2. 0..Len(t) = {0} /\ 0..(Len(t) - 1) = {}
    BY <2>1
  <2> QED
    BY <1>4, <2>1, <2>2, Zenon DEF Settled, t
<1>6. CASE t # Genesis
  <2>1. /\ p \in Block /\ Len(p) = Len(t) - 1 /\ p = SubSeq(t, 1, Len(p))
        /\ Len(t) \in Nat \ {0} /\ t \in Seq(Data)
    BY <1>1, <1>6, PreviousFacts, BlockFacts, Zenon
  <2>2. /\ Settled(p, sbm) /\ sbm[c.leader][p] # <<>> /\ sbm[c.leader][p][1] = t
    BY <1>2, <1>6, Zenon DEF ExtendsEnd
  <2>3. ASSUME NEW q \in Server
        PROVE  p \in DOMAIN sbm[q] /\ sbm[q][p] # <<>> /\ sbm[q][p][1] = t
    <3> DEFINE links == sbm[q][p]
    <3>1. PICK i \in DOMAIN c.sent : c.sent[i][1] = p /\ c.sent[i][2] # <<>>
      BY <1>2, <1>6, Zenon DEF SendsNewest
    <3>2. /\ p \in DOMAIN sbm[q] /\ Len(links) >= Len(c.sent[i][2])
          /\ c.sent[i][2] \in Seq(Block)
      BY <1>3, <3>1, Zenon
    <3>3. /\ links \in Seq(Block) /\ links \in LinkList(p)
          /\ KnownLinks(p, links, sbm, InWork)
      BY <3>2, Zenon DEF IInv, MapsOK, IsSkipBlockMap, ChainInv, MapsKnown
    <3> HIDE DEF links
    <3>4. links # <<>> /\ 1 \in DOMAIN links /\ links[1] \in Block
      BY <3>1, <3>2, <3>3
    <3>5. /\ links[1] # Genesis /\ Known(links[1], sbm, InWork) /\ Fits(p, links[1])
          /\ Len(links[1]) = Len(p) + 1
      BY <3>3, <3>4, Zenon DEF KnownLinks, LinkList
    <3>6. CASE Settled(links[1], sbm)
      <4>1. Len(p) \in 0..(Len(links[1]) - 1) /\ p = SubSeq(links[1], 1, Len(p))
        BY <3>4, <3>5, FitsFacts, Zenon
      <4>2. sbm[c.leader][p][1] = SubSeq(links[1], 1, Len(p) + 1)
        <5>1. Len(p) \in 0..(Len(links[1]) - 1)
          BY <4>1, Zenon
        <5>2. sbm[c.leader][SubSeq(links[1], 1, Len(p))][1]
                = SubSeq(links[1], 1, Len(p) + 1)
          BY <1>1, <3>6, <5>1, Zenon DEF Settled
        <5> QED
          BY <4>1, <5>2, ZenonT(30)
      <4>3. SubSeq(links[1], 1, Len(links[1])) = links[1]
        <5>1. links[1] \in Seq(Data)
          BY <3>4, BlockFacts
        <5> QED
          BY <5>1
      <4> QED
        BY <2>2, <3>2, <3>4, <3>5, <4>2, <4>3, Zenon DEF links
    <3>7. CASE links[1] \in InWork
      <4>1. PICK j \in DOMAIN call : Working(call[j]) /\ call[j].newest = links[1]
        BY <3>7 DEF InWork
      <4>2. j = k
        BY <1>1, <4>1, Zenon DEF ChainInv, OneAdds, Working
      <4> QED
        BY <3>2, <3>4, <4>1, <4>2 DEF links
    <3> QED
      BY <3>5, <3>6, <3>7, Zenon DEF Known
  <2>4. \A i \in 0..Len(p) : SubSeq(p, 1, i) = SubSeq(t, 1, i)
    <3>1. Len(p) \in 0..Len(t)
      BY <2>1
    <3>2. \A i \in 0..Len(p) : SubSeq(SubSeq(t, 1, Len(p)), 1, i) = SubSeq(t, 1, i)
      BY <1>1, <3>1, Prefixes, Zenon
    <3> QED
      BY <2>1, <3>2, Zenon
  <2>5. SubSeq(t, 1, Len(t)) = t
    BY <2>1
  <2> HIDE DEF t, p, c
  <2>6. ASSUME NEW q \in Server, NEW i \in 0..Len(t)
        PROVE  SubSeq(t, 1, i) \in DOMAIN sbm[q]
    <3>1. i = Len(t) \/ i \in 0..Len(p)
      BY <2>1
    <3> QED
      BY <1>4, <2>2, <2>4, <2>5, <3>1, Zenon DEF Settled
  <2>7. ASSUME NEW q \in Server, NEW i \in 0..(Len(t) - 1)
        PROVE  /\ sbm[q][SubSeq(t, 1, i)] # <<>>
               /\ sbm[q][SubSeq(t, 1, i)][1] = SubSeq(t, 1, i + 1)
    <3>1. CASE i = Len(p)
      <4>1. i + 1 = Len(t) /\ SubSeq(t, 1, i) = p
        BY <2>1, <3>1
      <4> QED
        BY <2>3, <2>5, <4>1, Zenon
    <3>2. CASE i # Len(p)
      <4>1. i \in 0..(Len(p) - 1) /\ i \in 0..Len(p) /\ i + 1 \in 0..Len(p)
        BY <2>1, <3>2
      <4> QED
        BY <2>2, <2>4, <4>1, Zenon DEF Settled
    <3> QED
      BY <3>1, <3>2, Zenon
  <2> QED
    BY <2>6, <2>7, Zenon DEF Settled, t, c
<1> QED
  BY <1>5, <1>6, Zenon

(* A propagation has ended; what a client is told of is settled. *)
LEMMA ReturnChain ==
    ASSUME IInv, IInv', ChainInv, MapsGrow, NEW k \in Client \cup Worker, Return(k)
    PROVE  ChainInv'
<1> DEFINE o == call[k]
<1>1. o \in PropagateCall /\ o.pc = "propagate" /\ o # NoCall
  BY CallTypes DEF Return, NoCall
<1>2. /\ sbm' = sbm /\ genesis' = genesis /\ fwdSigs' = fwdSigs /\ replies' = replies
      /\ \A q \in Server : o.stored[q] = Len(o.sent)
  BY Zenon DEF Return
<1>3. OnlyCall(k, NoCall)
  BY OnlyCallFacts, Zenon DEF Return
<1>4. CASE o.level # 0
  <2>1. ~Adds(o) /\ ~Working(o) /\ acked' = acked
    BY <1>1, <1>4, Zenon DEF Adds, Working, Return
  <2> QED
    BY <1>1, <1>2, <1>3, <2>1, IdleAddsNot, IdleUndisturbed, QuietStep, ZenonT(30)
<1>5. CASE o.level = 0
  <2>1. Adds(o) /\ Working(o) /\ acked' = acked \cup {o.newest}
    BY <1>1, <1>5, Zenon DEF Adds, Working, Return
  <2>2. Settled(o.newest, sbm)
    BY <1>1, <1>2, <2>1, DeliveredSettles, Zenon
  <2>3. /\ DOMAIN call = Client \cup Worker /\ DOMAIN call' = Client \cup Worker
        /\ call'[k] = NoCall
        /\ \A j \in Client \cup Worker : j # k => call'[j] = call[j]
    BY <1>3, Zenon DEF IInv, OnlyCall
  <2>4. ASSUME NEW j \in Client \cup Worker PROVE ~Adds(call'[j])
    BY <2>1, <2>3, IdleAddsNot, Zenon DEF ChainInv, OneAdds
  <2>5. OneAdds'
    BY <2>3, <2>4, Zenon DEF OneAdds
  <2>6. ASSUME NEW x \in InWork PROVE Settled(x, sbm')
    <3>1. PICK j \in DOMAIN call : Working(call[j]) /\ x = call[j].newest
      BY <2>6, Zenon DEF InWork
    <3>2. j = k
      BY <2>1, <2>3, <3>1, Zenon DEF ChainInv, OneAdds, Working
    <3> QED
      BY <1>2, <2>2, <3>1, <3>2, Zenon
  <2>7. MapsKnown(sbm', sbm', InWork')
    <3>1. /\ MapsOf(sbm) /\ AllGrow(sbm, sbm')
          /\ \A s \in Server : \A b \in DOMAIN sbm[s] : b \in Block /\ sbm[s][b] \in Seq(Block)
      BY Zenon DEF IInv, MapsOK, MapsOf, MapsGrow, AllGrow, IsSkipBlockMap
    <3>2. \A b \in Block, links \in Seq(Block) :
            KnownLinks(b, links, sbm, InWork) => KnownLinks(b, links, sbm', InWork')
      BY <2>6, <3>1, KnownKept, Zenon
    <3> QED
      BY <1>2, <3>1, <3>2, Zenon DEF ChainInv, MapsKnown
  <2>8. /\ {k} \in SUBSET (Client \cup Worker) /\ genesis'
        /\ \A j \in {k} : CallUndisturbed(j, call'[j], sbm', InWork')
        /\ \A j \in Client \cup Worker : j \notin {k} => call'[j] = call[j]
        /\ \A j \in Client \cup Worker : j \notin {k} => ~Adds(call[j])
        /\ \A b \in acked' \ acked : Settled(b, sbm')
    BY <1>1, <1>2, <2>1, <2>2, <2>3, <2>4, IdleUndisturbed, Zenon DEF ChainInv
  <2> QED
    BY <1>2, <2>5, <2>6, <2>7, <2>8, ChainStep, ZenonT(30)
<1> QED
  BY <1>4, <1>5, Zenon

(* Signing a link to a known block from a block that has no link yet: it   *)
(* is the link to the next block.                                          *)
LEMMA FirstIsNext ==
    ASSUME IInv, ChainInv, NEW t \in Block, t # Genesis, Known(t, sbm, InWork),
           NEW b, Fits(b, t), NEW s \in Server, sbm[s][b] = <<>>
    PROVE  Len(t) = Len(b) + 1
<1>1. Len(b) \in 0..(Len(t) - 1) /\ b = SubSeq(t, 1, Len(b)) /\ b \in Block
  BY FitsFacts, Zenon
<1>2. ~Settled(t, sbm)
  BY <1>1, SettledFirst
<1>3. PICK j \in DOMAIN call : Working(call[j]) /\ call[j].newest = t
  BY <1>2, Zenon DEF Known, InWork
<1> DEFINE p == Previous(t)
<1>4. Settled(p, sbm)
  BY <1>3, Zenon DEF ChainInv, CallUndisturbed, ExtendsEnd, Working
<1>5. p \in Block /\ p = SubSeq(t, 1, Len(p)) /\ Len(p) = Len(t) - 1 /\ Len(t) \in Nat
  BY PreviousFacts, Zenon
<1> SUFFICES ASSUME Len(b) # Len(t) - 1 PROVE FALSE
  BY <1>1, <1>5
<1> HIDE DEF p
<1>6. Len(b) \in 0..(Len(p) - 1) /\ Len(b) \in 0..Len(p) /\ Len(p) \in 0..Len(t)
  BY <1>1, <1>5
<1>7. SubSeq(SubSeq(t, 1, Len(p)), 1, Len(b)) = SubSeq(t, 1, Len(b))
  BY <1>6, Prefixes, Zenon
<1>8. b = SubSeq(p, 1, Len(b))
  BY <1>1, <1>5, <1>7, Zenon
<1>9. sbm[s][SubSeq(p, 1, Len(b))] # <<>>
  BY <1>4, <1>6, Zenon DEF Settled
<1> QED
  BY <1>8, <1>9, Zenon

(* The signature on the link to a new block. *)
LEMMA SignedChain ==
    ASSUME IInv, IInv', ChainInv, MapsGrow, NEW k \in Client \cup Worker, BFTDone(k),
           Cardinality({q \in Server : call[k].vote[q] = "refuse"}) < Threshold,
           call[k].level = 0
    PROVE  ChainInv'
<1> DEFINE c == call[k]
           t == c.newest
           p == Previous(t)
           d == [pc |-> "signed", leader |-> c.leader, newest |-> t]
<1>1. c \in BFTCall /\ BFTOK(c, sbm) /\ c.pc = "bft" /\ c # NoCall
  BY CallTypes DEF BFTDone, NoCall
<1>2. /\ t \in Block /\ t # Genesis /\ c.leader \in Server
      /\ BackLinkID(t, c.level) = p
      /\ DOMAIN call = Client \cup Worker /\ DOMAIN call' = Client \cup Worker
  BY <1>1, BackLinkIDFacts, Zenon DEF BFTCall, BFTOK, KnowsBackLinks, IInv
<1>3. /\ genesis' = genesis /\ fwdSigs' = fwdSigs /\ replies' = replies /\ acked' = acked
  BY Zenon DEF BFTDone
<1>4. OnlyCall(k, d)
  <2>1. call' = [call EXCEPT ![k] = d]
    BY Zenon DEF BFTDone
  <2> HIDE DEF d
  <2> QED
    BY <2>1, OnlyCallFacts, Zenon
<1>5. Adds(c) /\ ~Working(c) /\ CallUndisturbed(k, c, sbm, InWork)
  BY <1>1, <1>2, Zenon DEF Adds, Working, ChainInv
<1>6. k \in Client /\ Settled(p, sbm) /\ sbm[c.leader][p] = <<>>
  BY <1>1, <1>2, <1>5, Zenon DEF CallUndisturbed, ExtendsEnd
<1>7. /\ d.pc = "signed" /\ d.newest = t /\ d.leader = c.leader
      /\ Adds(d) /\ Working(d)
  BY DEF Adds, Working
<1> HIDE DEF d
<1>8. \A j \in Client \cup Worker : j # k => call'[j] = call[j] /\ ~Adds(call[j])
  BY <1>2, <1>4, <1>5, Zenon DEF OnlyCall, ChainInv, OneAdds
<1>9. OneAdds' /\ InWork = {} /\ t \in InWork'
  <2>1. OneAdds'
    BY <1>2, <1>8, Zenon DEF OneAdds
  <2>2. InWork = {}
    BY <1>2, <1>5, <1>8, Zenon DEF InWork, Working
  <2>3. t \in InWork'
    BY <1>2, <1>4, <1>7, Zenon DEF OnlyCall, InWork
  <2> QED
    BY <2>1, <2>2, <2>3, Zenon
<1>10. /\ sbm'[c.leader] = [sbm[c.leader] EXCEPT ![p] = Append(@, t)]
       /\ \A s \in Server : s # c.leader => sbm'[s] = sbm[s]
       /\ p \in DOMAIN sbm[c.leader]
  <2>1. /\ p \in DOMAIN sbm[c.leader]
        /\ sbm' = [sbm EXCEPT ![c.leader] = [sbm[c.leader] EXCEPT ![p] = Append(@, t)]]
    BY <1>2, SignedLink, Zenon
  <2> QED
    BY <1>2, <2>1, Zenon DEF IInv, MapsOK
<1>11. /\ sbm'[c.leader][p] = <<t>> /\ DOMAIN sbm'[c.leader] = DOMAIN sbm[c.leader]
       /\ \A b \in DOMAIN sbm[c.leader] : b # p => sbm'[c.leader][b] = sbm[c.leader][b]
  <2>1. Append(<<>>, t) = <<t>>
    OBVIOUS
  <2> QED
    BY <1>6, <1>10, <2>1, Zenon
<1>12. /\ MapsOf(sbm) /\ AllGrow(sbm, sbm')
       /\ \A s \in Server : \A b \in DOMAIN sbm[s] : b \in Block /\ sbm[s][b] \in Seq(Block)
  BY Zenon DEF IInv, MapsOK, MapsOf, MapsGrow, AllGrow, IsSkipBlockMap
<1>13. /\ \A b \in Block, links \in Seq(Block) :
            KnownLinks(b, links, sbm, InWork) => KnownLinks(b, links, sbm', InWork')
  BY <1>9, <1>12, KnownKept, Zenon
<1>14. \A s \in Server : \A b \in DOMAIN sbm[s] : KnownLinks(b, sbm[s][b], sbm', InWork')
  BY <1>12, <1>13, Zenon DEF ChainInv, MapsKnown
<1>15. /\ p \in Block /\ Len(t) = Len(p) + 1 /\ Settled(p, sbm')
  <2>1. p \in Block /\ Len(p) = Len(t) - 1 /\ Len(t) \in Nat
    BY <1>2, PreviousFacts, Zenon
  <2>2. Settled(p, sbm')
    BY <1>6, <1>12, <2>1, SettledKept, Zenon
  <2> QED
    BY <2>1, <2>2
<1> HIDE DEF p, t, c
<1>16. KnownLinks(p, <<t>>, sbm', InWork')
  BY <1>2, <1>9, <1>15 DEF KnownLinks, Known
<1>17. MapsKnown(sbm', sbm', InWork')
  BY <1>10, <1>11, <1>14, <1>16, Zenon DEF MapsKnown
<1>18. ExtendsEnd(d, sbm')
  BY <1>7, <1>11, <1>15 DEF ExtendsEnd, p
<1>19. CallUndisturbed(k, call'[k], sbm', InWork')
  BY <1>4, <1>6, <1>7, <1>18, Zenon DEF CallUndisturbed, SendsNewest, OnlyCall
<1>20. /\ {k} \in SUBSET (Client \cup Worker) /\ genesis'
       /\ \A j \in {k} : CallUndisturbed(j, call'[j], sbm', InWork')
       /\ \A x \in InWork : x \in InWork' \/ Settled(x, sbm')
  BY <1>1, <1>2, <1>3, <1>9, <1>19, Zenon DEF ChainInv, c
<1> QED
  BY <1>3, <1>8, <1>9, <1>17, <1>20, ChainStep, ZenonT(30)

(* The signature on a higher link. *)
LEMMA SignedHigherChain ==
    ASSUME IInv, IInv', ChainInv, MapsGrow, NEW k \in Client \cup Worker, BFTDone(k),
           Cardinality({q \in Server : call[k].vote[q] = "refuse"}) < Threshold,
           call[k].level # 0
    PROVE  ChainInv'
<1> DEFINE c == call[k]
           t == c.newest
           b == BackLinkID(t, c.level)
           l == c.leader
           d == [pc |-> "changed", leader |-> l, level |-> c.level,
                 newest |-> t, changed |-> <<b>>]
<1>1. c \in BFTCall /\ BFTOK(c, sbm) /\ c.pc = "bft" /\ c # NoCall
  BY CallTypes DEF BFTDone, NoCall
<1>2. /\ t \in Block /\ l \in Server /\ c.level \in Nat
      /\ DOMAIN call = Client \cup Worker /\ Fits(b, t)
  BY <1>1, Zenon DEF BFTCall, BFTOK, Fits, IInv
<1>3. /\ genesis' = genesis /\ fwdSigs' = fwdSigs /\ replies' = replies /\ acked' = acked
  BY Zenon DEF BFTDone
<1>4. OnlyCall(k, d)
  <2>1. call' = [call EXCEPT ![k] = d]
    BY Zenon DEF BFTDone, Change, Target
  <2> HIDE DEF d
  <2> QED
    BY <2>1, OnlyCallFacts, Zenon
<1>5. ~Adds(c) /\ ~Working(c) /\ ~Adds(d) /\ ~Working(d) /\ d.pc = "changed"
  BY <1>1, Zenon DEF Adds, Working
<1> HIDE DEF d
<1>6. t # Genesis /\ Known(t, sbm, InWork)
  <2>1. c.level > 0
    BY <1>2
  <2> QED
    BY <1>1, <1>2, <2>1, Zenon DEF ChainInv, CallUndisturbed
<1>7. /\ sbm'[l] = [sbm[l] EXCEPT ![b] = Append(@, t)]
      /\ \A s \in Server : s # l => sbm'[s] = sbm[s]
      /\ b \in DOMAIN sbm[l]
  <2>1. /\ b \in DOMAIN sbm[l]
        /\ sbm' = [sbm EXCEPT ![l] = [sbm[l] EXCEPT ![b] = Append(@, t)]]
    BY SignedLink, Zenon
  <2> QED
    BY <1>2, <2>1, Zenon DEF IInv, MapsOK
<1> HIDE DEF b, t, c, l
<1>8. /\ DOMAIN sbm'[l] = DOMAIN sbm[l]
      /\ \A x \in DOMAIN sbm[l] : x # b => sbm'[l][x] = sbm[l][x]
      /\ sbm'[l][b] = Append(sbm[l][b], t)
  BY <1>7, Zenon
<1>9. KnownLinks(b, Append(sbm[l][b], t), sbm, InWork)
  <2> DEFINE links == sbm[l][b]
             new == Append(links, t)
  <2>1. links \in Seq(Block) /\ KnownLinks(b, links, sbm, InWork)
    BY <1>2, <1>7, Zenon DEF IInv, MapsOK, IsSkipBlockMap, ChainInv, MapsKnown
  <2> HIDE DEF links
  <2>2. /\ DOMAIN new = 1..(Len(links) + 1) /\ DOMAIN links = 1..Len(links)
        /\ \A i \in 1..Len(links) : new[i] = links[i]
        /\ new[Len(links) + 1] = t
    BY <1>2, <2>1
  <2>3. links # <<>> => new[1] = links[1]
    BY <1>2, <2>1
  <2>4. links = <<>> => new[1] = t
    BY <2>2
  <2> HIDE DEF new
  <2>5. ASSUME NEW i \in DOMAIN new
        PROVE  new[i] # Genesis /\ Known(new[i], sbm, InWork)
    <3>1. i \in DOMAIN links \/ i = Len(links) + 1
      BY <2>1, <2>2
    <3> QED
      BY <1>6, <2>1, <2>2, <3>1, Zenon DEF KnownLinks
  <2>6. Len(new[1]) = Len(b) + 1
    <3>1. CASE links # <<>>
      BY <2>1, <2>3, <3>1, Zenon DEF KnownLinks
    <3>2. CASE links = <<>>
      <4>1. Len(t) = Len(b) + 1
        BY <1>2, <1>6, <3>2, FirstIsNext, Zenon DEF links
      <4> QED
        BY <2>4, <3>2, <4>1, Zenon
    <3> QED
      BY <3>1, <3>2, Zenon
  <2>7. KnownLinks(b, new, sbm, InWork)
    BY <2>1, <2>5, <2>6, Zenon DEF KnownLinks
  <2> QED
    BY <2>7, Zenon DEF new, links
<1>10. MapsKnown(sbm', sbm, InWork)
  BY <1>7, <1>8, <1>9, Zenon DEF MapsKnown, ChainInv
<1>11. /\ OneAdds' /\ InWork' = InWork /\ call'[k] = d
       /\ \A j \in Client \cup Worker : j \notin {k} => call'[j] = call[j]
  <2>1. ~Adds(call[k]) /\ ~Working(call[k])
    BY <1>5, Zenon DEF c
  <2> QED
    BY <1>4, <1>5, <2>1, SameWork, Zenon
<1>12. MapsKnown(sbm', sbm', InWork')
  BY <1>10, <1>11, MapsKnownKept, Zenon
<1>13. CallUndisturbed(k, call'[k], sbm', InWork')
  BY <1>5, <1>11, Zenon DEF CallUndisturbed
<1>14. /\ {k} \in SUBSET (Client \cup Worker) /\ genesis'
       /\ \A j \in {k} : CallUndisturbed(j, call'[j], sbm', InWork')
       /\ \A x \in InWork : x \in InWork' \/ Settled(x, sbm')
  BY <1>1, <1>2, <1>3, <1>11, <1>13, Zenon DEF ChainInv, c
<1>15. \A j \in Client \cup Worker :
         Adds(call[j]) /\ call[j].pc = "bft" /\ call[j].newest # Genesis =>
           sbm'[call[j].leader][Previous(call[j].newest)] = <<>>
  BY <1>10, EndStays, Zenon DEF IInv
<1> QED
  BY <1>3, <1>11, <1>12, <1>14, <1>15, ChainStep, ZenonT(30)

(* The end of a round. *)
LEMMA BFTDoneChain ==
    ASSUME IInv, IInv', ChainInv, MapsGrow, NEW k \in Client \cup Worker, BFTDone(k)
    PROVE  ChainInv'
<1>1. CASE Cardinality({q \in Server : call[k].vote[q] = "refuse"}) < Threshold
  BY <1>1, SignedChain, SignedHigherChain, Zenon
<1>2. CASE ~(Cardinality({q \in Server : call[k].vote[q] = "refuse"}) < Threshold)
  <2>1. /\ UNCHANGED <<genesis, sbm, fwdSigs, replies, acked>>
        /\ call' = [call EXCEPT ![k] = NoCall] /\ call[k].pc = "bft"
    BY <1>2, Zenon DEF BFTDone
  <2>2. OnlyCall(k, NoCall)
    BY <2>1, OnlyCallFacts, Zenon
  <2> QED
    BY <2>1, <2>2, NoSignatureChain, Zenon
<1> QED
  BY <1>1, <1>2, Zenon

(* The call that makes the genesis block. *)
LEMMA StoreGenesisChain ==
    ASSUME IInv, IInv', ChainInv, MapsGrow, NEW k \in Client, NEW s \in Server,
           StoreGenesis(k, s)
    PROVE  ChainInv'
<1> DEFINE d == [pc |-> "changed", leader |-> s, level |-> 0, newest |-> Genesis,
                 changed |-> <<Genesis>>]
<1>1. /\ ~genesis /\ genesis' /\ sbm' = sbm
      /\ fwdSigs' = fwdSigs /\ replies' = replies /\ acked' = acked
  BY Zenon DEF StoreGenesis
<1>2. /\ \A q \in Server : DOMAIN sbm'[q] = {}
      /\ \A j \in Client \cup Worker : call[j] = NoCall
      /\ DOMAIN call = Client \cup Worker /\ DOMAIN call' = Client \cup Worker
  BY <1>1, Zenon DEF ChainInv, IInv
<1>3. OnlyCall(k, d)
  <2>1. call' = [call EXCEPT ![k] = d]
    BY Zenon DEF StoreGenesis, Change
  <2> HIDE DEF d
  <2> QED
    BY <2>1, OnlyCallFacts, Zenon
<1>4. /\ d.pc = "changed" /\ d.newest = Genesis /\ Genesis \in Range(d.changed)
      /\ 1 \in DOMAIN <<Genesis>>
  BY DEF Range
<1> HIDE DEF d
<1>5. CallUndisturbed(k, call'[k], sbm', InWork')
  BY <1>3, <1>4, Zenon DEF CallUndisturbed, ExtendsEnd, SendsNewest, OnlyCall
<1>6. \A j \in Client \cup Worker : j \notin {k} => call'[j] = call[j] /\ ~Adds(call[j])
  BY <1>2, <1>3, IdleAddsNot, Zenon DEF OnlyCall
<1>7. OneAdds' /\ InWork = {}
  <2>1. InWork = {}
    BY <1>2, IdleAddsNot DEF InWork
  <2>2. \A j \in DOMAIN call' : Adds(call'[j]) => j = k
    BY <1>2, <1>6, Zenon
  <2> QED
    BY <2>1, <2>2, Zenon DEF OneAdds
<1>8. MapsKnown(sbm', sbm', InWork')
  BY <1>2, Zenon DEF MapsKnown
<1>9. /\ {k} \in SUBSET (Client \cup Worker)
      /\ \A j \in {k} : CallUndisturbed(j, call'[j], sbm', InWork')
      /\ \A x \in InWork : x \in InWork' \/ Settled(x, sbm')
  BY <1>5, <1>7, Zenon
<1> QED
  BY <1>1, <1>6, <1>7, <1>8, <1>9, ChainStep, ZenonT(30)

(* A call that begins while no other adds a block finds all that is known  *)
(* settled, and so the latest block.                                       *)
LEMMA StoreSkipBlockChain ==
    ASSUME IInv, IInv', ChainInv, MapsGrow, NEW k \in Client, NEW s \in Server,
           NEW latest \in DOMAIN sbm[s], NEW data \in Data,
           StoreSkipBlock(k, s, latest, data), \A j \in Client : call[j] = NoCall
    PROVE  ChainInv'
<1> DEFINE prop == Append(latest, data)
           d == [pc |-> "bft", leader |-> s, level |-> 0, newest |-> prop,
                 link |-> prop, vote |-> [q \in Server |-> "none"]]
<1>1. latest \in Block /\ latest \in Seq(Data)
  BY BlockFacts, Zenon DEF IInv, MapsOK, IsSkipBlockMap
<1>2. prop # Genesis /\ Previous(prop) = latest
  BY <1>1 DEF Genesis, Previous
<1>3. /\ sbm[s][latest] = <<>> /\ sbm' = sbm /\ genesis' = genesis
      /\ fwdSigs' = fwdSigs /\ replies' = replies /\ acked' = acked
  BY Zenon DEF StoreSkipBlock
<1>4. OnlyCall(k, d)
  <2>1. call' = [call EXCEPT ![k] = d]
    BY Zenon DEF StoreSkipBlock, StartBFT
  <2> HIDE DEF d
  <2> QED
    BY <2>1, OnlyCallFacts, Zenon
<1> HIDE DEF prop
<1>5. /\ d.pc = "bft" /\ d.newest = prop /\ d.level = 0 /\ d.leader = s
      /\ Adds(d) /\ ~Working(d) /\ \A q \in Server : d.vote[q] # "lost"
      /\ d.pc # "changed" /\ d.pc # "propagate" /\ ~(d.level > 0)
  BY DEF Adds, Working
<1> HIDE DEF d
<1>6. /\ DOMAIN call = Client \cup Worker /\ DOMAIN call' = Client \cup Worker
      /\ \A j \in Client \cup Worker : ~Adds(call[j])
      /\ \A j \in Client \cup Worker : j \notin {k} => call'[j] = call[j]
      /\ call'[k] = d
  BY <1>4, IdleAddsNot, Zenon DEF IInv, OnlyCall, ChainInv, CallUndisturbed
<1>7. InWork = {} /\ InWork' = {} /\ OneAdds'
  BY <1>5, <1>6, Zenon DEF InWork, Working, OneAdds
<1>8. Settled(latest, sbm) /\ genesis'
  BY <1>3, <1>7, Zenon DEF ChainInv, MapsKnown, KnownLinks, Known
<1>9. ExtendsEnd(d, sbm')
  BY <1>2, <1>3, <1>5, <1>8, Zenon DEF ExtendsEnd
<1>10. CallUndisturbed(k, call'[k], sbm', InWork')
  BY <1>2, <1>5, <1>6, <1>9, Zenon DEF CallUndisturbed, SendsNewest
<1>11. /\ {k} \in SUBSET (Client \cup Worker)
       /\ \A j \in {k} : CallUndisturbed(j, call'[j], sbm', InWork')
       /\ \A x \in InWork : x \in InWork' \/ Settled(x, sbm')
       /\ MapsKnown(sbm', sbm', InWork')
  BY <1>3, <1>7, <1>10, Zenon DEF ChainInv
<1> QED
  BY <1>3, <1>6, <1>7, <1>8, <1>11, ChainStep, ZenonT(30)

(* A request is lost, or a server answers with the links it holds. *)
LEMMA MessageChain ==
    ASSUME IInv, IInv', ChainInv, MapsGrow,
           \/ \E m \in fwdSigs : LoseForwardSignature(m)
           \/ \E s, q \in Server : GetBlock(s, q)
    PROVE  ChainInv'
<1>1. /\ sbm' = sbm /\ call' = call /\ genesis' = genesis /\ acked' = acked
      /\ fwdSigs' \subseteq fwdSigs
  BY Zenon DEF LoseForwardSignature, GetBlock
<1>2. OneAdds' /\ InWork' = InWork /\ MapsKnown(sbm', sbm', InWork')
  BY <1>1, Zenon DEF ChainInv, OneAdds, InWork
<1>3. \A m \in replies' \ replies : KnownLinks(m.sb, m.links, sbm', InWork')
  <2>1. CASE \E m \in fwdSigs : LoseForwardSignature(m)
    BY <2>1, Zenon DEF LoseForwardSignature
  <2>2. CASE \E s, q \in Server : GetBlock(s, q)
    <3>1. PICK q \in Server : \E s \in Server : \E next \in DOMAIN sbm[q] :
            replies' = replies \cup {[to |-> s, sb |-> next, links |-> sbm[q][next]]}
      BY <2>2, Zenon DEF GetBlock
    <3> QED
      BY <1>2, <1>1, <3>1 DEF MapsKnown
  <2> QED
    BY <2>1, <2>2, Zenon
<1>4. genesis'
  <2>1. \/ fwdSigs # {}
        \/ \E s \in Server : DOMAIN sbm[s] # {}
    BY Zenon DEF GetBlock
  <2> QED
    BY <1>1, <2>1, Zenon DEF ChainInv
<1>5. \A j \in Client \cup Worker :
         Adds(call[j]) /\ call[j].pc = "bft" /\ call[j].newest # Genesis =>
           sbm'[call[j].leader][Previous(call[j].newest)] = <<>>
  BY <1>1, Zenon DEF ChainInv, IInv, CallUndisturbed, ExtendsEnd
<1>6. {} \in SUBSET (Client \cup Worker)
  OBVIOUS
<1> QED
  BY <1>1, <1>2, <1>3, <1>4, <1>5, <1>6, ChainStep, ZenonT(30)

-----------------------------------------------------------------------------
(* What has gone wrong stays so. *)
LEMMA MishapsGrow ==
    ASSUME [Next]_vars
    PROVE  mishaps \subseteq mishaps'
<1>1. CASE UNCHANGED vars
  BY <1>1 DEF vars
<1>2. CASE Next
  <2>1. ASSUME NEW m, Happens(m) PROVE mishaps \subseteq mishaps'
    BY <2>1 DEF Happens
  <2>2. ASSUME NEW k \in Client, NEW s \in Server, StoreGenesis(k, s)
        PROVE  mishaps \subseteq mishaps'
    BY <2>2 DEF StoreGenesis
  <2>3. ASSUME NEW k \in Client, NEW s \in Server, NEW latest \in DOMAIN sbm[s],
               NEW data \in Data, StoreSkipBlock(k, s, latest, data)
        PROVE  mishaps \subseteq mishaps'
    <3>1. Happens("concurrent") \/ mishaps' = mishaps
      BY <2>3, Zenon DEF StoreSkipBlock
    <3> QED
      BY <2>1, <3>1
  <2>4. ASSUME NEW k \in Worker, NEW m \in fwdSigs, ForwardSignature(k, m)
        PROVE  mishaps \subseteq mishaps'
    <3>1. mishaps' = mishaps
      BY <2>4, Zenon DEF ForwardSignature
    <3> QED
      BY <3>1
  <2>5. ASSUME NEW m \in fwdSigs, LoseForwardSignature(m)
        PROVE  mishaps \subseteq mishaps'
    <3>1. Happens("failure") \/ mishaps' = mishaps
      BY <2>5, Zenon DEF LoseForwardSignature
    <3> QED
      BY <2>1, <3>1
  <2>6. ASSUME NEW k \in Client \cup Worker, Step(k)
        PROVE  mishaps \subseteq mishaps'
    <3>1. CASE BFTTimeout(k)
      BY <2>1, <3>1, Zenon DEF BFTTimeout
    <3>2. CASE RequestHigherLinks(k)
      <4>1. Happens("failure") \/ mishaps' = mishaps
        BY <3>2, Zenon DEF RequestHigherLinks
      <4> QED
        BY <2>1, <4>1
    <3>3. CASE ~BFTTimeout(k) /\ ~RequestHigherLinks(k)
      <4>1. mishaps' = mishaps
        BY <2>6, <3>3, Zenon DEF Step, Verify, PropagateSkipBlock, BFTDone,
             StartPropagation, Return, PropagateTimeout
      <4> QED
        BY <4>1
    <3> QED
      BY <3>1, <3>2, <3>3, Zenon
  <2>7. ASSUME NEW s \in Server, NEW q \in Server, GetBlock(s, q)
        PROVE  mishaps \subseteq mishaps'
    <3>1. mishaps' = mishaps
      BY <2>7, Zenon DEF GetBlock
    <3> QED
      BY <3>1
  <2>8. ASSUME NEW m \in replies, GetBlockReply(m)
        PROVE  mishaps \subseteq mishaps'
    BY <2>8 DEF GetBlockReply
  <2>9. ASSUME NEW s \in Server, Crash(s)
        PROVE  mishaps \subseteq mishaps'
    BY <2>1, <2>9, Zenon DEF Crash
  <2> QED
    BY <1>2, <2>2, <2>3, <2>4, <2>5, <2>6, <2>7, <2>8, <2>9, Zenon DEF Next
<1> QED
  BY <1>1, <1>2, Zenon

(* Every step of an undisturbed behaviour keeps the chain. *)
LEMMA NextChain ==
    ASSUME IInv, UndisturbedInv, [Next]_vars
    PROVE  UndisturbedInv'
<1> SUFFICES ASSUME Undisturbed' PROVE ChainInv'
  BY Zenon DEF UndisturbedInv
<1>1. ChainInv
  <2>1. Undisturbed
    BY MishapsGrow, Zenon DEF Undisturbed
  <2> QED
    BY <2>1 DEF UndisturbedInv
<1>2. \A s \in Server : ~Crash(s)
  <2> SUFFICES ASSUME NEW s \in Server, Crash(s) PROVE FALSE
    OBVIOUS
  <2> QED
    BY DEF Crash, Happens, Undisturbed
<1>3. \A k \in Client \cup Worker : ~PropagateTimeout(k)
  <2> SUFFICES ASSUME NEW k \in Client \cup Worker, PropagateTimeout(k) PROVE FALSE
    OBVIOUS
  <2>1. call[k].pc = "propagate" /\ call[k] \in PropagateCall
    BY CallTypes, Zenon DEF PropagateTimeout
  <2>2. Len(call[k].sent) \in Nat
    BY <2>1 DEF PropagateCall
  <2>3. PICK q \in Server : call[k].stored[q] = -1
    BY Zenon DEF PropagateTimeout
  <2>4. call[k].stored[q] \in 0..Len(call[k].sent)
    BY <1>1, <2>1, Zenon DEF ChainInv, IInv, CallUndisturbed, Delivers
  <2> QED
    BY <2>2, <2>3, <2>4
<1>4. IInv' /\ MapsGrow
  BY <1>2, <1>3, NextKeeps, Zenon
<1>5. CASE UNCHANGED vars
  <2>1. /\ genesis' = genesis /\ sbm' = sbm /\ call' = call /\ fwdSigs' = fwdSigs
        /\ replies' = replies /\ acked' = acked
    BY <1>5 DEF vars
  <2> QED
    BY <1>1, <2>1, Zenon DEF ChainInv, OneAdds, InWork
<1>6. CASE Next
  <2>1. UNCHANGED scenario
    BY <1>6, Zenon DEF Next
  <2>2. ASSUME NEW k \in Client, NEW s \in Server, StoreGenesis(k, s)
        PROVE  ChainInv'
    BY <1>1, <1>4, <2>2, StoreGenesisChain, Zenon
  <2>3. ASSUME NEW k \in Client, NEW s \in Server, NEW latest \in DOMAIN sbm[s],
               NEW data \in Data, StoreSkipBlock(k, s, latest, data)
        PROVE  ChainInv'
    <3>1. \A j \in Client : call[j] = NoCall
      <4>1. (\E j \in Client : call[j] # NoCall) => Happens("concurrent")
        BY <2>3, Zenon DEF StoreSkipBlock
      <4>2. ~Happens("concurrent")
        BY DEF Happens, Undisturbed
      <4> QED
        BY <4>1, <4>2, Zenon
    <3> QED
      BY <1>1, <1>4, <2>3, <3>1, StoreSkipBlockChain, Zenon
  <2>4. ASSUME NEW k \in Worker, NEW m \in fwdSigs, ForwardSignature(k, m)
        PROVE  ChainInv'
    BY <1>1, <1>4, <2>4, ForwardSignatureChain, Zenon
  <2>5. ASSUME NEW k \in Client \cup Worker, Step(k)
        PROVE  ChainInv'
    <3>1. CASE \E q \in Server : Verify(k, q)
      BY <1>1, <1>4, <3>1, VerifyChain, Zenon
    <3>2. CASE \E q \in Server : PropagateSkipBlock(k, q)
      BY <1>1, <1>4, <3>2, PropagateSkipBlockChain, Zenon
    <3>3. CASE BFTDone(k)
      BY <1>1, <1>4, <3>3, BFTDoneChain, Zenon
    <3>4. CASE BFTTimeout(k)
      <4>1. /\ UNCHANGED <<genesis, sbm, fwdSigs, replies, acked>>
            /\ call' = [call EXCEPT ![k] = NoCall] /\ call[k].pc = "bft"
        BY <3>4, Zenon DEF BFTTimeout
      <4>2. OnlyCall(k, NoCall)
        BY <4>1, OnlyCallFacts, Zenon
      <4> QED
        BY <1>1, <1>4, <4>1, <4>2, NoSignatureChain, Zenon
    <3>5. CASE RequestHigherLinks(k)
      BY <1>1, <1>4, <2>1, <3>5, RequestHigherLinksChain, Zenon
    <3>6. CASE StartPropagation(k)
      BY <1>1, <1>4, <3>6, StartPropagationChain, Zenon
    <3>7. CASE Return(k)
      BY <1>1, <1>4, <3>7, ReturnChain, Zenon
    <3> QED
      BY <1>3, <2>5, <3>1, <3>2, <3>3, <3>4, <3>5, <3>6, <3>7, Zenon DEF Step
  <2>6. CASE \/ \E m \in fwdSigs : LoseForwardSignature(m)
             \/ \E s, q \in Server : GetBlock(s, q)
    BY <1>1, <1>4, <2>6, MessageChain, Zenon
  <2>7. ASSUME NEW m \in replies, GetBlockReply(m)
        PROVE  ChainInv'
    BY <1>1, <1>4, <2>7, GetBlockReplyChain, Zenon
  <2> QED
    BY <1>2, <1>6, <2>2, <2>3, <2>4, <2>5, <2>6, <2>7, Zenon DEF Next
<1> QED
  BY <1>5, <1>6, Zenon

(* A chain that every server has. *)
LEMMA InitChain == Init => UndisturbedInv
<1> SUFFICES ASSUME Init PROVE ChainInv
  BY Zenon DEF UndisturbedInv
<1>1. \/ genesis /\ scenario.blocks \in {1, 2}
      \/ ~genesis /\ scenario.blocks = 0
  <2>1. scenario.blocks \in 0..2
    BY ScenarioAssumption DEF Init
  <2>2. scenario.blocks = 0 \/ (scenario.blocks > 0 /\ scenario.blocks \in {1, 2})
    BY <2>1
  <2>3. genesis = (scenario.blocks > 0) /\ ~(0 > 0)
    BY DEF Init
  <2> QED
    BY <2>2, <2>3, Zenon
<1>2. PICK first \in {b \in Block : Len(b) = 1} :
        sbm = [s \in Server |->
                 [b \in {b \in {Genesis, first} : Len(b) < scenario.blocks} |->
                    IF b = Genesis /\ scenario.blocks = 2 THEN <<first>> ELSE <<>>]]
  BY Zenon DEF Init
<1> DEFINE D == {b \in {Genesis, first} : Len(b) < scenario.blocks}
           map == [b \in D |-> IF b = Genesis /\ scenario.blocks = 2
                               THEN <<first>> ELSE <<>>]
<1>3. /\ first \in Block /\ first \in Seq(Data) /\ Len(first) = 1 /\ first # Genesis
      /\ Len(Genesis) = 0
  <2>1. first \in Block /\ Len(first) = 1
    BY <1>2, Zenon
  <2>2. first \in Seq(Data)
    BY <2>1, BlockFacts, Zenon
  <2> QED
    BY <2>1, <2>2 DEF Genesis
<1>4. \A s \in Server : sbm[s] = map
  BY <1>2, Zenon
<1>5. /\ \A k \in DOMAIN call : call[k] = NoCall
      /\ fwdSigs = {} /\ replies = {} /\ acked = {}
  BY DEF Init
<1>6. DOMAIN map = D /\ \A b \in D : map[b] =
        IF b = Genesis /\ scenario.blocks = 2 THEN <<first>> ELSE <<>>
  BY Zenon
<1> HIDE DEF map
<1>7. ~genesis => \A s \in Server : DOMAIN sbm[s] = {}
  <2>1. ~genesis => scenario.blocks = 0
    BY <1>1, Zenon
  <2>2. scenario.blocks = 0 => D = {}
    BY <1>3
  <2> QED
    BY <1>4, <1>6, <2>1, <2>2, Zenon
<1>8. OneAdds /\ InWork = {}
  <2>1. \A k \in DOMAIN call : ~Adds(call[k]) /\ ~Working(call[k])
    BY <1>5, IdleAddsNot, Zenon
  <2> QED
    BY <2>1, Zenon DEF OneAdds, InWork
<1>9. \A k \in DOMAIN call : CallUndisturbed(k, call[k], sbm, InWork)
  BY <1>5, IdleAddsNot DEF CallUndisturbed, NoCall
<1>10. /\ SubSeq(Genesis, 1, 0) = Genesis
       /\ SubSeq(first, 1, 0) = Genesis /\ SubSeq(first, 1, 1) = first
  BY <1>3 DEF Genesis
<1>11. genesis => Settled(Genesis, sbm)
  <2>1. genesis => Genesis \in D
    BY <1>1, <1>3
  <2>2. 0..Len(Genesis) = {0} /\ 0..(Len(Genesis) - 1) = {}
    BY <1>3
  <2> QED
    BY <1>4, <1>6, <1>10, <2>1, <2>2, Zenon DEF Settled
<1>12. scenario.blocks = 2 => Settled(first, sbm)
  <2>1. scenario.blocks = 2 => Genesis \in D /\ first \in D /\ map[Genesis] = <<first>>
    <3>1. scenario.blocks = 2 => Genesis \in D /\ first \in D
      <4>1. 0 < 2 /\ 1 < 2
        OBVIOUS
      <4> QED
        BY <1>3, <4>1, Zenon
    <3> QED
      BY <1>6, <3>1, Zenon
  <2>2. 0..Len(first) = {0, 1} /\ 0..(Len(first) - 1) = {0} /\ 0 + 1 = 1
    BY <1>3
  <2>3. <<first>> # <<>> /\ <<first>>[1] = first
    OBVIOUS
  <2> QED
    BY <1>4, <1>10, <1>6, <2>1, <2>2, <2>3, Zenon DEF Settled
<1>13. MapsKnown(sbm, sbm, InWork)
  <2> SUFFICES ASSUME NEW s \in Server, NEW b \in D
               PROVE  KnownLinks(b, map[b], sbm, InWork)
    BY <1>4, <1>6, Zenon DEF MapsKnown
  <2>1. genesis /\ (b = Genesis \/ (b = first /\ scenario.blocks = 2))
    <3>1. b = Genesis \/ b = first
      OBVIOUS
    <3>2. scenario.blocks \in {0, 1, 2}
      BY <1>1
    <3>3. scenario.blocks # 0 /\ (b = first => scenario.blocks = 2)
      BY <1>3, <3>1, <3>2
    <3> QED
      BY <1>1, <3>1, <3>3, Zenon
  <2>2. Settled(b, sbm)
    BY <1>11, <1>12, <2>1, Zenon
  <2>3. CASE b = Genesis /\ scenario.blocks = 2
    <3>1. map[b] = <<first>> /\ DOMAIN <<first>> = {1} /\ <<first>>[1] = first
      BY <1>6, <2>3
    <3>2. Len(first) = Len(b) + 1
      BY <1>3, <2>3
    <3> QED
      BY <1>3, <1>12, <2>2, <2>3, <3>1, <3>2, Zenon DEF KnownLinks, Known
  <2>4. CASE ~(b = Genesis /\ scenario.blocks = 2)
    <3>1. map[b] = <<>> /\ DOMAIN <<>> = {}
      BY <1>6, <2>4
    <3> QED
      BY <2>2, <3>1, Zenon DEF KnownLinks, Known
  <2> QED
    BY <2>3, <2>4, Zenon
<1> QED
  BY <1>5, <1>7, <1>8, <1>9, <1>13, Zenon DEF ChainInv

(* For every roster, height parameters and length of the chain, while no   *)
(* two calls of StoreSkipBlock overlap and no server restarts, but rounds  *)
(* and requests may fail: the blocks the servers hold, link to, send and   *)
(* ask for are settled, the one that is being added apart.                 *)
THEOREM UndisturbedInvariance == Spec => []UndisturbedInv
<1>1. IInv /\ UndisturbedInv /\ [Next]_vars => UndisturbedInv'
  BY NextChain
<1> QED
  BY <1>1, InitChain, Invariance, PTL DEF Spec

(* For every roster, height parameters and length of the chain: when       *)
(* StoreSkipBlock has answered, every server has the block and, as first   *)
(* link of the block before, the link to it.                               *)
THEOREM AckedEverywhereHolds == Spec => []AckedEverywhere
<1>1. IInv /\ UndisturbedInv => AckedEverywhere
  <2> SUFFICES ASSUME IInv, ChainInv, NEW b \in acked \ {Genesis}, NEW s \in Server
               PROVE  /\ b \in DOMAIN sbm[s]
                      /\ Previous(b) \in DOMAIN sbm[s]
                      /\ sbm[s][Previous(b)] # <<>> /\ sbm[s][Previous(b)][1] = b
    BY Zenon DEF AckedEverywhere, UndisturbedInv
  <2>1. b \in Block /\ b # Genesis /\ Settled(b, sbm)
    BY DEF IInv, ChainInv
  <2> DEFINE p == Previous(b)
  <2>2. /\ p \in Block /\ p = SubSeq(b, 1, Len(p)) /\ Len(b) \in Nat \ {0}
        /\ Len(p) = Len(b) - 1
    BY <2>1, PreviousFacts, Zenon
  <2>3. b \in Seq(Data) /\ SubSeq(b, 1, Len(b)) = b
    BY <2>1, BlockFacts
  <2> HIDE DEF p
  <2>4. /\ Len(p) \in 0..(Len(b) - 1) /\ Len(p) + 1 = Len(b)
        /\ Len(b) \in 0..Len(b)
    BY <2>2
  <2>5. /\ p \in DOMAIN sbm[s] /\ sbm[s][p] # <<>>
        /\ sbm[s][p][1] = SubSeq(b, 1, Len(p) + 1)
    BY <2>1, <2>2, <2>4, SettledFirst
  <2>6. SubSeq(b, 1, Len(b)) \in DOMAIN sbm[s]
    BY <2>1, <2>4, Zenon DEF Settled
  <2> QED
    BY <2>3, <2>4, <2>5, <2>6, Zenon DEF p
<1> QED
  BY <1>1, Invariance, UndisturbedInvariance, PTL

-----------------------------------------------------------------------------
(* With no call under way every block a server holds is settled, its links *)
(* lead on to later blocks the server holds, and where there is none the   *)
(* chain is as long as any that was acknowledged.                          *)
LEMMA IdleMaps ==
    ASSUME IInv, ChainInv, \A k \in DOMAIN call : call[k] = NoCall,
           NEW s \in Server, NEW c \in DOMAIN sbm[s]
    PROVE  /\ c \in Block
           /\ sbm[s][c] # <<>> =>
                LET t == LatestLink(sbm[s][c])
                IN t \in DOMAIN sbm[s] /\ Len(t) > Len(c)
           /\ sbm[s][c] = <<>> => \A a \in acked : Len(c) >= Len(a)
<1>1. c \in Block /\ sbm[s][c] \in Seq(Block) /\ sbm[s][c] \in LinkList(c)
  BY DEF IInv, MapsOK, IsSkipBlockMap
<1>2. InWork = {}
  BY IdleAddsNot, Zenon DEF InWork
<1>3. /\ Settled(c, sbm)
      /\ \A i \in DOMAIN sbm[s][c] : sbm[s][c][i] # Genesis /\ Settled(sbm[s][c][i], sbm)
  BY <1>2, Zenon DEF ChainInv, MapsKnown, KnownLinks, Known
<1>4. ASSUME sbm[s][c] # <<>>
      PROVE  LET t == LatestLink(sbm[s][c])
             IN t \in DOMAIN sbm[s] /\ Len(t) > Len(c)
  <2> DEFINE links == sbm[s][c]
             t == LatestLink(links)
  <2>1. Len(links) \in DOMAIN links /\ t = links[Len(links)] /\ t \in Block
    BY <1>1, <1>4 DEF LatestLink
  <2>2. t # Genesis /\ Settled(t, sbm) /\ Fits(c, t)
    BY <1>1, <1>3, <2>1, Zenon DEF LinkList
  <2> HIDE DEF t
  <2>3. /\ Len(c) \in 0..(Len(t) - 1) /\ t \in Seq(Data) /\ Len(t) \in Nat
        /\ SubSeq(t, 1, Len(t)) = t
    BY <2>1, <2>2, FitsFacts, BlockFacts
  <2>4. Len(t) \in 0..Len(t) /\ Len(t) > Len(c)
    BY <2>3
  <2>5. SubSeq(t, 1, Len(t)) \in DOMAIN sbm[s]
    BY <2>2, <2>4, Zenon DEF Settled
  <2> QED
    BY <2>3, <2>4, <2>5, Zenon DEF t
<1>5. ASSUME sbm[s][c] = <<>>, NEW a \in acked PROVE Len(c) >= Len(a)
  <2>1. a \in Block /\ Settled(a, sbm) /\ Len(a) \in Nat /\ Len(c) \in Nat
    <3>1. a \in Block /\ Settled(a, sbm)
      BY Zenon DEF IInv, ChainInv
    <3> QED
      BY <1>1, <3>1, BlockFacts
  <2>2. CASE Len(c) < Len(a)
    <3>1. Len(c) <= Len(a) /\ Len(c) \in 0..(Len(a) - 1)
      BY <2>1, <2>2
    <3>2. c = SubSeq(a, 1, Len(c))
      BY <1>1, <1>3, <2>1, <3>1, SettledOneChain, Zenon
    <3>3. sbm[s][c] # <<>>
      BY <2>1, <3>1, <3>2, SettledFirst, SMTT(20)
    <3> QED
      BY <1>5, <3>3, Zenon
  <2> QED
    BY <2>1, <2>2, NatOrder, Zenon
<1> QED
  BY <1>1, <1>4, <1>5, Zenon

-----------------------------------------------------------------------------
(* With no call under way GetUpdateChain ends at a block of the server     *)
(* that has no link.                                                       *)
LEMMA UpdateChainEnds ==
    ASSUME IInv, ChainInv, \A k \in DOMAIN call : call[k] = NoCall,
           NEW s \in Server, NEW b \in DOMAIN sbm[s]
    PROVE  UpdateChainEnd(s, b) \in DOMAIN sbm[s] /\ sbm[s][UpdateChainEnd(s, b)] = <<>>
<1> DEFINE D == DOMAIN sbm[s]
           Body(f) == [c \in D |->
                         IF sbm[s][c] = <<>> THEN c
                         ELSE IF LatestLink(sbm[s][c]) \in DOMAIN sbm[s]
                              THEN f[LatestLink(sbm[s][c])]
                         ELSE c]
           end == CHOOSE f : f = Body(f)
           G == {c \in D : sbm[s][c] # <<>>}
           next == [c \in G |-> LatestLink(sbm[s][c])]
           len == [c \in D |-> Len(c)]
           Walk(f) == [c \in D |-> IF c \in G THEN f[next[c]] ELSE c]
<1>1. UpdateChainEnd(s, b) = end[b]
  BY DEF UpdateChainEnd
<1>2. \A c \in G : LatestLink(sbm[s][c]) \in D /\ Len(LatestLink(sbm[s][c])) > Len(c)
  BY IdleMaps, Zenon
<1>3. MaxBlock \in Nat /\ len \in [D -> 0..MaxBlock]
  BY IdleMaps, BlockFacts, HeightAssumption, Zenon
<1>4. next \in [G -> D] /\ \A c \in G : len[next[c]] > len[c]
  BY <1>2, Zenon
<1>5. ASSUME NEW f PROVE Body(f) = Walk(f)
  <2>1. \A c \in D : (IF sbm[s][c] = <<>> THEN c
                      ELSE IF LatestLink(sbm[s][c]) \in DOMAIN sbm[s]
                           THEN f[LatestLink(sbm[s][c])]
                      ELSE c) = (IF c \in G THEN f[next[c]] ELSE c)
    BY <1>2, Zenon
  <2> HIDE DEF G, next, D
  <2> QED
    BY <2>1, Zenon
<1> G \in SUBSET D
  BY Zenon
<1> HIDE DEF next, len, D
<1>6. \E f : f = Walk(f)
  <2> HIDE DEF G
  <2> QED
    BY <1>3, <1>4, WalkExists
<1>7. end = Walk(end)
  <2>1. \E f : f = Body(f)
    <3>1. PICK f : f = Walk(f)
      BY <1>6, Zenon
    <3>2. Walk(f) = Body(f)
      BY <1>5, Zenon
    <3> HIDE DEF Walk, Body
    <3> QED
      BY <3>1, <3>2, Zenon
  <2>2. end = Body(end)
    BY <2>1, Zenon
  <2> QED
    BY <1>5, <2>2, Zenon
<1>8. end[b] \in D \ G
  <2> HIDE DEF G, end
  <2>1. \A c \in D : end[c] \in D \ G
    BY <1>3, <1>4, <1>7, WalkEnds
  <2> QED
    BY <2>1, Zenon DEF D
<1> QED
  BY <1>1, <1>8, Zenon DEF D

(* For every roster, height parameters and length of the chain: with no    *)
(* call under way, GetUpdateChain gets from any block and at any server to *)
(* a block as new as any that was acknowledged.                            *)
THEOREM LatestFoundHolds == Spec => []LatestFound
<1>1. IInv /\ UndisturbedInv => LatestFound
  <2> SUFFICES ASSUME IInv, ChainInv, \A k \in DOMAIN call : call[k] = NoCall,
                      NEW s \in Server, NEW b \in DOMAIN sbm[s], NEW a \in acked
               PROVE  Len(UpdateChainEnd(s, b)) >= Len(a)
    BY Zenon DEF LatestFound, UndisturbedInv
  <2> DEFINE c == UpdateChainEnd(s, b)
  <2>1. c \in DOMAIN sbm[s] /\ sbm[s][c] = <<>>
    BY UpdateChainEnds, Zenon
  <2> HIDE DEF c
  <2>2. Len(c) >= Len(a)
    BY <2>1, IdleMaps
  <2> QED
    BY <2>2 DEF c
<1> QED
  BY <1>1, Invariance, UndisturbedInvariance, PTL
=============================================================================
