---------------------------- MODULE RouterProofs ----------------------------
(***************************************************************************)
(* Proofs about Router for any connections, frames and channel size: what  *)
(* a connection publishes in one class stays in order, and no High frame a *)
(* channel accepted is given up for another.  And about NetConnection, for *)
(* any threads, frames, batches and reads: frames flow, whole and in order.*)
(***************************************************************************)
EXTENDS Router, NetConnection, SequenceTheorems, TLAPS

\* What the frames name, and what a channel carries: publications, probes, their
\* answers and snapshots.
Topics == {f.t : f \in {g \in FrameSet : g.k = "pub"}}
Nonces == {f.nonce : f \in {g \in FrameSet : g.k = "hreq"}}
Patterns == {f.p : f \in {g \in FrameSet : g.k = "sub"}}
              \cup UNION {f.topics : f \in {g \in FrameSet : g.k = "reg"}}
Names == {f.name : f \in {g \in FrameSet : g.k = "reg"}}
Subs == Patterns \X Conns
Row == [c : Conns, alive : BOOLEAN, up : BOOLEAN]
PubMsg == [t : Topics, from : Conns, n : Nat]
ProbeMsg == [hresp : Nonces] \cup [hreq : Nonces]
Msg == PubMsg \cup ProbeMsg \cup [rows : SUBSET Row]

Handler == [pc : Publishing \cup {"none", "read", "probe", "self", "exit", "gone"},
            todo : SUBSET (Subs \cup Conns), m : Msg \cup {<< >>}, popped : SUBSET Subs]
Probe == [on : BOOLEAN, requester : Conns \cup {NoName}, services : SUBSET Conns,
          responses : SUBSET Conns, timers : Nat]

TypeOK ==
    /\ h \in [Conns -> Handler]
    /\ ch \in [Conns -> [Classes -> Seq(Msg)]]
    /\ got \in [Conns -> Seq(Msg)] /\ owed \in [Conns -> SUBSET Msg]
    /\ subs \subseteq Subs /\ services \subseteq Names /\ connServices \in [Conns -> Names \cup {NoName}]
    /\ done \subseteq Conns /\ silent \subseteq Conns /\ dropped \subseteq Conns
    /\ probes \in [Nonces -> Probe]
    /\ answers \subseteq [to : Conns \cup {NoName}, rows : SUBSET Row]
    /\ panicked \in BOOLEAN /\ frames \in Nat /\ faults \in Nat

\* A handler that publishes has its publication and the subscribers left, one
\* that probes has a probe and the connections left; only a handler of a lower
\* class makes room in a full channel.
HandlersOK ==
    \A c \in Conns :
        /\ h[c].pc \in Publishing =>
               /\ h[c].m \in PubMsg /\ h[c].m.from = c /\ h[c].m.n <= frames
               /\ h[c].todo \subseteq Subs
        /\ h[c].pc \in {"refill", "push"} => classifyTopic(h[c].m.t) # "High"
        /\ h[c].pc \in {"probe", "self"} => h[c].m \in ProbeMsg /\ h[c].todo \subseteq Conns

\* A channel carries the publications of its class.
ClassesKept ==
    \A c \in Conns, k \in Classes : \A i \in DOMAIN ch[c][k] :
        IsPub(ch[c][k][i]) => classifyTopic(ch[c][k][i].t) = k

\* The last frame of d that can have been published so far: no publication of d
\* under way or delivered is newer, so that the next one to be appended is the
\* newest of its sender.
Latest(d) == IF h[d].pc \in Publishing THEN h[d].m.n ELSE frames
Reached(m) == IsPub(m) => m.n <= Latest(m.from)
NoneNewer ==
    \A c \in Conns :
        /\ \A i \in DOMAIN got[c] : Reached(got[c][i])
        /\ \A k \in Classes : \A i \in DOMAIN ch[c][k] : Reached(ch[c][k][i])

\* The inductive invariant.
IInv == TypeOK /\ HandlersOK /\ ClassesKept /\ NoneNewer /\ RouterDelivers

-----------------------------------------------------------------------------
(***************************************************************************)
(* Sequences, and what a message is.                                       *)
(***************************************************************************)
LEMMA AppendAt ==
    ASSUME NEW S, NEW s \in Seq(S), NEW x \in S
    PROVE  /\ Append(s, x) \in Seq(S)
           /\ DOMAIN Append(s, x) = DOMAIN s \cup {Len(s) + 1}
           /\ DOMAIN s = 1 .. Len(s) /\ Len(s) \in Nat
           /\ \A i \in DOMAIN s : Append(s, x)[i] = s[i]
           /\ Append(s, x)[Len(s) + 1] = x
  OBVIOUS

LEMMA TailAt ==
    ASSUME NEW S, NEW s \in Seq(S), s # << >>
    PROVE  /\ Tail(s) \in Seq(S) /\ Head(s) \in S /\ Head(s) = s[1]
           /\ Len(s) \in Nat /\ 1 \in DOMAIN s /\ DOMAIN s = 1 .. Len(s)
           /\ DOMAIN Tail(s) = 1 .. Len(s) - 1
           /\ \A i \in DOMAIN Tail(s) : i + 1 \in DOMAIN s /\ Tail(s)[i] = s[i + 1]
  OBVIOUS

LEMMA ToSetAppend ==
    ASSUME NEW S, NEW s \in Seq(S), NEW x \in S
    PROVE  ToSet(Append(s, x)) = ToSet(s) \cup {x}
  BY AppendAt DEF ToSet

LEMMA ToSetTail ==
    ASSUME NEW S, NEW s \in Seq(S), s # << >>
    PROVE  ToSet(s) = ToSet(Tail(s)) \cup {Head(s)}
<1>1. ASSUME NEW i \in DOMAIN s PROVE s[i] \in ToSet(Tail(s)) \cup {Head(s)}
  <2>1. CASE i = 1
    BY <2>1, TailAt
  <2>2. CASE i # 1
    <3>1. i - 1 \in DOMAIN Tail(s) /\ Tail(s)[i - 1] = s[i]
      BY <2>2, TailAt
    <3>2. QED
      BY <3>1 DEF ToSet
  <2>3. QED
    BY <2>1, <2>2
<1>2. QED
  BY <1>1, TailAt DEF ToSet

LEMMA PubsAreMessages ==
    ASSUME NEW m \in Msg
    PROVE  IsPub(m) <=> m \in PubMsg
  BY DEF Msg, PubMsg, ProbeMsg, IsPub

-----------------------------------------------------------------------------
(***************************************************************************)
(* The channels: what a send, a pop and a write keep of them.              *)
(***************************************************************************)
ChannelTypes ==
    /\ ch \in [Conns -> [Classes -> Seq(Msg)]]
    /\ got \in [Conns -> Seq(Msg)] /\ owed \in [Conns -> SUBSET Msg]
Channels == ChannelTypes /\ ClassesKept /\ NoneNewer /\ RouterDelivers

\* The frame a connection publishes next is never older than the last.
Advances == \A d \in Conns : Latest(d) \in Nat /\ Latest(d)' \in Nat /\ Latest(d) <= Latest(d)'

\* The newest publication of its sender comes after every other.
Newest(m) == IsPub(m) => m.n = Latest(m.from)

LEMMA ReachedStays ==
    ASSUME Advances, NEW m \in Msg, Reached(m)
    PROVE  Reached(m)'
  BY PubsAreMessages DEF Advances, Reached, PubMsg, IsPub

LEMMA StillKeeps ==
    ASSUME Channels, Advances, UNCHANGED <<ch, got, owed>>, done \subseteq done'
    PROVE  Channels'
<1>1. ChannelTypes' /\ ClassesKept' /\ InOrder' /\ HighKept'
  BY DEF Channels, ChannelTypes, ClassesKept, RouterDelivers, InOrder, HighKept, Open
<1>2. NoneNewer'
  <2> SUFFICES ASSUME NEW c \in Conns
               PROVE  /\ \A i \in DOMAIN got[c] : Reached(got[c][i])'
                      /\ \A k \in Classes : \A i \in DOMAIN ch[c][k] : Reached(ch[c][k][i])'
    BY DEF NoneNewer, Reached
  <2>1. \A i \in DOMAIN got[c] : got[c][i] \in Msg /\ Reached(got[c][i])
    BY DEF Channels, ChannelTypes, NoneNewer
  <2>2. \A k \in Classes : \A i \in DOMAIN ch[c][k] : ch[c][k][i] \in Msg /\ Reached(ch[c][k][i])
    BY DEF Channels, ChannelTypes, NoneNewer
  <2>3. QED
    BY <2>1, <2>2, ReachedStays
<1>3. QED
  BY <1>1, <1>2 DEF Channels, RouterDelivers

LEMMA SendKeeps ==
    ASSUME Channels, Advances, NEW c, NEW k \in Classes, NEW m \in Msg, Newest(m),
           IsPub(m) => classifyTopic(m.t) = k,
           SelectSend(c, k, m), UNCHANGED <<got, done>>
    PROVE  Channels'
<1>1. CASE UNCHANGED <<ch, owed>>
  BY <1>1, StillKeeps
<1>2. CASE c \notin Conns
  BY <1>2, StillKeeps DEF SelectSend, Channels, ChannelTypes
<1>3. CASE /\ c \in Conns
           /\ ch' = [ch EXCEPT ![c][k] = Append(@, m)]
           /\ owed' = IF k = "High" THEN [owed EXCEPT ![c] = @ \cup {m}] ELSE owed
  <2> DEFINE q == ch[c][k]
  <2>1. /\ q \in Seq(Msg) /\ ch'[c][k] = Append(q, m)
        /\ \A d \in Conns, l \in Classes : <<d, l>> # <<c, k>> => ch'[d][l] = ch[d][l]
        /\ ChannelTypes'
    BY <1>3 DEF Channels, ChannelTypes
  <2>2. /\ Append(q, m) \in Seq(Msg) /\ DOMAIN q = 1 .. Len(q) /\ Len(q) \in Nat
        /\ DOMAIN Append(q, m) = DOMAIN q \cup {Len(q) + 1}
        /\ \A i \in DOMAIN q : Append(q, m)[i] = q[i]
        /\ Append(q, m)[Len(q) + 1] = m
    BY <2>1, AppendAt
  <2>3. ASSUME NEW d \in Conns, NEW l \in Classes, NEW i \in DOMAIN ch'[d][l]
        PROVE  \/ <<d, l>> = <<c, k>> /\ ch'[d][l][i] = m
               \/ i \in DOMAIN ch[d][l] /\ ch'[d][l][i] = ch[d][l][i]
    <3>1. CASE <<d, l>> = <<c, k>>
      BY <2>1, <2>2, <3>1
    <3>2. CASE <<d, l>> # <<c, k>>
      BY <2>1, <3>2
    <3>3. QED
      BY <3>1, <3>2
  <2>4. /\ \A d \in Conns : \A i \in DOMAIN got[d] : got[d][i] \in Msg /\ Reached(got[d][i])
        /\ \A d \in Conns, l \in Classes : \A i \in DOMAIN ch[d][l] :
               ch[d][l][i] \in Msg /\ Reached(ch[d][l][i])
        /\ Reached(m)
    <3>1. Reached(m)
      BY PubsAreMessages DEF Newest, Reached, PubMsg, Advances
    <3>2. QED
      BY <3>1 DEF Channels, ChannelTypes, NoneNewer
  <2>5. NoneNewer'
    <3>1. \A d \in Conns : \A i \in DOMAIN got[d] : Reached(got[d][i])'
      BY <2>4, ReachedStays
    <3>2. ASSUME NEW d \in Conns, NEW l \in Classes, NEW i \in DOMAIN ch'[d][l]
          PROVE  Reached(ch[d][l][i])'
      BY <2>3, <2>4, <3>2, ReachedStays DEF Reached
    <3>3. QED
      BY <3>1, <3>2 DEF NoneNewer, Reached
  <2>6. ClassesKept'
    <3> SUFFICES ASSUME NEW d \in Conns, NEW l \in Classes, NEW i \in DOMAIN ch'[d][l], IsPub(ch'[d][l][i])
                 PROVE  classifyTopic(ch'[d][l][i].t) = l
      BY DEF ClassesKept, IsPub
    <3>1. QED
      BY <2>3 DEF Channels, ClassesKept
  <2>7. InOrder'
    <3> SUFFICES ASSUME NEW d \in Conns, NEW l \in Classes
                 PROVE  Lined(got[d], ch'[d][l], l)
      BY DEF InOrder
    <3>1. Lined(got[d], ch[d][l], l)
      BY DEF Channels, RouterDelivers, InOrder
    <3>2. CASE <<d, l>> # <<c, k>>
      BY <2>1, <3>1, <3>2
    <3>3. CASE <<d, l>> = <<c, k>>
      <4>1. \A x \in Msg : IsPub(x) /\ Reached(x) /\ IsPub(m) => NotAfter(x, m)
        BY DEF Newest, Reached, NotAfter
      <4>2. \A i \in DOMAIN got[c] : OfClass(got[c][i], k) /\ IsPub(m) => NotAfter(got[c][i], m)
        BY <1>3, <2>4, <4>1 DEF OfClass
      <4>3. \A i \in DOMAIN q : IsPub(q[i]) /\ IsPub(m) => NotAfter(q[i], m)
        BY <1>3, <2>4, <4>1
      <4>4. \A i, j \in DOMAIN Append(q, m) : i < j => i \in DOMAIN q
        BY <2>2
      <4>5. Lined(got[c], q, k)
        BY <3>1, <3>3
      <4>6. Lined(got[c], Append(q, m), k)
        <5> DEFINE g == got[c]
                   a == Append(q, m)
        <5>1. \A j \in DOMAIN a : (j \in DOMAIN q /\ a[j] = q[j]) \/ a[j] = m
          BY <2>2
        <5>2. ASSUME NEW i \in DOMAIN a, NEW j \in DOMAIN a, i < j, IsPub(a[i]), IsPub(a[j])
              PROVE  NotAfter(a[i], a[j])
          BY <2>2, <4>3, <4>4, <4>5, <5>1, <5>2 DEF Lined
        <5>3. ASSUME NEW i \in DOMAIN g, NEW j \in DOMAIN a, OfClass(g[i], k), IsPub(a[j])
              PROVE  NotAfter(g[i], a[j])
          BY <4>2, <4>5, <5>1, <5>3 DEF Lined
        <5>4. QED
          BY <4>5, <5>2, <5>3 DEF Lined
      <4>7. QED
        BY <2>1, <3>3, <4>6
    <3>4. QED
      BY <3>2, <3>3
  <2>8. HighKept'
    <3> SUFFICES ASSUME NEW d \in Conns, d \notin done
                 PROVE  owed'[d] \subseteq ToSet(got[d]) \cup ToSet(ch'[d]["High"])
      BY DEF HighKept, Open
    <3>1. owed[d] \subseteq ToSet(got[d]) \cup ToSet(ch[d]["High"])
      BY DEF Channels, RouterDelivers, HighKept, Open
    <3>2. CASE <<d, "High">> = <<c, k>>
      <4>1. ToSet(Append(q, m)) = ToSet(q) \cup {m}
        BY <2>1, ToSetAppend
      <4>2. owed'[d] = owed[d] \cup {m}
        BY <1>3, <3>2 DEF Channels, ChannelTypes
      <4>3. QED
        BY <2>1, <3>1, <3>2, <4>1, <4>2
    <3>3. CASE <<d, "High">> # <<c, k>>
      <4>1. owed'[d] = owed[d]
        BY <1>3, <3>3 DEF Channels, ChannelTypes
      <4>2. QED
        BY <2>1, <3>1, <3>3, <4>1 DEF Classes
    <3>4. QED
      BY <3>2, <3>3
  <2>9. QED
    BY <2>1, <2>5, <2>6, <2>7, <2>8 DEF Channels, RouterDelivers
<1>4. QED
  BY <1>1, <1>2, <1>3 DEF SelectSend

\* The head of a channel leaves it: for the socket, or given up by a full channel
\* of a lower class, or lost with the connection it belongs to.
Popped(c, k) ==
    /\ ch[c][k] # << >> /\ ch' = [ch EXCEPT ![c][k] = Tail(@)]
    /\ \/ got' = [got EXCEPT ![c] = Append(@, Head(ch[c][k]))]
       \/ got' = got /\ (k # "High" \/ c \in done')

LEMMA LinedTail ==
    ASSUME NEW g, NEW q \in Seq(Msg), q # << >>, NEW k, Lined(g, q, k)
    PROVE  Lined(g, Tail(q), k)
<1>1. /\ DOMAIN q = 1 .. Len(q) /\ DOMAIN Tail(q) = 1 .. Len(q) - 1 /\ Len(q) \in Nat
      /\ \A i \in DOMAIN Tail(q) : i + 1 \in DOMAIN q /\ Tail(q)[i] = q[i + 1]
  BY TailAt
<1>2. ASSUME NEW i \in DOMAIN Tail(q), NEW j \in DOMAIN Tail(q), i < j, IsPub(Tail(q)[i]), IsPub(Tail(q)[j])
      PROVE  NotAfter(Tail(q)[i], Tail(q)[j])
  <2>1. /\ i + 1 \in DOMAIN q /\ j + 1 \in DOMAIN q /\ i + 1 < j + 1
        /\ Tail(q)[i] = q[i + 1] /\ Tail(q)[j] = q[j + 1]
    BY <1>1, <1>2
  <2>2. QED
    BY <1>2, <2>1 DEF Lined
<1>3. ASSUME NEW i \in DOMAIN g, NEW j \in DOMAIN Tail(q), OfClass(g[i], k), IsPub(Tail(q)[j])
      PROVE  NotAfter(g[i], Tail(q)[j])
  BY <1>1, <1>3 DEF Lined
<1>4. QED
  BY <1>2, <1>3 DEF Lined

LEMMA LinedMove ==
    ASSUME NEW g \in Seq(Msg), NEW q \in Seq(Msg), q # << >>, NEW k, Lined(g, q, k)
    PROVE  Lined(Append(g, Head(q)), Tail(q), k)
<1> DEFINE a == Append(g, Head(q))
<1>1. /\ DOMAIN q = 1 .. Len(q) /\ DOMAIN Tail(q) = 1 .. Len(q) - 1 /\ Len(q) \in Nat
      /\ Head(q) = q[1] /\ Head(q) \in Msg /\ 1 \in DOMAIN q
      /\ \A i \in DOMAIN Tail(q) : i + 1 \in DOMAIN q /\ Tail(q)[i] = q[i + 1]
  BY TailAt
<1>2. /\ DOMAIN a = DOMAIN g \cup {Len(g) + 1} /\ DOMAIN g = 1 .. Len(g) /\ Len(g) \in Nat
      /\ \A i \in DOMAIN g : a[i] = g[i]
      /\ a[Len(g) + 1] = q[1]
  BY <1>1, AppendAt
<1> HIDE DEF a
<1>3. \A i, j \in DOMAIN a : i < j => i \in DOMAIN g
  BY <1>2
<1>4. ASSUME NEW i \in DOMAIN a, NEW j \in DOMAIN a, i < j, OfClass(a[i], k), OfClass(a[j], k)
      PROVE  NotAfter(a[i], a[j])
  <2>1. CASE j \in DOMAIN g
    BY <1>2, <1>3, <1>4, <2>1 DEF Lined
  <2>2. CASE j \notin DOMAIN g
    BY <1>1, <1>2, <1>3, <1>4, <2>2 DEF Lined, OfClass
  <2>3. QED
    BY <2>1, <2>2
<1>5. ASSUME NEW i \in DOMAIN a, NEW j \in DOMAIN Tail(q), OfClass(a[i], k), IsPub(Tail(q)[j])
      PROVE  NotAfter(a[i], Tail(q)[j])
  <2>1. j + 1 \in DOMAIN q /\ Tail(q)[j] = q[j + 1] /\ 1 < j + 1
    BY <1>1
  <2>2. CASE i \in DOMAIN g
    BY <1>2, <1>5, <2>1, <2>2 DEF Lined
  <2>3. CASE i \notin DOMAIN g
    BY <1>1, <1>2, <1>5, <2>1, <2>3 DEF Lined, OfClass
  <2>4. QED
    BY <2>2, <2>3
<1>6. Lined(g, Tail(q), k)
  BY LinedTail
<1>7. QED
  BY <1>4, <1>5, <1>6 DEF Lined, a

LEMMA PopKeeps ==
    ASSUME Channels, Advances, NEW c \in Conns, NEW k \in Classes, Popped(c, k),
           UNCHANGED owed, done \subseteq done'
    PROVE  Channels'
<1> DEFINE q == ch[c][k]
           g == got[c]
           x == Head(q)
<1>1. /\ q \in Seq(Msg) /\ q # << >> /\ g \in Seq(Msg) /\ ch'[c][k] = Tail(q)
      /\ \A d \in Conns, l \in Classes : <<d, l>> # <<c, k>> => ch'[d][l] = ch[d][l]
  BY DEF Channels, ChannelTypes, Popped
<1>2. /\ Tail(q) \in Seq(Msg) /\ x \in Msg /\ x = q[1] /\ 1 \in DOMAIN q
      /\ DOMAIN q = 1 .. Len(q) /\ DOMAIN Tail(q) = 1 .. Len(q) - 1 /\ Len(q) \in Nat
      /\ \A i \in DOMAIN Tail(q) : i + 1 \in DOMAIN q /\ Tail(q)[i] = q[i + 1]
  BY <1>1, TailAt
<1>3. /\ Append(g, x) \in Seq(Msg) /\ DOMAIN Append(g, x) = DOMAIN g \cup {Len(g) + 1}
      /\ DOMAIN g = 1 .. Len(g) /\ Len(g) \in Nat
      /\ \A i \in DOMAIN g : Append(g, x)[i] = g[i]
      /\ Append(g, x)[Len(g) + 1] = x
  BY <1>1, <1>2, AppendAt
<1>4. \/ got' = got /\ (k # "High" \/ c \in done')
      \/ got'[c] = Append(g, x) /\ \A d \in Conns : d # c => got'[d] = got[d]
  BY DEF Channels, ChannelTypes, Popped
<1>5. ChannelTypes'
  BY <1>1, <1>2, <1>3 DEF Channels, ChannelTypes, Popped
<1>6. ASSUME NEW d \in Conns, NEW l \in Classes, NEW i \in DOMAIN ch'[d][l]
      PROVE  \E j \in DOMAIN ch[d][l] : ch'[d][l][i] = ch[d][l][j]
  <2>1. CASE <<d, l>> = <<c, k>>
    <3>1. d = c /\ l = k /\ i \in DOMAIN Tail(q) /\ ch'[d][l] = Tail(q)
      BY <1>1, <2>1
    <3>2. QED
      BY <1>2, <3>1
  <2>2. CASE <<d, l>> # <<c, k>>
    BY <1>1, <2>2
  <2>3. QED
    BY <2>1, <2>2
<1>7. ASSUME NEW d \in Conns, NEW i \in DOMAIN got'[d]
      PROVE  \/ i \in DOMAIN got[d] /\ got'[d][i] = got[d][i]
             \/ d = c /\ got'[d][i] = q[1]
  BY <1>2, <1>3, <1>4
<1>8. ClassesKept'
  <2> SUFFICES ASSUME NEW d \in Conns, NEW l \in Classes, NEW i \in DOMAIN ch'[d][l], IsPub(ch'[d][l][i])
               PROVE  classifyTopic(ch'[d][l][i].t) = l
    BY DEF ClassesKept, IsPub
  <2>1. QED
    BY <1>6 DEF Channels, ClassesKept
<1>9. NoneNewer'
  <2>1. /\ \A d \in Conns : \A i \in DOMAIN got[d] : got[d][i] \in Msg /\ Reached(got[d][i])
        /\ \A d \in Conns, l \in Classes : \A i \in DOMAIN ch[d][l] :
               ch[d][l][i] \in Msg /\ Reached(ch[d][l][i])
    BY DEF Channels, ChannelTypes, NoneNewer
  <2>2. ASSUME NEW d \in Conns, NEW i \in DOMAIN got'[d] PROVE Reached(got[d][i])'
    BY <1>2, <1>7, <2>1, <2>2, ReachedStays DEF Reached
  <2>3. ASSUME NEW d \in Conns, NEW l \in Classes, NEW i \in DOMAIN ch'[d][l] PROVE Reached(ch[d][l][i])'
    BY <1>6, <2>1, <2>3, ReachedStays DEF Reached
  <2>4. QED
    BY <2>2, <2>3 DEF NoneNewer, Reached
<1>10. InOrder'
  <2> SUFFICES ASSUME NEW d \in Conns, NEW l \in Classes
               PROVE  Lined(got'[d], ch'[d][l], l)
    BY DEF InOrder
  <2>1. Lined(got[d], ch[d][l], l) /\ Lined(g, q, k)
    BY DEF Channels, RouterDelivers, InOrder
  <2>2. IsPub(x) => classifyTopic(x.t) = k
    BY <1>2 DEF Channels, ClassesKept
  <2>3. CASE d # c \/ (got' = got /\ l # k)
    BY <1>1, <1>4, <2>1, <2>3
  <2>4. CASE d = c /\ got' = got /\ l = k
    <3>1. Lined(g, Tail(q), k)
      BY <1>1, <2>1, LinedTail
    <3>2. QED
      BY <1>1, <2>4, <3>1
  <2>5. CASE d = c /\ got'[c] = Append(g, x) /\ l # k
    <3>1. Lined(Append(g, x), ch[c][l], l)
      BY <1>3, <2>1, <2>2, <2>5 DEF Lined, OfClass
    <3>2. QED
      BY <1>1, <2>5, <3>1
  <2>6. CASE d = c /\ got'[c] = Append(g, x) /\ l = k
    <3>1. Lined(Append(g, x), Tail(q), k)
      BY <1>1, <2>1, LinedMove
    <3>2. QED
      BY <1>1, <2>6, <3>1
  <2>7. QED
    BY <1>4, <2>3, <2>4, <2>5, <2>6
<1>11. HighKept'
  <2> SUFFICES ASSUME NEW d \in Conns, d \notin done'
               PROVE  owed[d] \subseteq ToSet(got'[d]) \cup ToSet(ch'[d]["High"])
    BY DEF HighKept, Open
  <2>1. owed[d] \subseteq ToSet(got[d]) \cup ToSet(ch[d]["High"])
    BY DEF Channels, RouterDelivers, HighKept, Open
  <2>2. ToSet(q) = ToSet(Tail(q)) \cup {x} /\ ToSet(Append(g, x)) = ToSet(g) \cup {x}
    BY <1>1, <1>2, ToSetTail, ToSetAppend
  <2>3. CASE d = c
    <3>1. got'[c] = Append(g, x) \/ (got' = got /\ k # "High")
      BY <1>4, <2>3
    <3>2. ch'[c]["High"] = IF k = "High" THEN Tail(q) ELSE ch[c]["High"]
      BY <1>1 DEF Classes
    <3>3. QED
      BY <2>1, <2>2, <2>3, <3>1, <3>2
  <2>4. CASE d # c
    BY <1>1, <1>4, <2>1, <2>4 DEF Classes
  <2>5. QED
    BY <2>3, <2>4
<1>12. QED
  BY <1>5, <1>8, <1>9, <1>10, <1>11 DEF Channels, RouterDelivers

-----------------------------------------------------------------------------
(***************************************************************************)
(* The handlers.                                                           *)
(***************************************************************************)
LEMMA Moves ==
    ASSUME TypeOK, HandlersOK, NEW c \in Conns, NEW r \in Handler, Goes(c, r),
           frames' \in Nat, frames <= frames',
           r.pc \in Publishing =>
               /\ r.m \in PubMsg /\ r.m.from = c /\ r.todo \subseteq Subs
               /\ r.m.n = IF h[c].pc \in Publishing THEN h[c].m.n ELSE frames,
           r.pc \in {"refill", "push"} => classifyTopic(r.m.t) # "High",
           r.pc \in {"probe", "self"} => r.m \in ProbeMsg /\ r.todo \subseteq Conns
    PROVE  h' \in [Conns -> Handler] /\ HandlersOK' /\ Advances
<1>1. h' \in [Conns -> Handler] /\ h'[c] = r /\ \A d \in Conns : d # c => h'[d] = h[d]
  BY DEF TypeOK, Goes
<1>2. frames \in Nat /\ \A d \in Conns : h[d].pc \in Publishing => h[d].m.n \in Nat /\ h[d].m.n <= frames
  BY DEF TypeOK, HandlersOK, PubMsg
<1>3. HandlersOK'
  <2> SUFFICES ASSUME NEW d \in Conns
               PROVE  /\ h'[d].pc \in Publishing =>
                             /\ h'[d].m \in PubMsg /\ h'[d].m.from = d /\ h'[d].m.n <= frames'
                             /\ h'[d].todo \subseteq Subs
                      /\ h'[d].pc \in {"refill", "push"} => classifyTopic(h'[d].m.t) # "High"
                      /\ h'[d].pc \in {"probe", "self"} => h'[d].m \in ProbeMsg /\ h'[d].todo \subseteq Conns
    BY DEF HandlersOK
  <2>1. CASE d = c
    BY <1>1, <1>2, <2>1
  <2>2. CASE d # c
    BY <1>1, <1>2, <2>2 DEF HandlersOK
  <2>3. QED
    BY <2>1, <2>2
<1>4. ASSUME NEW d \in Conns PROVE Latest(d) \in Nat /\ Latest(d)' \in Nat /\ Latest(d) <= Latest(d)'
  <2>1. CASE d = c
    BY <1>1, <1>2, <2>1 DEF Latest
  <2>2. CASE d # c
    BY <1>1, <1>2, <2>2 DEF Latest
  <2>3. QED
    BY <2>1, <2>2
<1>5. QED
  BY <1>1, <1>3, <1>4 DEF Advances

LEMMA Waits ==
    ASSUME TypeOK, HandlersOK, UNCHANGED <<h, frames>>
    PROVE  HandlersOK' /\ Advances
<1>1. frames \in Nat /\ \A d \in Conns : h[d].pc \in Publishing => h[d].m.n \in Nat
  BY DEF TypeOK, HandlersOK, PubMsg
<1>2. QED
  BY <1>1 DEF HandlersOK, Advances, Latest

\* IInv with the channels in one conjunct, for the lemmas above.
LEMMA InvIsChannels ==
    /\ IInv <=> TypeOK /\ HandlersOK /\ Channels
    /\ IInv' <=> TypeOK' /\ HandlersOK' /\ Channels'
  BY DEF IInv, TypeOK, Channels, ChannelTypes

LEMMA IdleIsHandler ==
    /\ Idle \in Handler
    /\ [Idle EXCEPT !.pc = "exit"] \in Handler /\ [Idle EXCEPT !.pc = "gone"] \in Handler
    /\ [Idle EXCEPT !.pc = "none"] \in Handler
    /\ Idle.pc = "read" /\ [Idle EXCEPT !.pc = "exit"].pc = "exit"
    /\ [Idle EXCEPT !.pc = "gone"].pc = "gone" /\ [Idle EXCEPT !.pc = "none"].pc = "none"
  BY DEF Idle, Handler

\* A handler that goes back to reading, or ends, leaves the channels alone.
LEMMA LoopsKeep ==
    ASSUME IInv, NEW c \in Conns, NEW r \in Handler, r.pc \in {"none", "read", "exit", "gone"}, Goes(c, r),
           frames' \in Nat, frames <= frames', UNCHANGED <<ch, got, owed>>, done \subseteq done'
    PROVE  h' \in [Conns -> Handler] /\ HandlersOK' /\ Channels'
  BY Moves, StillKeeps, InvIsChannels DEF Publishing

-----------------------------------------------------------------------------
(***************************************************************************)
(* Every action.                                                           *)
(***************************************************************************)
LEMMA AcceptKeeps == ASSUME IInv, NEW c \in Conns, Accept(c) PROVE IInv'
<1>1. TypeOK
  BY DEF IInv
<1>2. h' \in [Conns -> Handler] /\ HandlersOK' /\ Channels'
  BY <1>1, LoopsKeep, IdleIsHandler DEF Accept, TypeOK, bounds
<1>3. QED
  BY <1>1, <1>2, InvIsChannels DEF Accept, TypeOK, tables, asked, bounds

LEMMA HandlesKeeps == ASSUME IInv, NEW c \in Conns, NEW f \in Frames[c], Handles(c, f) PROVE IInv'
<1>1. TypeOK /\ HandlersOK /\ f \in FrameSet /\ frames \in Nat
  BY DEF IInv, TypeOK, FrameSet
<1>2. CASE Subscribe(c, f) \/ Unsubscribe(c, f) \/ RegisterService(c, f) \/ Heartbeat(c, f) \/ handleHealthResponse(c, f)
  <2>1. /\ Goes(c, Idle) /\ frames' = frames + 1 /\ silent' = silent \ {c}
        /\ panicked' \in BOOLEAN /\ UNCHANGED <<ch, got, owed, done, answers, dropped, faults>>
    BY <1>1, <1>2 DEF Subscribe, Unsubscribe, RegisterService, Heartbeat, handleHealthResponse, Reads, Loops, asked, TypeOK
  <2>2. h' \in [Conns -> Handler] /\ HandlersOK' /\ Channels'
    BY <1>1, <2>1, LoopsKeep, IdleIsHandler
  <2>3. subs' \subseteq Subs
    <3>1. f.k = "sub" => f.p \in Patterns
      BY <1>1 DEF Patterns
    <3>2. f.k = "reg" => f.topics \subseteq Patterns
      BY <1>1 DEF Patterns
    <3>3. QED
      BY <1>1, <1>2, <3>1, <3>2 DEF TypeOK, Subs, Subscribe, Unsubscribe, RegisterService, Heartbeat, handleHealthResponse, tables
  <2>4. services' \subseteq Names /\ connServices' \in [Conns -> Names \cup {NoName}]
    <3>1. f.k = "reg" => f.name \in Names
      BY <1>1 DEF Names
    <3>2. QED
      BY <1>1, <1>2, <3>1 DEF TypeOK, Subscribe, Unsubscribe, RegisterService, Heartbeat, handleHealthResponse, tables
  <2>5. probes' \in [Nonces -> Probe]
    <3>1. CASE UNCHANGED probes
      BY <1>1, <3>1 DEF TypeOK
    <3>2. CASE probes' = [probes EXCEPT ![f.nonce].responses = @ \cup {c}]
      <4>1. \A n \in Nonces : [probes[n] EXCEPT !.responses = @ \cup {c}] \in Probe
        BY <1>1 DEF TypeOK, Probe
      <4>2. QED
        BY <1>1, <3>2, <4>1 DEF TypeOK
    <3>3. QED
      BY <1>2, <3>1, <3>2 DEF Subscribe, Unsubscribe, RegisterService, Heartbeat, handleHealthResponse, asked
  <2>6. QED
    BY <1>1, <2>1, <2>2, <2>3, <2>4, <2>5, InvIsChannels DEF TypeOK, Channels, ChannelTypes
<1>3. CASE Publish(c, f)
  <2> DEFINE r == [pc |-> "publish", popped |-> {}, m |-> [t |-> f.t, from |-> c, n |-> frames],
                   todo |-> {s \in subs : topicMatches(s[1], f.t)}]
  <2>1. /\ Goes(c, r) /\ frames' = frames + 1 /\ silent' = silent \ {c} /\ h[c].pc = "read"
        /\ UNCHANGED <<ch, got, owed, done, subs, connServices, services, probes, answers, dropped, panicked, faults>>
    BY <1>3 DEF Publish, Reads, tables, asked
  <2>2. r.m \in PubMsg /\ r.todo \subseteq Subs /\ r \in Handler
    <3>1. f.t \in Topics
      BY <1>1, <1>3 DEF Topics, Publish
    <3>2. QED
      BY <1>1, <3>1 DEF PubMsg, TypeOK, Handler, Publishing, Msg
  <2>3. h' \in [Conns -> Handler] /\ HandlersOK' /\ Advances
    BY <1>1, <2>1, <2>2, Moves DEF Publishing
  <2>4. Channels'
    BY <2>1, <2>3, StillKeeps, InvIsChannels
  <2>5. QED
    BY <1>1, <2>1, <2>3, <2>4, InvIsChannels DEF TypeOK, Channels, ChannelTypes
<1>4. CASE handleHealthRequest(c, f)
  <2>1. /\ frames' = frames + 1 /\ silent' = silent \ {c} /\ h[c].pc = "read"
        /\ UNCHANGED <<ch, got, owed, done, subs, connServices, services, answers, dropped, panicked, faults>>
    BY <1>4 DEF handleHealthRequest, Reads, tables
  <2>2. f.nonce \in Nonces
    BY <1>1, <1>4 DEF handleHealthRequest, Nonces
  <2>3. PICK r \in Handler : Goes(c, r) /\ r.pc = "probe" /\ r.m \in ProbeMsg /\ r.todo \subseteq Conns
    <3>1. CASE Goes(c, [pc |-> "probe", todo |-> {c}, m |-> [hresp |-> f.nonce], popped |-> {}])
      BY <2>2, <3>1 DEF Handler, ProbeMsg, Msg
    <3>2. CASE \E S \in SUBSET Conns : Goes(c, [pc |-> "probe", todo |-> S, m |-> [hreq |-> f.nonce], popped |-> {}])
      BY <2>2, <3>2 DEF Handler, ProbeMsg, Msg
    <3>3. QED
      BY <1>4, <3>1, <3>2 DEF handleHealthRequest
  <2>4. probes' \in [Nonces -> Probe]
    <3>1. CASE UNCHANGED probes
      BY <1>1, <3>1 DEF TypeOK
    <3>2. ASSUME NEW S \in SUBSET Conns,
                 probes' = [probes EXCEPT ![f.nonce] =
                     [on |-> TRUE, requester |-> c, services |-> S, responses |-> {}, timers |-> @.timers]]
          PROVE  probes' \in [Nonces -> Probe]
      BY <1>1, <2>2, <3>2 DEF TypeOK, Probe
    <3>3. QED
      BY <1>4, <3>1, <3>2 DEF handleHealthRequest
  <2>5. h' \in [Conns -> Handler] /\ HandlersOK' /\ Advances
    BY <1>1, <2>1, <2>3, Moves DEF Publishing
  <2>6. Channels'
    BY <2>1, <2>5, StillKeeps, InvIsChannels
  <2>7. QED
    BY <1>1, <2>1, <2>4, <2>5, <2>6, InvIsChannels DEF TypeOK, Channels, ChannelTypes
<1>5. QED
  BY <1>2, <1>3, <1>4 DEF Handles

\* The topic classifier has three answers.
LEMMA ClassOf == ASSUME NEW t PROVE classifyTopic(t) \in Classes
  BY DEF classifyTopic, Classes

\* What the handler of c sends is the newest message of its sender.
LEMMA HandlersMessage ==
    ASSUME TypeOK, HandlersOK, NEW c \in Conns, h[c].pc \in Publishing
    PROVE  /\ h[c].m \in Msg /\ h[c].m \in PubMsg /\ h[c].m.from = c /\ Newest(h[c].m)
           /\ h[c] \in Handler
  BY DEF TypeOK, HandlersOK, Msg, Newest, Latest

LEMMA SentIsHandler ==
    ASSUME NEW x \in Handler, NEW s
    PROVE  LET r == [x EXCEPT !.pc = "publish", !.todo = @ \ {s}, !.popped = {}]
           IN  r \in Handler /\ r.pc = "publish" /\ r.m = x.m /\ r.todo \subseteq x.todo
  BY DEF Handler, Publishing

LEMMA DeliverKeeps == ASSUME IInv, NEW c \in Conns, Deliver(c) PROVE IInv'
<1>1. PICK s \in h[c].todo :
          LET k == classifyTopic(h[c].m.t)
              rest == [h[c] EXCEPT !.pc = "publish", !.todo = @ \ {s}, !.popped = {}]
          IN  \/ /\ h[c].pc \in {"publish", "wait"}
                 /\ SelectSend(s[2], k, h[c].m)
                 /\ Goes(c, rest)
              \/ /\ h[c].pc = "publish" /\ Open(s[2]) /\ ~Room(s[2], k)
                 /\ Goes(c, [h[c] EXCEPT !.pc = WhenFull(k), !.popped = {s}])
                 /\ UNCHANGED <<ch, owed, panicked>>
  BY DEF Deliver
<1> DEFINE k == classifyTopic(h[c].m.t)
<1>2. /\ h[c].pc \in Publishing /\ TypeOK /\ HandlersOK /\ Channels /\ frames \in Nat
      /\ UNCHANGED <<got, done, subs, connServices, services, probes, answers, silent, dropped, frames, faults>>
  BY <1>1, InvIsChannels DEF Deliver, Publishing, tables, asked, bounds, IInv, TypeOK
<1>3. /\ h[c].m \in Msg /\ h[c].m \in PubMsg /\ h[c].m.from = c /\ Newest(h[c].m) /\ h[c] \in Handler
      /\ h[c].todo \subseteq Subs /\ k \in Classes
  BY <1>2, HandlersMessage, ClassOf DEF HandlersOK
<1>4. CASE SelectSend(s[2], k, h[c].m) /\ Goes(c, [h[c] EXCEPT !.pc = "publish", !.todo = @ \ {s}, !.popped = {}])
  <2> DEFINE r == [h[c] EXCEPT !.pc = "publish", !.todo = @ \ {s}, !.popped = {}]
  <2>1. Goes(c, r) /\ r \in Handler /\ r.pc = "publish" /\ r.m = h[c].m /\ r.todo \subseteq Subs
    BY <1>3, <1>4, SentIsHandler
  <2>2. h' \in [Conns -> Handler] /\ HandlersOK' /\ Advances
    <3> HIDE DEF r
    <3>1. QED
      BY <1>2, <1>3, <1>4, <2>1, Moves DEF Publishing
  <2>3. Channels'
    BY <1>2, <1>3, <1>4, <2>2, SendKeeps
  <2>4. panicked' \in BOOLEAN
    BY <1>2, <1>4 DEF SelectSend, TypeOK
  <2>5. QED
    BY <1>2, <2>2, <2>3, <2>4, InvIsChannels DEF TypeOK, Channels, ChannelTypes
<1>5. CASE /\ Goes(c, [h[c] EXCEPT !.pc = WhenFull(k), !.popped = {s}])
           /\ UNCHANGED <<ch, owed, panicked>>
  <2> DEFINE r == [h[c] EXCEPT !.pc = WhenFull(k), !.popped = {s}]
  <2>1. /\ Goes(c, r) /\ r \in Handler /\ r.pc \in {"wait", "refill"} /\ r.m = h[c].m /\ r.todo = h[c].todo
        /\ r.pc = "refill" => k # "High"
    BY <1>3, <1>5 DEF Handler, WhenFull, Publishing, Subs
  <2>2. h' \in [Conns -> Handler] /\ HandlersOK' /\ Advances
    <3> HIDE DEF r
    <3>1. QED
      BY <1>2, <1>3, <1>5, <2>1, Moves DEF Publishing
  <2>3. Channels'
    BY <1>2, <1>5, <2>2, StillKeeps
  <2>4. QED
    BY <1>2, <1>5, <2>2, <2>3, InvIsChannels DEF TypeOK, Channels, ChannelTypes
<1>6. QED
  BY <1>1, <1>4, <1>5

LEMMA RefillKeeps == ASSUME IInv, NEW c \in Conns, Refill(c) PROVE IInv'
<1> DEFINE k == classifyTopic(h[c].m.t)
           Rest(s) == [h[c] EXCEPT !.pc = "publish", !.todo = @ \ {s}, !.popped = {}]
<1>1. /\ h[c].pc \in {"refill", "push"} /\ TypeOK /\ HandlersOK /\ Channels /\ frames \in Nat
      /\ UNCHANGED <<got, done, subs, connServices, services, probes, answers, silent, dropped, frames, faults>>
  BY InvIsChannels DEF Refill, tables, asked, bounds, IInv, TypeOK
<1>2. /\ h[c].m \in Msg /\ h[c].m \in PubMsg /\ h[c].m.from = c /\ Newest(h[c].m) /\ h[c] \in Handler
      /\ h[c].todo \subseteq Subs /\ h[c].popped \subseteq Subs /\ k \in Classes /\ k # "High"
      /\ h[c].pc \in Publishing
  BY <1>1, HandlersMessage, ClassOf DEF HandlersOK, Publishing, Handler
<1>3. PICK s \in h[c].popped :
          \/ /\ Open(s[2]) /\ ch[s[2]][k] # << >>
             /\ ch' = [ch EXCEPT ![s[2]][k] = Tail(@)]
             /\ Goes(c, [h[c] EXCEPT !.pc = "push"])
             /\ UNCHANGED <<owed, panicked>>
          \/ /\ panicked' \in BOOLEAN
             /\ Goes(c, Rest(s))
             /\ UNCHANGED <<ch, owed>>
          \/ /\ SelectSend(s[2], k, h[c].m)
             /\ Goes(c, Rest(s))
  BY <1>1 DEF Refill, TypeOK
<1>4. CASE /\ ch[s[2]][k] # << >>
           /\ ch' = [ch EXCEPT ![s[2]][k] = Tail(@)]
           /\ Goes(c, [h[c] EXCEPT !.pc = "push"])
           /\ UNCHANGED <<owed, panicked>>
  <2> DEFINE r == [h[c] EXCEPT !.pc = "push"]
  <2>1. Goes(c, r) /\ r \in Handler /\ r.pc = "push" /\ r.m = h[c].m /\ r.todo = h[c].todo
    BY <1>2, <1>4 DEF Handler, Publishing
  <2>2. h' \in [Conns -> Handler] /\ HandlersOK' /\ Advances
    <3> HIDE DEF r
    <3>1. QED
      BY <1>1, <1>2, <1>4, <2>1, Moves DEF Publishing
  <2>3. Channels'
    <3>1. s[2] \in Conns
      BY <1>2 DEF Subs
    <3>2. Popped(s[2], k)
      BY <1>1, <1>2, <1>4 DEF Popped
    <3>3. QED
      BY <1>1, <1>2, <1>4, <2>2, <3>1, <3>2, PopKeeps
  <2>4. QED
    BY <1>1, <1>4, <2>2, <2>3, InvIsChannels DEF TypeOK, Channels, ChannelTypes
<1>5. CASE panicked' \in BOOLEAN /\ Goes(c, Rest(s)) /\ (UNCHANGED <<ch, owed>> \/ SelectSend(s[2], k, h[c].m))
  <2> DEFINE r == Rest(s)
  <2>1. Goes(c, r) /\ r \in Handler /\ r.pc = "publish" /\ r.m = h[c].m /\ r.todo \subseteq Subs
    BY <1>2, <1>5, SentIsHandler
  <2>2. h' \in [Conns -> Handler] /\ HandlersOK' /\ Advances
    <3> HIDE DEF r
    <3>1. QED
      BY <1>1, <1>2, <1>5, <2>1, Moves DEF Publishing
  <2>3. Channels'
    BY <1>1, <1>2, <1>5, <2>2, StillKeeps, SendKeeps
  <2>4. QED
    BY <1>1, <1>5, <2>2, <2>3, InvIsChannels DEF TypeOK, Channels, ChannelTypes
<1>6. SelectSend(s[2], k, h[c].m) => panicked' \in BOOLEAN
  BY <1>1 DEF SelectSend, TypeOK
<1>7. QED
  BY <1>3, <1>4, <1>5, <1>6

LEMMA PublishedKeeps == ASSUME IInv, NEW c \in Conns, Published(c) PROVE IInv'
<1>1. TypeOK /\ frames \in Nat
  BY DEF IInv, TypeOK
<1>2. h' \in [Conns -> Handler] /\ HandlersOK' /\ Channels'
  BY <1>1, LoopsKeep, IdleIsHandler DEF Published, Loops, bounds
<1>3. QED
  BY <1>1, <1>2, InvIsChannels DEF Published, TypeOK, tables, asked, bounds, Channels, ChannelTypes

LEMMA ProbeSendKeeps == ASSUME IInv, NEW c \in Conns, ProbeSend(c) PROVE IInv'
<1>1. PICK s \in h[c].todo : SelectSend(s, "High", h[c].m) /\ Goes(c, [h[c] EXCEPT !.todo = @ \ {s}])
  BY DEF ProbeSend
<1>2. /\ h[c].pc = "probe" /\ TypeOK /\ HandlersOK /\ Channels /\ frames \in Nat
      /\ UNCHANGED <<got, done, subs, connServices, services, probes, answers, silent, dropped, frames, faults>>
  BY InvIsChannels DEF ProbeSend, tables, asked, bounds, IInv, TypeOK
<1> DEFINE r == [h[c] EXCEPT !.todo = @ \ {s}]
<1>3. /\ h[c].m \in ProbeMsg /\ h[c].m \in Msg /\ ~IsPub(h[c].m)
      /\ Goes(c, r) /\ r \in Handler /\ r.pc = "probe" /\ r.m = h[c].m /\ r.todo \subseteq Conns
  <2>1. h[c] \in Handler /\ h[c].m \in ProbeMsg /\ h[c].todo \subseteq Conns
    BY <1>2 DEF HandlersOK, TypeOK
  <2>2. h[c].m \in Msg /\ ~IsPub(h[c].m)
    BY <2>1 DEF Msg, ProbeMsg, IsPub
  <2>3. QED
    BY <1>1, <1>2, <2>1, <2>2 DEF Handler
<1>4. h' \in [Conns -> Handler] /\ HandlersOK' /\ Advances
  <2> HIDE DEF r
  <2>1. QED
    BY <1>1, <1>2, <1>3, Moves DEF Publishing
<1>5. Channels'
  BY <1>1, <1>2, <1>3, <1>4, SendKeeps DEF Newest, Classes
<1>6. panicked' \in BOOLEAN
  BY <1>1, <1>2 DEF SelectSend, TypeOK
<1>7. QED
  BY <1>2, <1>4, <1>5, <1>6, InvIsChannels DEF TypeOK, Channels, ChannelTypes

LEMMA SelfKeeps == ASSUME IInv, NEW c \in Conns, SelfAnswer(c) \/ SelfAnswered(c) PROVE IInv'
<1>1. /\ h[c].pc \in {"probe", "self"} /\ TypeOK /\ HandlersOK /\ Channels /\ frames \in Nat
      /\ UNCHANGED <<ch, owed, got, done, subs, connServices, services, answers, silent, dropped, panicked,
                     frames, faults>>
  BY InvIsChannels DEF SelfAnswer, SelfAnswered, tables, asked, bounds, IInv, TypeOK
<1>2. PICK r \in Handler : Goes(c, r) /\ r.pc \in {"probe", "self"} /\ r.m \in ProbeMsg /\ r.todo \subseteq Conns
  <2>1. h[c] \in Handler /\ h[c].m \in ProbeMsg /\ h[c].todo \subseteq Conns
    BY <1>1 DEF HandlersOK, TypeOK
  <2>2. CASE SelfAnswer(c)
    <3> DEFINE r == [h[c] EXCEPT !.pc = "self", !.todo = @ \ {c}]
    <3>1. Goes(c, r) /\ r \in Handler /\ r.pc = "self" /\ r.m = h[c].m /\ r.todo \subseteq Conns
      BY <2>1, <2>2 DEF SelfAnswer, Handler
    <3> QED
      BY <2>1, <3>1
  <2>3. CASE SelfAnswered(c)
    <3> DEFINE r == [h[c] EXCEPT !.pc = "probe"]
    <3>1. Goes(c, r) /\ r \in Handler /\ r.pc = "probe" /\ r.m = h[c].m /\ r.todo \subseteq Conns
      BY <2>1, <2>3 DEF SelfAnswered, Handler
    <3> QED
      BY <2>1, <3>1
  <2> QED
    BY <2>2, <2>3
<1>3. h' \in [Conns -> Handler] /\ HandlersOK' /\ Advances
  BY <1>1, <1>2, Moves DEF Publishing
<1>4. Channels'
  BY <1>1, <1>3, StillKeeps, InvIsChannels
<1>5. probes' \in [Nonces -> Probe]
  <2>1. probes \in [Nonces -> Probe]
    BY <1>1 DEF TypeOK
  <2>2. \A n \in Nonces : [probes[n] EXCEPT !.responses = @ \cup {c}] \in Probe
    BY <2>1 DEF Probe
  <2> QED
    BY <2>1, <2>2 DEF SelfAnswer, SelfAnswered, asked
<1>6. QED
  BY <1>1, <1>3, <1>4, <1>5, InvIsChannels DEF TypeOK, Channels, ChannelTypes

LEMMA ProbeStays ==
    ASSUME NEW p \in Probe
    PROVE  /\ [p EXCEPT !.timers = @ + 1] \in Probe
           /\ p.timers > 0 => [p EXCEPT !.timers = @ - 1, !.on = FALSE] \in Probe
<1>1. p.timers \in Nat
  BY DEF Probe
<1>2. p.timers + 1 \in Nat /\ (p.timers > 0 => p.timers - 1 \in Nat)
  BY <1>1
<1>3. \A t \in Nat : [p EXCEPT !.timers = t] \in Probe /\ [p EXCEPT !.timers = t, !.on = FALSE] \in Probe
  BY DEF Probe
<1>4. QED
  BY <1>2, <1>3

LEMMA ProbeSentKeeps == ASSUME IInv, NEW c \in Conns, ProbeSent(c) PROVE IInv'
<1>1. TypeOK /\ frames \in Nat
  BY DEF IInv, TypeOK
<1>2. h' \in [Conns -> Handler] /\ HandlersOK' /\ Channels'
  BY <1>1, LoopsKeep, IdleIsHandler DEF ProbeSent, Loops, bounds
<1>3. probes' \in [Nonces -> Probe]
  <2>1. probes \in [Nonces -> Probe] /\ \A n \in Nonces : [probes[n] EXCEPT !.timers = @ + 1] \in Probe
    BY <1>1, ProbeStays DEF TypeOK
  <2>2. QED
    BY <2>1 DEF ProbeSent
<1>4. QED
  BY <1>1, <1>2, <1>3, InvIsChannels DEF ProbeSent, TypeOK, tables, bounds, Channels, ChannelTypes

LEMMA WritesKeep == ASSUME IInv, NEW c \in Conns, Writes(c) PROVE IInv'
<1>1. PICK k \in Classes : writeBuf(c, k)
  BY DEF Writes
<1>2. TypeOK /\ HandlersOK /\ Channels
  BY InvIsChannels
<1>3. HandlersOK' /\ Advances
  BY <1>1, <1>2, Waits DEF writeBuf
<1>4. Popped(c, k) /\ done \subseteq done'
  BY <1>1 DEF writeBuf, Popped, Closing
<1>5. Channels'
  BY <1>1, <1>2, <1>3, <1>4, PopKeeps DEF writeBuf
<1>6. done' \subseteq Conns /\ faults' \in Nat
  BY <1>1, <1>2 DEF writeBuf, Closing, TypeOK
<1>7. QED
  BY <1>1, <1>2, <1>3, <1>5, <1>6, InvIsChannels DEF writeBuf, TypeOK, tables, asked, Channels, ChannelTypes

LEMMA SilenceKeeps == ASSUME IInv, NEW c \in Conns, Silence(c) PROVE IInv'
<1>1. TypeOK /\ HandlersOK /\ Channels
  BY InvIsChannels
<1>2. HandlersOK' /\ Advances
  BY <1>1, Waits DEF Silence
<1>3. Channels'
  BY <1>1, <1>2, StillKeeps DEF Silence
<1>4. QED
  BY <1>1, <1>2, <1>3, InvIsChannels DEF Silence, TypeOK, tables, asked

LEMMA ReadErrorKeeps == ASSUME IInv, NEW c \in Conns, ReadError(c) PROVE IInv'
<1>1. TypeOK /\ frames \in Nat
  BY DEF IInv, TypeOK
<1>2. h' \in [Conns -> Handler] /\ HandlersOK' /\ Channels'
  <2> DEFINE r == [Idle EXCEPT !.pc = "exit"]
  <2>1. r \in Handler /\ r.pc = "exit"
    BY IdleIsHandler
  <2>2. Goes(c, r) /\ UNCHANGED <<ch, got, owed, done, frames>>
    BY DEF ReadError
  <2> HIDE DEF r
  <2>3. QED
    BY <1>1, <2>1, <2>2, LoopsKeep
<1>3. faults' \in Nat /\ dropped' \subseteq Conns
  BY <1>1 DEF ReadError, TypeOK
<1>4. QED
  BY <1>1, <1>2, <1>3, InvIsChannels DEF ReadError, TypeOK, tables, asked, Channels, ChannelTypes

LEMMA UnsubscribeAllKeeps == ASSUME IInv, NEW c \in Conns, UnsubscribeAll(c) PROVE IInv'
<1>1. TypeOK /\ frames \in Nat
  BY DEF IInv, TypeOK
<1>2. h' \in [Conns -> Handler] /\ HandlersOK' /\ Channels'
  <2> DEFINE r == [Idle EXCEPT !.pc = "gone"]
  <2>1. r \in Handler /\ r.pc = "gone"
    BY IdleIsHandler
  <2>2. Goes(c, r) /\ UNCHANGED <<ch, got, owed, frames>> /\ done \subseteq done'
    BY DEF UnsubscribeAll, Closing, bounds
  <2> HIDE DEF r
  <2>3. QED
    BY <1>1, <2>1, <2>2, LoopsKeep
<1>3. QED
  BY <1>1, <1>2, InvIsChannels
     DEF UnsubscribeAll, unsubscribeAllLocked, Closing, TypeOK, asked, bounds, Channels, ChannelTypes

LEMMA cleanupOnceKeeps == ASSUME IInv, cleanupOnce PROVE IInv'
<1>1. TypeOK /\ HandlersOK /\ Channels
  BY InvIsChannels
<1>2. HandlersOK' /\ Advances
  BY <1>1, Waits DEF cleanupOnce, bounds
<1>3. Channels'
  BY <1>1, <1>2, StillKeeps DEF cleanupOnce
<1>4. QED
  BY <1>1, <1>2, <1>3, InvIsChannels DEF cleanupOnce, unsubscribeAllLocked, TypeOK, asked, bounds

LEMMA finishHealthProbeKeeps == ASSUME IInv, NEW n \in DOMAIN probes, finishHealthProbe(n) PROVE IInv'
<1>1. TypeOK /\ HandlersOK /\ Channels /\ n \in Nonces /\ probes[n] \in Probe
  BY InvIsChannels DEF TypeOK
<1>2. HandlersOK' /\ Advances
  BY <1>1, Waits DEF finishHealthProbe, bounds
<1>3. Channels'
  BY <1>1, <1>2, StillKeeps DEF finishHealthProbe
<1>4. probes' \in [Nonces -> Probe]
  <2>1. probes[n].timers > 0 => [probes[n] EXCEPT !.timers = @ - 1, !.on = FALSE] \in Probe
    BY <1>1, ProbeStays
  <2>2. probes \in [Nonces -> Probe]
    BY <1>1 DEF TypeOK
  <2>3. probes' = [probes EXCEPT ![n] = [probes[n] EXCEPT !.timers = @ - 1, !.on = FALSE]]
    BY <1>1, <2>2 DEF finishHealthProbe, Probe
  <2>4. QED
    BY <1>1, <2>1, <2>2, <2>3 DEF finishHealthProbe
<1>5. answers' \subseteq [to : Conns \cup {NoName}, rows : SUBSET Row]
  <2> DEFINE rows == {[c |-> c, alive |-> Open(c), up |-> c \in probes[n].responses] : c \in probes[n].services}
  <2>1. rows \subseteq Row
    <3>1. ASSUME NEW c \in probes[n].services PROVE c \in Conns
      BY <1>1, <3>1 DEF Probe
    <3>2. \A c \in Conns, a \in BOOLEAN, u \in BOOLEAN : [c |-> c, alive |-> a, up |-> u] \in Row
      BY DEF Row
    <3>3. \A c \in Conns : Open(c) \in BOOLEAN /\ (c \in probes[n].responses) \in BOOLEAN
      BY DEF Open
    <3>4. QED
      BY <3>1, <3>2, <3>3, Zenon
  <2>2. [to |-> probes[n].requester, rows |-> rows] \in [to : Conns \cup {NoName}, rows : SUBSET Row]
    BY <1>1, <2>1 DEF Probe
  <2>3. answers' \subseteq answers \cup {[to |-> probes[n].requester, rows |-> rows]}
    BY DEF finishHealthProbe
  <2>4. QED
    BY <1>1, <2>2, <2>3 DEF TypeOK
<1>6. QED
  BY <1>1, <1>2, <1>3, <1>4, <1>5, InvIsChannels DEF finishHealthProbe, TypeOK, tables, bounds

LEMMA AnswerProbeKeeps == ASSUME IInv, NEW a \in answers, AnswerProbe(a) PROVE IInv'
<1>1. TypeOK /\ HandlersOK /\ Channels
  BY InvIsChannels
<1>2. HandlersOK' /\ Advances
  BY <1>1, Waits DEF AnswerProbe, bounds
<1>3. [rows |-> a.rows] \in Msg /\ ~IsPub([rows |-> a.rows])
  BY <1>1 DEF TypeOK, Msg, IsPub
<1>4. Channels'
  <2>1. SelectSend(a.to, "High", [rows |-> a.rows]) /\ UNCHANGED <<got, done>>
    BY DEF AnswerProbe
  <2>2. QED
    BY <1>1, <1>2, <1>3, <2>1, SendKeeps DEF Newest, Classes
<1>5. panicked' \in BOOLEAN
  BY <1>1 DEF AnswerProbe, SelectSend, TypeOK
<1>6. QED
  BY <1>1, <1>2, <1>4, <1>5, InvIsChannels DEF AnswerProbe, TypeOK, tables, bounds, Channels, ChannelTypes

-----------------------------------------------------------------------------
LEMMA InitIsInv == Init => IInv
<1> SUFFICES ASSUME Init PROVE IInv
  OBVIOUS
<1>1. h \in [Conns -> Handler] /\ \A c \in Conns : h[c].pc = "none"
  BY IdleIsHandler DEF Init
<1>2. probes \in [Nonces -> Probe]
  BY DEF Init, Nonces, NoProbe, Probe
<1>3. << >> \in Seq(Msg) /\ DOMAIN << >> = {}
  OBVIOUS
<1>4. ChannelTypes /\ \A c \in Conns : got[c] = << >> /\ \A k \in Classes : ch[c][k] = << >>
  BY <1>3 DEF Init, ChannelTypes
<1>5. TypeOK
  BY <1>1, <1>2, <1>4 DEF Init, TypeOK, ChannelTypes
<1>6. HandlersOK
  BY <1>1 DEF HandlersOK, Publishing
<1>7. ClassesKept /\ NoneNewer /\ InOrder
  BY <1>3, <1>4 DEF ClassesKept, NoneNewer, InOrder, Lined
<1>8. HighKept
  BY DEF Init, HighKept
<1>9. QED
  BY <1>5, <1>6, <1>7, <1>8 DEF IInv, RouterDelivers

LEMMA NextKeeps == IInv /\ [Next]_vars => IInv'
<1> SUFFICES ASSUME IInv, [Next]_vars PROVE IInv'
  OBVIOUS
<1>1. ASSUME NEW c \in Conns, Runs(c) PROVE IInv'
  BY <1>1, DeliverKeeps, RefillKeeps, PublishedKeeps, ProbeSendKeeps, ProbeSentKeeps, SelfKeeps DEF Runs
<1>2. ASSUME NEW c \in Conns, Accept(c) \/ (\E f \in Frames[c] : Handles(c, f)) \/ Writes(c) PROVE IInv'
  BY <1>2, AcceptKeeps, HandlesKeeps, WritesKeep
<1>3. ASSUME NEW c \in Conns, Silence(c) \/ ReadError(c) \/ UnsubscribeAll(c) PROVE IInv'
  BY <1>3, SilenceKeeps, ReadErrorKeeps, UnsubscribeAllKeeps
<1>4. ASSUME NEW n \in DOMAIN probes, finishHealthProbe(n) PROVE IInv'
  BY <1>4, finishHealthProbeKeeps
<1>5. ASSUME NEW a \in answers, AnswerProbe(a) PROVE IInv'
  BY <1>5, AnswerProbeKeeps
<1>6. CASE UNCHANGED vars
  <2>1. /\ TypeOK' <=> TypeOK
        /\ HandlersOK' <=> HandlersOK
        /\ ClassesKept' <=> ClassesKept
    BY <1>6 DEF vars, tables, asked, bounds, TypeOK, HandlersOK, ClassesKept
  <2>2. NoneNewer' <=> NoneNewer
    BY <1>6 DEF vars, bounds, NoneNewer, Reached, Latest
  <2>3. RouterDelivers' <=> RouterDelivers
    BY <1>6 DEF vars, RouterDelivers, InOrder, HighKept, Open
  <2>4. QED
    BY <2>1, <2>2, <2>3 DEF IInv
<1>7. QED
  BY <1>1, <1>2, <1>3, <1>4, <1>5, <1>6, cleanupOnceKeeps DEF Next

\* Every table, channel and handler keeps its type whatever frames come and
\* whoever goes (router.go, client.go, health.go).
THEOREM RouterTypeCorrect == Spec => []TypeOK
<1>1. IInv => TypeOK
  BY DEF IInv
<1>2. QED
  BY <1>1, InitIsInv, NextKeeps, PTL DEF Spec

\* What a connection publishes in one class reaches each subscriber in order,
\* and no High frame a channel accepted is given up while its connection is open
\* (router.go: Publish, writer), for channels of any size.
THEOREM RouterDeliversHolds == Spec => []RouterDelivers
<1>1. IInv => RouterDelivers
  BY DEF IInv
<1>2. QED
  BY <1>1, InitIsInv, NextKeeps, PTL DEF Spec
-----------------------------------------------------------------------------
(***************************************************************************)
(* The connection.  A frame is where it was put, in order, from the queue  *)
(* to the bytes the peer has not parsed: Bytes are whole frames one after  *)
(* the other from the first undelivered one on, the ring and the queue go  *)
(* on after them.  Each step moves the boundary between two of the parts.  *)
(***************************************************************************)
\* The bytes that are on the way to the peer's parser, in order.
Bytes == rbuf \o wire
\* The frame that follows what was written.
ToWrite == IF Bytes = << >> THEN Len(recv) + 1 ELSE Bytes[Len(Bytes)][1] + 1

FrameNo == 1 .. MaxSend
Cell == FrameNo \X Nat
InFlight == [f : FrameNo, off : Nat]
Submission == [s : Nat, f : FrameNo, off : Nat]
Completion == [tag : Nat, res : Int]
Fill == {"fill", "prep", "lost"}
ThreadState == {"idle", "push", "start", "again", "closing"} \cup Fill
ConnTypeOK ==
    /\ pushed \in 0 .. MaxSend /\ seqNo \in Nat /\ damage \in Nat /\ writeFaults \in Nat
    /\ queue \in Seq(FrameNo)
    /\ flight \in [DOMAIN flight -> InFlight] /\ DOMAIN flight \subseteq Nat
    /\ sq \in Seq(Submission) /\ cq \in Seq(Completion)
    /\ wire \in Seq(Cell) /\ rbuf \in Seq(Cell) /\ recv \in Seq(FrameNo)
    /\ pc \in [Threads -> ThreadState]
    /\ garbled \in BOOLEAN /\ fd \in BOOLEAN /\ shutting \in BOOLEAN /\ closePending \in BOOLEAN
\* Every number in use was given out, and there are no more than frames.
Numbered ==
    /\ seqNo + Len(queue) <= pushed
    /\ \A s \in DOMAIN flight : s < seqNo
    /\ \A i \in 1 .. Len(sq) : sq[i].s < seqNo
    /\ \A i \in 1 .. Len(cq) : cq[i].tag < TagBase + seqNo
\* A connection that is being closed or destroyed takes no more frames.
ClosingShuts == closePending \/ owner # "idle" => shutting \/ ~fd
\* In the loop of start_next_writes() there is one thread, on an open connection,
\* with a frame for the slot it holds; once it has put a frame into the ring there
\* are writes in flight.  The rest of a write is one of a write that came short.
LoopOK ==
    /\ \A t, u \in Threads : pc[t] \in Fill /\ pc[u] \in Fill => t = u
    /\ \A t \in Threads :
          /\ pc[t] \in Fill => ~shutting /\ fd /\ (room # WriteBatch => DOMAIN flight # {})
          /\ pc[t] \in {"prep", "lost"} => queue # << >>
          /\ pc[t] = "lost" => struck # {} /\ damage # 0
    /\ pc["poll"] = "again" => again \in Submission /\ again.s < seqNo /\ damage # 0
\* The bytes b are whole frames, one after the other: each byte is followed by
\* the rest of its frame, and that by the first byte of the next.
EndOf(b, i) == i + FrameLen[b[i][1]] - b[i][2]
Whole(b) ==
    \A i \in 1 .. Len(b) :
        /\ b[i][2] \in 1 .. FrameLen[b[i][1]] /\ EndOf(b, i) <= Len(b)
        /\ \A j \in i .. EndOf(b, i) : b[j] = <<b[i][1], b[i][2] + j - i>>
        /\ EndOf(b, i) < Len(b) => b[EndOf(b, i) + 1] = <<b[i][1] + 1, 1>>
StreamInOrder ==
    /\ ~garbled /\ \A i \in 1 .. Len(recv) : recv[i] = i
    /\ Bytes # << >> => Bytes[1] = <<Len(recv) + 1, 1>>
    /\ Whole(Bytes)
\* What is submitted and what is queued go on where the bytes end.
RingInOrder == \A i \in 1 .. Len(sq) : sq[i].f = ToWrite + i - 1 /\ sq[i].off = 0
QueueInOrder ==
    /\ \A i \in 1 .. Len(queue) : queue[i] = ToWrite + Len(sq) + i - 1
    /\ pushed = ToWrite + Len(sq) + Len(queue) - 1
\* A submission is of the frame in flight, and its completion is of all of it.
FlightMatches ==
    \A s \in DOMAIN flight :
        /\ flight[s].off = 0
        /\ \A i \in 1 .. Len(sq) : sq[i].s = s => sq[i].f = flight[s].f
        /\ \A i \in 1 .. Len(cq) : cq[i].tag = TagBase + s => cq[i].res = FrameLen[flight[s].f]
WritesInOrder ==
    damage = 0 => /\ StreamInOrder
                  /\ fd => RingInOrder /\ FlightMatches
                  /\ fd /\ ~shutting => QueueInOrder
StallFree == struck = {} => NoStall
ConnInv == ConnTypeOK /\ Numbered /\ ClosingShuts /\ LoopOK /\ StallFree /\ WritesInOrder

\* A completion carries its write's number in kTagBits bits: there are as many
\* as a connection has frames.  Past them the code does not recognise its own
\* completions.
TagsSuffice == TagBase + MaxSend <= TagSpace

\* What a frame, and a byte of a stream, is.
LEMMA LengthFacts ==
    ASSUME NEW f \in FrameNo
    PROVE  f \in Nat /\ FrameLen[f] \in Nat /\ FrameLen[f] >= 2 /\ FrameLen[f] < Word
  BY ConnAssumption DEF MaxSend, FrameNo

LEMMA CellFacts ==
    ASSUME NEW b \in Seq(Cell), NEW i \in 1 .. Len(b)
    PROVE  /\ b[i] \in Cell /\ b[i][1] \in FrameNo /\ b[i][1] \in Nat /\ b[i][2] \in Nat
           /\ FrameLen[b[i][1]] \in Nat /\ Len(b) \in Nat
<1>1. b[i] \in Cell /\ Len(b) \in Nat
  OBVIOUS
<1>2. b[i][1] \in FrameNo /\ b[i][2] \in Nat
  BY <1>1 DEF Cell
<1> QED
  BY <1>1, <1>2, LengthFacts

\* Two sequences in a row, place by place.
LEMMA BothAt ==
    ASSUME NEW S, NEW p \in Seq(S), NEW q \in Seq(S)
    PROVE  /\ p \o q \in Seq(S) /\ Len(p \o q) = Len(p) + Len(q) /\ Len(p) \in Nat /\ Len(q) \in Nat
           /\ \A i \in 1 .. Len(p) : (p \o q)[i] = p[i]
           /\ \A i \in 1 .. Len(q) : (p \o q)[Len(p) + i] = q[i]
<1> DEFINE d == p \o q
<1>1. /\ d \in Seq(S) /\ Len(d) = Len(p) + Len(q) /\ Len(p) \in Nat /\ Len(q) \in Nat
      /\ \A i \in 1 .. Len(p) + Len(q) : d[i] = IF i <= Len(p) THEN p[i] ELSE q[i - Len(p)]
  BY ConcatProperties
<1> HIDE DEF d
<1>2. \A i \in 1 .. Len(q) : Len(p) + i \in 1 .. Len(p) + Len(q) /\ ~(Len(p) + i <= Len(p))
                            /\ (Len(p) + i) - Len(p) = i
  BY <1>1
<1>3. \A i \in 1 .. Len(p) : i \in 1 .. Len(p) + Len(q) /\ i <= Len(p)
  BY <1>1
<1> QED
  BY <1>1, <1>2, <1>3 DEF d

\* Remainders: of what is small enough, and of anything.
LEMMA ModSmall == ASSUME NEW b \in Nat \ {0}, NEW a \in 0 .. b - 1 PROVE a % b = a
  OBVIOUS
LEMMA ModNat == ASSUME NEW b \in Nat \ {0}, NEW a \in Int PROVE a % b \in Nat
  OBVIOUS

\* The rest of a sequence, and two in a row, place by place.
LEMMA RestAt ==
    ASSUME NEW S, NEW q \in Seq(S), NEW n \in 0 .. Len(q)
    PROVE  /\ SubSeq(q, n + 1, Len(q)) \in Seq(S)
           /\ Len(SubSeq(q, n + 1, Len(q))) = Len(q) - n
           /\ \A i \in 1 .. Len(q) - n : SubSeq(q, n + 1, Len(q))[i] = q[n + i]
<1> DEFINE N == Len(q)
           d == SubSeq(q, n + 1, N)
<1>1. N \in Nat /\ n \in Nat /\ n <= N /\ \A k \in (n + 1) .. N : q[k] \in S
  OBVIOUS
<1> HIDE DEF N
<1>2. /\ d \in Seq(S)
      /\ Len(d) = IF n + 1 <= N THEN N - (n + 1) + 1 ELSE 0
      /\ \A k \in 1 .. N - (n + 1) + 1 : d[k] = q[(n + 1) + k - 1]
  BY <1>1, SubSeqProperties
<1> HIDE DEF d
<1>3. Len(d) = N - n
  BY <1>1, <1>2
<1>4. ASSUME NEW i \in 1 .. N - n PROVE d[i] = q[n + i]
  <2>1. i \in 1 .. N - (n + 1) + 1 /\ (n + 1) + i - 1 = n + i
    BY <1>1
  <2> QED
    BY <1>2, <2>1
<1> QED
  BY <1>2, <1>3, <1>4 DEF d, N

LEMMA FirstAt ==
    ASSUME NEW S, NEW q \in Seq(S), NEW n \in 0 .. Len(q)
    PROVE  /\ SubSeq(q, 1, n) \in Seq(S) /\ Len(SubSeq(q, 1, n)) = n
           /\ \A i \in 1 .. n : SubSeq(q, 1, n)[i] = q[i]
<1>1. n \in Nat /\ n \in Int /\ 1 \in Int /\ \A i \in 1 .. n : q[i] \in S
  OBVIOUS
<1>2. /\ SubSeq(q, 1, n) \in Seq(S)
      /\ Len(SubSeq(q, 1, n)) = IF 1 <= n THEN n - 1 + 1 ELSE 0
      /\ \A i \in 1 .. n - 1 + 1 : SubSeq(q, 1, n)[i] = q[1 + i - 1]
  BY <1>1, SubSeqProperties
<1>3. ASSUME NEW i \in 1 .. n PROVE SubSeq(q, 1, n)[i] = q[i]
  <2>1. i \in 1 .. n - 1 + 1 /\ 1 + i - 1 = i
    BY <1>1
  <2> QED
    BY <1>2, <2>1
<1> QED
  BY <1>1, <1>2, <1>3

LEMMA Empty ==
    /\ Len(<< >>) = 0 /\ DOMAIN << >> = {}
    /\ \A S : << >> \in Seq(S) /\ << >> \in [{} -> S]
  OBVIOUS

LEMMA StreamSame ==
    ASSUME UNCHANGED <<wire, rbuf, recv, garbled>>
    PROVE  /\ StreamInOrder' <=> StreamInOrder
           /\ ToWrite' = ToWrite
BY DEF StreamInOrder, ToWrite, Bytes

LEMMA ConnInitInv == ConnInit => ConnInv
<1> SUFFICES ASSUME ConnInit PROVE ConnInv
  OBVIOUS
<1>1. /\ queue = << >> /\ flight = << >> /\ sq = << >> /\ cq = << >> /\ wire = << >> /\ rbuf = << >>
      /\ recv = << >> /\ pushed = 0 /\ seqNo = 0 /\ damage = 0 /\ ~garbled /\ ~fd
  BY DEF ConnInit
<1>2. MaxSend \in Nat
  BY ConnAssumption DEF MaxSend
<1>3. ConnTypeOK
  <2>1. flight \in [DOMAIN flight -> InFlight] /\ DOMAIN flight \subseteq Nat
    BY <1>1, Empty
  <2>2. pc \in [Threads -> ThreadState] /\ pushed \in 0 .. MaxSend /\ seqNo \in Nat
        /\ writeFaults \in Nat /\ damage \in Nat
    BY <1>1, <1>2 DEF ConnInit, ThreadState
  <2>3. garbled \in BOOLEAN /\ fd \in BOOLEAN /\ shutting \in BOOLEAN /\ closePending \in BOOLEAN
    BY DEF ConnInit
  <2> QED
    BY <1>1, <2>1, <2>2, <2>3, Empty DEF ConnTypeOK
<1>4. Bytes = << >> /\ ToWrite = 1
  BY <1>1, Empty DEF Bytes, ToWrite
<1>5. Numbered /\ ClosingShuts /\ StallFree /\ LoopOK
  <2>1. Numbered /\ ClosingShuts /\ StallFree
    BY <1>1, Empty DEF Numbered, ClosingShuts, StallFree, NoStall, QueueStarted, FlightBacked, RingSubmitted
  <2>2. \A t \in Threads : pc[t] = "idle"
    BY DEF ConnInit
  <2>3. "poll" \in Threads
    BY DEF Threads
  <2> QED
    BY <2>1, <2>2, <2>3 DEF LoopOK, Fill
<1>6. WritesInOrder
  BY <1>1, <1>4, Empty DEF WritesInOrder, StreamInOrder, RingInOrder, QueueInOrder, FlightMatches, Whole
<1> QED
  BY <1>3, <1>5, <1>6 DEF ConnInv

\* Steps of threads and of the owner that leave the bytes and the rings alone.
Busy == {"start"} \cup Fill
LEMMA ConnRest ==
    ASSUME ConnInv, UNCHANGED <<writeVars, cq, wire, peerVars, pushed, damage, fd>>, writeFaults' \in Nat,
           pc' \in [Threads -> ThreadState], closePending' \in BOOLEAN, shutting' \in BOOLEAN,
           shutting => shutting', ClosingShuts', LoopOK',
           struck' = {} /\ ~shutting' /\ fd =>
               /\ struck = {}
               /\ queue = << >> \/ \A t \in Threads : pc[t] \in Busy => pc'[t] \in Busy
               /\ \A t \in Threads : pc[t] \in Fill => pc'[t] \in Fill
               /\ pc["poll"] = "again" => pc'["poll"] = "again" /\ again' = again
    PROVE  ConnInv'
<1>1. (StreamInOrder' <=> StreamInOrder) /\ ToWrite' = ToWrite
  BY StreamSame DEF peerVars
<1>2. ConnTypeOK' /\ Numbered'
  BY DEF ConnInv, ConnTypeOK, Numbered, writeVars, ringVars, peerVars
<1>3. StallFree'
  <2> SUFFICES ASSUME struck' = {}, ~shutting', fd PROVE NoStall'
    BY DEF StallFree, NoStall, QueueStarted, FlightBacked, RingSubmitted
  <2>1. ~shutting /\ struck = {} /\ UNCHANGED <<queue, flight, sq, sub, cq, fd>>
    BY DEF writeVars, ringVars
  <2>2. NoStall
    BY <2>1 DEF ConnInv, StallFree
  <2>3. QueueStarted'
    BY <2>1, <2>2 DEF NoStall, QueueStarted, Busy, Fill
  <2>4. FlightBacked'
    BY <2>1, <2>2 DEF NoStall, FlightBacked
  <2>5. RingSubmitted'
    BY <2>1, <2>2 DEF NoStall, RingSubmitted, Filling, Fill
  <2> QED
    BY <2>3, <2>4, <2>5 DEF NoStall
<1>4. WritesInOrder'
  BY <1>1, StreamSame
     DEF ConnInv, WritesInOrder, RingInOrder, QueueInOrder, FlightMatches, writeVars, ringVars, peerVars
<1> QED
  BY <1>2, <1>3, <1>4 DEF ConnInv

\* No thread comes into the loop, and if one is in it nothing it relies on moves.
LEMMA LoopSame ==
    ASSUME ConnInv, UNCHANGED <<seqNo, room, again, damage>>,
           \A t \in Threads : pc'[t] \in Fill => pc'[t] = pc[t],
           pc'["poll"] = "again" => pc["poll"] = "again",
           \/ ~Filling
           \/ UNCHANGED <<queue, flight, shutting, fd>> /\ struck \subseteq struck'
    PROVE  LoopOK'
<1>1. LoopOK
  BY DEF ConnInv
<1>2. CASE ~Filling
  <2>1. \A t \in Threads : pc[t] \notin Fill
    BY <1>2 DEF Filling, Fill
  <2>2. \A t \in Threads : pc'[t] \notin Fill
    BY <2>1
  <2> QED
    BY <1>1, <2>2 DEF LoopOK, Fill
<1>3. CASE UNCHANGED <<queue, flight, shutting, fd>> /\ struck \subseteq struck'
  <2>1. \A t, u \in Threads : pc'[t] \in Fill /\ pc'[u] \in Fill => t = u
    BY <1>1 DEF LoopOK
  <2>2. ASSUME NEW t \in Threads
        PROVE  /\ pc'[t] \in Fill => ~shutting' /\ fd' /\ (room' # WriteBatch => DOMAIN flight' # {})
               /\ pc'[t] \in {"prep", "lost"} => queue' # << >>
               /\ pc'[t] = "lost" => struck' # {} /\ damage' # 0
    <3>1. pc'[t] \in {"prep", "lost"} => pc'[t] \in Fill
      BY DEF Fill
    <3>2. pc'[t] = "lost" => struck # {} /\ damage # 0
      BY <1>1, <3>1 DEF LoopOK
    <3>3. struck # {} => struck' # {}
      BY <1>3
    <3> QED
      BY <1>1, <1>3, <3>1, <3>2, <3>3 DEF LoopOK
  <2>3. pc'["poll"] = "again" => again' \in Submission /\ again'.s < seqNo' /\ damage' # 0
    BY <1>1 DEF LoopOK
  <2> QED
    BY <2>1, <2>2, <2>3 DEF LoopOK
<1> QED
  BY <1>2, <1>3

\* Steps that give up what is queued, and maybe what is in flight, for good.
LEMMA ConnClears ==
    ASSUME ConnInv, UNCHANGED <<seqNo, wire, peerVars, pushed, damage>>, writeFaults' \in Nat,
           queue' = << >>, shutting' \/ ~fd', fd' => fd,
           \/ UNCHANGED <<flight, sq, cq>>
           \/ flight' = << >> /\ sq' = << >> /\ cq' = << >> /\ ~fd',
           pc' \in [Threads -> ThreadState],
           closePending' \in BOOLEAN, shutting' \in BOOLEAN, fd' \in BOOLEAN,
           ClosingShuts', LoopOK'
    PROVE  ConnInv'
<1>1. (StreamInOrder' <=> StreamInOrder) /\ ToWrite' = ToWrite
  BY StreamSame DEF peerVars
<1>2. ConnTypeOK'
  BY Empty DEF ConnInv, ConnTypeOK, peerVars
<1>3. Numbered'
  <2>1. Len(queue) \in Nat /\ Len(queue') = 0 /\ seqNo \in Nat /\ pushed \in Int /\ TagBase \in Nat
    BY Empty, ConnAssumption DEF ConnInv, ConnTypeOK
  <2>2. CASE UNCHANGED <<flight, sq, cq>>
    BY <2>1, <2>2 DEF ConnInv, Numbered
  <2>3. CASE flight' = << >> /\ sq' = << >> /\ cq' = << >>
    BY <2>1, <2>3, Empty DEF ConnInv, Numbered
  <2> QED
    BY <2>2, <2>3
<1>4. StallFree'
  BY DEF StallFree, NoStall, QueueStarted, FlightBacked, RingSubmitted
<1>5. WritesInOrder'
  BY <1>1 DEF ConnInv, WritesInOrder, RingInOrder, QueueInOrder, FlightMatches
<1> QED
  BY <1>2, <1>3, <1>4, <1>5 DEF ConnInv

LEMMA ConnectStep == ASSUME ConnInv, connect PROVE ConnInv'
<1>1. /\ queue' = << >> /\ flight' = << >> /\ sq' = << >> /\ cq' = << >> /\ wire' = << >> /\ rbuf' = << >>
      /\ recv' = << >> /\ pushed' = 0 /\ seqNo' = 0 /\ damage' = 0 /\ garbled' = FALSE
      /\ fd' = TRUE /\ shutting' = FALSE /\ closePending' = FALSE /\ owner' = "idle"
      /\ sub' = 0 /\ pc' = [t \in Threads |-> "idle"] /\ UNCHANGED writeFaults
  BY DEF connect, Freed
<1>2. MaxSend \in Nat
  BY ConnAssumption DEF MaxSend
<1>3. ConnTypeOK'
  <2>1. flight' \in [DOMAIN flight' -> InFlight] /\ DOMAIN flight' \subseteq Nat
    BY <1>1, Empty
  <2>2. pc' \in [Threads -> ThreadState] /\ pushed' \in 0 .. MaxSend /\ seqNo' \in Nat
        /\ writeFaults' \in Nat /\ damage' \in Nat
    BY <1>1, <1>2 DEF ConnInv, ConnTypeOK, ThreadState
  <2>3. garbled' \in BOOLEAN /\ fd' \in BOOLEAN /\ shutting' \in BOOLEAN /\ closePending' \in BOOLEAN
    BY <1>1
  <2> QED
    BY <1>1, <2>1, <2>2, <2>3, Empty DEF ConnTypeOK
<1>4. Bytes' = << >> /\ ToWrite' = 1
  BY <1>1, Empty DEF Bytes, ToWrite
<1>5. Numbered' /\ ClosingShuts' /\ StallFree' /\ LoopOK'
  <2>1. Numbered' /\ ClosingShuts' /\ StallFree'
    BY <1>1, Empty DEF Numbered, ClosingShuts, StallFree, NoStall, QueueStarted, FlightBacked, RingSubmitted
  <2>2. (\A t \in Threads : pc'[t] = "idle") /\ "poll" \in Threads
    BY <1>1 DEF Threads
  <2> QED
    BY <2>1, <2>2 DEF LoopOK, Fill
<1>6. WritesInOrder'
  BY <1>1, <1>4, Empty DEF WritesInOrder, StreamInOrder, RingInOrder, QueueInOrder, FlightMatches, Whole
<1> QED
  BY <1>3, <1>5, <1>6 DEF ConnInv

\* Whoever closes.
LEMMA CloseSteps ==
    ASSUME ConnInv,
           \/ \E t \in Threads : publish(t)
           \/ PeerClosed \/ BadInput \/ CloseOnFull \/ PollExits \/ disconnect \/ Joined \/ Destroy \/ Destroyed
    PROVE  ConnInv'
<1>t. /\ pc \in [Threads -> ThreadState] /\ writeFaults \in Nat /\ "poll" \in Threads
      /\ closePending \in BOOLEAN /\ shutting \in BOOLEAN /\ fd \in BOOLEAN
      /\ closePending \/ owner # "idle" => shutting \/ ~fd
  BY DEF ConnInv, ConnTypeOK, ClosingShuts, Threads
\* Nobody is in the loop of a connection that is closing.
<1>l. shutting \/ ~fd => ~Filling
  BY DEF ConnInv, LoopOK, Filling, Fill
<1>1. ASSUME NEW t \in Threads, publish(t) PROVE ConnInv'
  <2>1. pc' = [pc EXCEPT ![t] = "push"] /\ pc[t] = "idle" /\ UNCHANGED <<writeVars, loopVars, cq, wire, peerVars,
             pushed, closeVars, owner, damage, lifeBounds>>
    BY <1>1 DEF publish
  <2>2. ClosingShuts'
    BY <1>t, <2>1 DEF ClosingShuts, closeVars
  <2>3. /\ pc' \in [Threads -> ThreadState] /\ pc'[t] = "push"
        /\ \A u \in Threads : u # t => pc'[u] = pc[u]
    BY <1>t, <2>1 DEF ThreadState
  <2>4. /\ \A u \in Threads : pc'[u] \in Fill => pc'[u] = pc[u]
        /\ pc'["poll"] = "again" => pc["poll"] = "again"
        /\ \A u \in Threads : pc[u] \in Busy => pc'[u] \in Busy
        /\ \A u \in Threads : pc[u] \in Fill => pc'[u] \in Fill
        /\ pc["poll"] = "again" => pc'["poll"] = "again"
    BY <1>t, <2>1, <2>3 DEF Fill, Busy
  <2>5. UNCHANGED <<queue, flight, seqNo, room, again, struck, shutting, fd, damage, closePending, writeFaults>>
    BY <2>1 DEF writeVars, loopVars, closeVars, lifeBounds
  <2>6. LoopOK'
    BY <2>4, <2>5, LoopSame
  <2> QED
    BY <1>t, <2>1, <2>2, <2>3, <2>4, <2>5, <2>6, ConnRest
<1>2. CASE PeerClosed
  <2>1. /\ UNCHANGED <<seqNo, wire, peerVars, pushed, pc, damage, loopVars>> /\ writeFaults' = writeFaults + 1
        /\ shutting' = TRUE /\ fd' = FALSE /\ closePending' = FALSE /\ ~Filling
        /\ queue' = << >> /\ flight' = << >> /\ sq' = << >> /\ cq' = << >>
    BY <1>2 DEF PeerClosed, Cleanup, Fault
  <2>2. ClosingShuts'
    BY <2>1 DEF ClosingShuts
  <2>3. writeFaults' \in Nat
    BY <1>t, <2>1
  <2>4. (fd' => fd) /\ fd' \in BOOLEAN /\ shutting' \in BOOLEAN /\ closePending' \in BOOLEAN
    BY <1>t, <2>1, Zenon
  <2>5. pc' \in [Threads -> ThreadState] /\ (shutting' \/ ~fd')
        /\ (UNCHANGED <<flight, sq, cq>> \/ (flight' = << >> /\ sq' = << >> /\ cq' = << >> /\ ~fd'))
    BY <1>t, <2>1
  <2>6. LoopOK'
    BY <2>1, LoopSame DEF loopVars
  <2> QED
    BY <2>1, <2>2, <2>3, <2>4, <2>5, <2>6, ConnClears
<1>3. ASSUME CloseOnPoll, UNCHANGED pc \/ pc' = [pc EXCEPT !["poll"] = "idle"],
             writeFaults' = writeFaults + 1 \/ UNCHANGED writeFaults
      PROVE  ConnInv'
  <2>1. /\ UNCHANGED <<seqNo, wire, peerVars, pushed, damage, flight, sq, cq, loopVars>> /\ ~Filling
        /\ shutting' = TRUE /\ (fd' = fd \/ fd' = FALSE) /\ (closePending' = closePending \/ closePending' = TRUE)
        /\ queue' = << >>
    BY <1>3 DEF CloseOnPoll, ringVars
  <2>2. ClosingShuts'
    BY <2>1 DEF ClosingShuts
  <2>3. writeFaults' \in Nat
    BY <1>t, <1>3
  <2>4. (fd' => fd) /\ fd' \in BOOLEAN /\ shutting' \in BOOLEAN /\ closePending' \in BOOLEAN
    <3>1. fd' = fd \/ fd' = FALSE
      BY <2>1
    <3>2. closePending' = closePending \/ closePending' = TRUE
      BY <2>1
    <3>3. (fd' => fd) /\ fd' \in BOOLEAN
      <4>1. CASE fd' = fd
        BY <1>t, <4>1
      <4>2. CASE fd' = FALSE
        BY <4>2
      <4> QED
        BY <3>1, <4>1, <4>2
    <3>4. closePending' \in BOOLEAN
      BY <1>t, <3>2, Zenon
    <3>5. shutting' \in BOOLEAN
      BY <2>1
    <3> QED
      BY <3>3, <3>4, <3>5
  <2>5. /\ pc' \in [Threads -> ThreadState] /\ pc'["poll"] \in {"idle", pc["poll"]}
        /\ \A t \in Threads : t # "poll" => pc'[t] = pc[t]
    BY <1>t, <1>3 DEF ThreadState
  <2>6. LoopOK'
    <3>1. /\ \A t \in Threads : pc'[t] \in Fill => pc'[t] = pc[t]
          /\ pc'["poll"] = "again" => pc["poll"] = "again"
      BY <2>5 DEF Fill
    <3> QED
      BY <2>1, <3>1, LoopSame DEF loopVars
  <2> QED
    BY <2>1, <2>2, <2>3, <2>4, <2>5, <2>6, ConnClears
<1>4. CASE PollExits
  <2>1. ClosingShuts'
    BY <1>4, <1>t DEF ClosingShuts, PollExits, closeVars
  <2>2. UNCHANGED <<queue, flight, seqNo, room, again, struck, shutting, fd, damage, closePending, writeFaults, pc>>
    BY <1>4 DEF PollExits, writeVars, loopVars, closeVars, lifeBounds
  <2>3. LoopOK'
    BY <2>2, LoopSame
  <2> QED
    BY <1>4, <1>t, <2>1, <2>2, <2>3, ConnRest DEF PollExits
<1>5. CASE disconnect
  <2>1. CASE fd
    <3>1. /\ UNCHANGED <<flight, seqNo, sq, cq, wire, peerVars, pushed, fd, pc, damage, writeFaults, loopVars>>
          /\ shutting' = TRUE /\ queue' = << >> /\ closePending' \in {closePending, TRUE} /\ ~Filling
      BY <1>5, <2>1 DEF disconnect, lifeBounds, ringVars
    <3>2. ClosingShuts'
      BY <3>1 DEF ClosingShuts
    <3>3. LoopOK'
      BY <3>1, LoopSame DEF loopVars
    <3> QED
      BY <1>t, <3>1, <3>2, <3>3, ConnClears
  <2>2. CASE ~fd
    <3>1. /\ UNCHANGED <<writeVars, loopVars, cq, wire, peerVars, pushed, fd, pc, damage, writeFaults, shutting,
                         closePending>>
      BY <1>5, <2>2 DEF disconnect, lifeBounds, writeVars
    <3>2. ClosingShuts'
      BY <2>2, <3>1 DEF ClosingShuts
    <3>3. LoopOK'
      BY <3>1, LoopSame DEF loopVars, writeVars
    <3> QED
      BY <1>t, <2>2, <3>1, <3>2, <3>3, ConnRest
  <2> QED
    BY <2>1, <2>2
<1>6. CASE Joined
  <2>n. ~Filling
    BY <1>6, <1>t, <1>l DEF Joined
  <2>1. CASE fd
    <3>1. /\ UNCHANGED <<seqNo, wire, peerVars, pushed, pc, damage, writeFaults, shutting, loopVars>>
          /\ fd' = FALSE /\ closePending' = FALSE
          /\ queue' = << >> /\ flight' = << >> /\ sq' = << >> /\ cq' = << >>
      BY <1>6, <2>1 DEF Joined, Cleanup, lifeBounds
    <3>2. ClosingShuts'
      BY <3>1 DEF ClosingShuts
    <3>3. LoopOK'
      BY <2>n, <3>1, LoopSame DEF loopVars
    <3> QED
      BY <1>t, <3>1, <3>2, <3>3, ConnClears
  <2>2. CASE ~fd
    <3>1. UNCHANGED <<writeVars, loopVars, cq, wire, peerVars, pushed, fd, pc, damage, writeFaults, shutting,
                      closePending>>
      BY <1>6, <2>2 DEF Joined, lifeBounds, writeVars
    <3>2. ClosingShuts'
      BY <2>2, <3>1 DEF ClosingShuts
    <3>3. LoopOK'
      BY <2>n, <3>1, LoopSame DEF loopVars, writeVars
    <3> QED
      BY <1>t, <2>2, <3>1, <3>2, <3>3, ConnRest
  <2> QED
    BY <2>1, <2>2
<1>7. CASE Destroy \/ Destroyed
  <2>1. /\ UNCHANGED <<writeVars, room, again, cq, wire, peerVars, pushed, fd, shutting, damage, writeFaults>>
        /\ owner # "idle" /\ closePending' \in {closePending, TRUE}
        /\ UNCHANGED pc \/ pc' = [t \in Threads |-> "idle"]
    BY <1>7 DEF Destroy, Destroyed, Freed, closeVars, lifeBounds, loopVars
  <2>2. (shutting \/ ~fd) /\ ~Filling
    BY <1>t, <1>l, <2>1
  <2>3. ClosingShuts'
    BY <2>1, <2>2 DEF ClosingShuts
  <2>4. /\ pc' \in [Threads -> ThreadState]
        /\ \A t \in Threads : pc'[t] \in Fill => pc'[t] = pc[t]
        /\ pc'["poll"] = "again" => pc["poll"] = "again"
    BY <1>t, <2>1 DEF ThreadState, Fill
  <2>5. LoopOK'
    BY <2>1, <2>2, <2>4, LoopSame DEF writeVars
  <2> QED
    BY <1>t, <2>1, <2>2, <2>3, <2>4, <2>5, ConnRest
<1>8. CASE BadInput
  BY <1>3, <1>8 DEF BadInput, Fault
<1>9. CASE CloseOnFull
  BY <1>3, <1>9 DEF CloseOnFull
<1> QED
  BY <1>1, <1>2, <1>4, <1>5, <1>6, <1>7, <1>8, <1>9

\* What the types and the numbering say of the parts.
LEMMA ConnFacts ==
    ASSUME ConnInv
    PROVE  /\ MaxSend \in Nat /\ WriteBatch \in Nat \ {0} /\ Word \in Nat \ {0} /\ TagBase \in Nat
           /\ TagSpace \in Nat \ {0} /\ ReadMax \in Nat
           /\ \A f \in FrameNo : f \in Nat /\ FrameLen[f] \in Nat /\ FrameLen[f] >= 2 /\ FrameLen[f] < Word
           /\ pushed \in Nat /\ pushed <= MaxSend /\ seqNo \in Nat /\ damage \in Nat /\ writeFaults \in Nat
           /\ queue \in Seq(FrameNo) /\ Len(queue) \in Nat /\ seqNo + Len(queue) <= pushed
           /\ sq \in Seq(Submission) /\ Len(sq) \in Nat
           /\ \A i \in 1 .. Len(sq) : sq[i].s \in Nat /\ sq[i].f \in FrameNo /\ sq[i].off \in Nat /\ sq[i].s < seqNo
           /\ cq \in Seq(Completion) /\ Len(cq) \in Nat
           /\ \A i \in 1 .. Len(cq) : cq[i].tag \in Nat /\ cq[i].res \in Int /\ cq[i].tag < TagBase + seqNo
           /\ \A s \in DOMAIN flight : /\ s \in Nat /\ s < seqNo /\ flight[s] \in InFlight
                                       /\ flight[s].f \in FrameNo /\ flight[s].off \in Nat
           /\ wire \in Seq(Cell) /\ rbuf \in Seq(Cell) /\ recv \in Seq(FrameNo)
           /\ Len(wire) \in Nat /\ Len(rbuf) \in Nat /\ Len(recv) \in Nat
           /\ Bytes \in Seq(Cell) /\ Len(Bytes) \in Nat /\ ToWrite \in Nat
<1>1. /\ MaxSend \in Nat /\ WriteBatch \in Nat \ {0} /\ Word \in Nat \ {0} /\ TagBase \in Nat
      /\ TagSpace \in Nat \ {0} /\ ReadMax \in Nat
      /\ \A f \in FrameNo : f \in Nat /\ FrameLen[f] \in Nat /\ FrameLen[f] >= 2 /\ FrameLen[f] < Word
  BY ConnAssumption DEF MaxSend, FrameNo
<1>2. /\ pushed \in 0 .. MaxSend /\ seqNo \in Nat /\ damage \in Nat /\ writeFaults \in Nat
      /\ queue \in Seq(FrameNo) /\ sq \in Seq(Submission)
      /\ cq \in Seq(Completion)
      /\ wire \in Seq(Cell) /\ rbuf \in Seq(Cell) /\ recv \in Seq(FrameNo)
      /\ seqNo + Len(queue) <= pushed
  BY DEF ConnInv, ConnTypeOK, Numbered
<1>3. /\ pushed \in Nat /\ pushed <= MaxSend /\ Len(queue) \in Nat /\ Len(sq) \in Nat /\ Len(cq) \in Nat
      /\ Len(wire) \in Nat /\ Len(rbuf) \in Nat /\ Len(recv) \in Nat
  BY <1>1, <1>2
<1>4. ASSUME NEW i \in 1 .. Len(sq)
      PROVE  sq[i].s \in Nat /\ sq[i].f \in FrameNo /\ sq[i].off \in Nat /\ sq[i].s < seqNo
  <2>1. sq[i] \in Submission
    BY <1>2, <1>3
  <2> QED
    BY <2>1 DEF ConnInv, Numbered, Submission
<1>5. ASSUME NEW i \in 1 .. Len(cq)
      PROVE  cq[i].tag \in Nat /\ cq[i].res \in Int /\ cq[i].tag < TagBase + seqNo
  <2>1. cq[i] \in Completion
    BY <1>2, <1>3
  <2> QED
    BY <2>1 DEF ConnInv, Numbered, Completion
<1>6. ASSUME NEW s \in DOMAIN flight
      PROVE  /\ s \in Nat /\ s < seqNo /\ flight[s] \in InFlight
             /\ flight[s].f \in FrameNo /\ flight[s].off \in Nat
  <2>1. s \in Nat /\ s < seqNo /\ flight[s] \in InFlight
    BY DEF ConnInv, ConnTypeOK, Numbered
  <2> QED
    BY <2>1 DEF InFlight
<1>7. Bytes \in Seq(Cell) /\ Len(Bytes) \in Nat
  BY <1>2 DEF Bytes
<1>8. ToWrite \in Nat
  <2>1. CASE Bytes # << >>
    <3>1. Len(Bytes) \in 1 .. Len(Bytes)
      BY <1>7, <2>1
    <3>2. Bytes[Len(Bytes)][1] \in FrameNo
      BY <1>7, <3>1, CellFacts
    <3> QED
      BY <1>1, <2>1, <3>2 DEF ToWrite
  <2>2. CASE Bytes = << >>
    BY <1>3, <2>2 DEF ToWrite
  <2> QED
    BY <2>1, <2>2
<1> QED
  BY <1>1, <1>2, <1>3, <1>4, <1>5, <1>6, <1>7, <1>8

\* Where a step moves one thread only.
LEMMA OneMoves ==
    ASSUME ConnInv, NEW t \in Threads, NEW x \in ThreadState, pc' = [pc EXCEPT ![t] = x]
    PROVE  /\ pc' \in [Threads -> ThreadState] /\ pc'[t] = x
           /\ \A u \in Threads : u # t => pc'[u] = pc[u]
  BY DEF ConnInv, ConnTypeOK

\* send_raw(): the frame goes to the end of the queue.
LEMMA PushStep == ASSUME ConnInv, NEW t \in Threads, send_raw(t) PROVE ConnInv'
<1>1. /\ pushed < MaxSend /\ pushed' = pushed + 1 /\ queue' = Append(queue, pushed + 1)
      /\ pc' = [pc EXCEPT ![t] = IF DOMAIN flight = {} THEN "start" ELSE "idle"]
      /\ pc[t] = "push" /\ ~Filling
      /\ UNCHANGED <<flight, seqNo, sq, sub, room, again, struck, cq, wire, rbuf, recv, garbled, fd, shutting,
                     closePending, owner, damage, writeFaults>>
  BY DEF send_raw, NeedStart, peerVars, closeVars, lifeBounds, ringVars, loopVars
<1>2. /\ pushed \in Nat /\ MaxSend \in Nat /\ pushed + 1 \in FrameNo /\ queue \in Seq(FrameNo) /\ seqNo \in Nat
      /\ Len(queue) \in Nat /\ Len(sq) \in Nat /\ ToWrite \in Nat
  <2>1. /\ pushed \in Nat /\ MaxSend \in Nat /\ queue \in Seq(FrameNo) /\ seqNo \in Nat
        /\ Len(queue) \in Nat /\ Len(sq) \in Nat /\ ToWrite \in Nat
    BY ConnFacts
  <2>2. pushed + 1 \in FrameNo
    BY <1>1, <2>1 DEF FrameNo
  <2> QED
    BY <2>1, <2>2
<1>3. /\ queue' \in Seq(FrameNo) /\ Len(queue') = Len(queue) + 1 /\ Len(queue) \in Nat
      /\ \A i \in 1 .. Len(queue) : queue'[i] = queue[i]
      /\ queue'[Len(queue) + 1] = pushed + 1
  BY <1>1, <1>2, AppendProperties
<1>4. /\ pc' \in [Threads -> ThreadState] /\ pc'[t] \in {"start", "idle"}
      /\ \A u \in Threads : u # t => pc'[u] = pc[u]
  <2>1. (IF DOMAIN flight = {} THEN "start" ELSE "idle") \in {"start", "idle"} /\ pc \in [Threads -> ThreadState]
    BY DEF ConnInv, ConnTypeOK
  <2>2. CASE DOMAIN flight = {}
    <3>1. pc' = [pc EXCEPT ![t] = "start"]
      BY <1>1, <2>2
    <3> QED
      BY <2>1, <3>1, OneMoves DEF ThreadState
  <2>3. CASE DOMAIN flight # {}
    <3>1. pc' = [pc EXCEPT ![t] = "idle"]
      BY <1>1, <2>3
    <3> QED
      BY <2>1, <3>1, OneMoves DEF ThreadState
  <2> QED
    BY <2>2, <2>3
<1>5. ConnTypeOK'
  <2>1. pushed' \in 0 .. MaxSend
    BY <1>1, <1>2
  <2> QED
    BY <1>1, <1>3, <1>4, <2>1 DEF ConnInv, ConnTypeOK
<1>6. Numbered'
  <2>1. UNCHANGED <<seqNo, flight, sq, cq>> /\ pushed' = pushed + 1 /\ Len(queue') = Len(queue) + 1
    BY <1>1, <1>3
  <2>2. pushed \in Nat /\ seqNo \in Nat /\ Len(queue) \in Nat /\ Numbered
    BY <1>2 DEF ConnInv
  <2> QED
    BY <2>1, <2>2 DEF Numbered
<1>7. ClosingShuts'
  BY <1>1 DEF ConnInv, ClosingShuts
<1>8. StallFree'
  <2> SUFFICES ASSUME struck = {} PROVE NoStall'
    BY <1>1 DEF StallFree
  <2>1. NoStall
    BY DEF ConnInv, StallFree
  <2>2. pc'["poll"] = "again" <=> pc["poll"] = "again"
    BY <1>1, <1>4 DEF Threads
  <2>3. FlightBacked'
    BY <1>1, <2>1, <2>2 DEF NoStall, FlightBacked
  <2>4. DOMAIN flight = {} => pc'[t] = "start"
    BY <1>1 DEF ConnInv, ConnTypeOK
  <2>5. QueueStarted'
    BY <1>1, <2>4 DEF QueueStarted
  <2>6. RingSubmitted'
    BY <1>1, <2>1 DEF NoStall, RingSubmitted
  <2> QED
    BY <2>3, <2>5, <2>6 DEF NoStall
<1>10. LoopOK'
  <2>1. /\ \A u \in Threads : pc'[u] \in Fill => pc'[u] = pc[u]
        /\ pc'["poll"] = "again" => pc["poll"] = "again"
    BY <1>4 DEF Fill, Threads
  <2> QED
    BY <1>1, <2>1, LoopSame
<1>9. WritesInOrder'
  <2>1. (StreamInOrder' <=> StreamInOrder) /\ ToWrite' = ToWrite
    BY <1>1, StreamSame
  <2>2. damage = 0 /\ fd => RingInOrder' /\ FlightMatches'
    BY <1>1, <2>1 DEF ConnInv, WritesInOrder, RingInOrder, FlightMatches
  <2>3. ASSUME QueueInOrder PROVE QueueInOrder'
    <3>1. pushed = ToWrite + Len(sq) + Len(queue) - 1 /\ ToWrite' = ToWrite
      BY <2>1, <2>3 DEF QueueInOrder
    <3>2. ASSUME NEW i \in 1 .. Len(queue') PROVE queue'[i] = ToWrite + Len(sq) + i - 1
      <4>1. CASE i = Len(queue) + 1
        BY <1>2, <1>3, <3>1, <4>1
      <4>2. CASE i \in 1 .. Len(queue)
        BY <1>3, <2>3, <4>2 DEF QueueInOrder
      <4> QED
        BY <1>3, <4>1, <4>2
    <3>3. pushed' = ToWrite + Len(sq) + Len(queue') - 1
      BY <1>1, <1>2, <1>3, <3>1
    <3> QED
      BY <1>1, <3>1, <3>2, <3>3 DEF QueueInOrder
  <2> QED
    BY <1>1, <2>1, <2>2, <2>3 DEF ConnInv, WritesInOrder
<1> QED
  BY <1>5, <1>6, <1>7, <1>8, <1>9, <1>10 DEF ConnInv

\* start_next_writes(): there is nothing to send or nowhere to send it, or the
\* loop begins.
LEMMA StartStep == ASSUME ConnInv, NEW t \in Threads, start_next_writes(t) PROVE ConnInv'
<1>1. /\ pc[t] = "start" /\ ~Filling
      /\ UNCHANGED <<flight, seqNo, sq, sub, again, struck, cq, wire, rbuf, recv, garbled, pushed, fd, shutting,
                     closePending, owner, damage, writeFaults>>
      /\ \/ /\ queue = << >> \/ shutting \/ ~fd
            /\ queue' = << >> /\ pc' = [pc EXCEPT ![t] = "idle"] /\ UNCHANGED room
         \/ /\ ~(queue = << >> \/ shutting \/ ~fd)
            /\ room' = WriteBatch /\ pc' = [pc EXCEPT ![t] = "fill"] /\ UNCHANGED queue
  BY DEF start_next_writes, peerVars, closeVars, lifeBounds, ringVars
<1>2. /\ closePending' \in BOOLEAN /\ shutting' \in BOOLEAN /\ fd' \in BOOLEAN /\ writeFaults' \in Nat /\ ClosingShuts'
      /\ "poll" \in Threads
  BY <1>1 DEF ConnInv, ConnTypeOK, ClosingShuts, Threads
<1>3. \A u \in Threads : pc[u] \notin Fill
  BY <1>1 DEF Filling, Fill
<1>4. CASE queue = << >> \/ shutting \/ ~fd
  <2>1. queue' = << >> /\ pc' = [pc EXCEPT ![t] = "idle"] /\ UNCHANGED room
    BY <1>1, <1>4
  <2>2. /\ pc' \in [Threads -> ThreadState] /\ pc'[t] = "idle"
        /\ \A u \in Threads : u # t => pc'[u] = pc[u]
    BY <2>1, OneMoves DEF ThreadState
  <2>3. LoopOK'
    <3>1. /\ \A u \in Threads : pc'[u] \in Fill => pc'[u] = pc[u]
          /\ pc'["poll"] = "again" => pc["poll"] = "again"
      BY <1>2, <2>2 DEF Fill
    <3> QED
      BY <1>1, <2>1, <3>1, LoopSame
  <2>4. CASE queue = << >>
    <3>1. UNCHANGED <<queue, flight, seqNo, sq, sub>>
      BY <1>1, <2>1, <2>4
    <3>2. pc["poll"] = "again" => pc'["poll"] = "again"
      BY <1>1, <1>2, <2>2
    <3> QED
      BY <1>1, <1>2, <1>3, <2>2, <2>3, <2>4, <3>1, <3>2, ConnRest DEF writeVars, ringVars, peerVars
  <2>5. CASE shutting \/ ~fd
    BY <1>1, <1>2, <2>1, <2>2, <2>3, <2>5, ConnClears DEF peerVars
  <2> QED
    BY <1>4, <2>4, <2>5
<1>5. CASE ~(queue = << >> \/ shutting \/ ~fd)
  <2>1. room' = WriteBatch /\ pc' = [pc EXCEPT ![t] = "fill"] /\ UNCHANGED queue
    BY <1>1, <1>5
  <2>2. /\ pc' \in [Threads -> ThreadState] /\ pc'[t] = "fill"
        /\ \A u \in Threads : u # t => pc'[u] = pc[u]
    BY <2>1, OneMoves DEF ThreadState, Fill
  <2>3. LoopOK'
    <3>1. \A u \in Threads : pc'[u] \in Fill => u = t
      BY <1>3, <2>2
    <3>2. pc'["poll"] = "again" => pc["poll"] = "again"
      BY <1>2, <2>2
    <3>3. pc["poll"] = "again" => again \in Submission /\ again.s < seqNo /\ damage # 0
      BY DEF ConnInv, LoopOK
    <3>4. ASSUME NEW u \in Threads
          PROVE  /\ pc'[u] \in Fill => ~shutting' /\ fd' /\ (room' # WriteBatch => DOMAIN flight' # {})
                 /\ pc'[u] \notin {"prep", "lost"}
      BY <1>1, <1>3, <1>5, <2>1, <2>2, <3>1 DEF Fill
    <3> QED
      BY <1>1, <3>1, <3>2, <3>3, <3>4 DEF LoopOK
  <2>4. /\ \A u \in Threads : pc[u] \in Busy => pc'[u] \in Busy
        /\ \A u \in Threads : pc[u] \in Fill => pc'[u] \in Fill
        /\ pc["poll"] = "again" => pc'["poll"] = "again"
    BY <1>1, <1>2, <1>3, <2>2 DEF Busy, Fill
  <2> QED
    BY <1>1, <1>2, <2>1, <2>2, <2>3, <2>4, ConnRest DEF writeVars, ringVars, peerVars
<1> QED
  BY <1>4, <1>5

\* A slot of the ring, or none: the connection is struck.
LEMMA GetStep == ASSUME ConnInv, NEW t \in Threads, io_uring_get_sqe(t) PROVE ConnInv'
<1>1. /\ pc[t] = "fill" /\ queue # << >>
      /\ UNCHANGED <<writeVars, room, again, cq, wire, peerVars, pushed, closeVars, owner, damage, lifeBounds>>
      /\ \/ struck' = struck \cup {"full"} /\ pc' = [pc EXCEPT ![t] = "idle"]
         \/ pc' = [pc EXCEPT ![t] = "prep"] /\ UNCHANGED struck
  BY DEF io_uring_get_sqe
<1>2. /\ closePending' \in BOOLEAN /\ shutting' \in BOOLEAN /\ fd' = fd /\ writeFaults' \in Nat /\ ClosingShuts'
      /\ "poll" \in Threads /\ LoopOK /\ UNCHANGED <<queue, flight, seqNo, shutting>>
  BY <1>1 DEF ConnInv, ConnTypeOK, ClosingShuts, Threads, closeVars, lifeBounds, writeVars
<1>3. CASE struck' = struck \cup {"full"} /\ pc' = [pc EXCEPT ![t] = "idle"]
  <2>1. /\ pc' \in [Threads -> ThreadState] /\ pc'[t] = "idle"
        /\ \A u \in Threads : u # t => pc'[u] = pc[u]
    BY <1>3, OneMoves DEF ThreadState
  <2>2. /\ \A u \in Threads : pc'[u] \in Fill => pc'[u] = pc[u]
        /\ pc'["poll"] = "again" => pc["poll"] = "again"
    BY <1>2, <2>1 DEF Fill
  <2>3. LoopOK'
    BY <1>1, <1>2, <1>3, <2>2, LoopSame
  <2>4. struck' # {}
    BY <1>3
  <2> QED
    BY <1>1, <1>2, <2>1, <2>3, <2>4, ConnRest
<1>4. CASE pc' = [pc EXCEPT ![t] = "prep"] /\ UNCHANGED struck
  <2>1. /\ pc' \in [Threads -> ThreadState] /\ pc'[t] = "prep"
        /\ \A u \in Threads : u # t => pc'[u] = pc[u]
    BY <1>4, OneMoves DEF ThreadState, Fill
  <2>2. pc[t] \in Fill
    BY <1>1 DEF Fill
  <2>3. LoopOK'
    <3>1. \A u \in Threads : pc'[u] \in Fill => u = t
      BY <1>2, <2>1, <2>2 DEF LoopOK
    <3>2. pc'["poll"] = "again" => pc["poll"] = "again"
      BY <1>2, <2>1
    <3>3. /\ ~shutting /\ fd /\ (room # WriteBatch => DOMAIN flight # {})
          /\ pc["poll"] = "again" => again \in Submission /\ again.s < seqNo /\ damage # 0
      BY <1>2, <2>2 DEF LoopOK
    <3>4. \A u \in Threads : pc'[u] \in {"prep", "lost"} => u = t
      BY <3>1 DEF Fill
    <3>5. \A u \in Threads : pc'[u] # "lost"
      BY <2>1, <3>1 DEF Fill
    <3> QED
      BY <1>1, <1>2, <1>4, <3>1, <3>2, <3>3, <3>4, <3>5 DEF LoopOK
  <2>4. /\ \A u \in Threads : pc[u] \in Busy => pc'[u] \in Busy
        /\ \A u \in Threads : pc[u] \in Fill => pc'[u] \in Fill
        /\ pc["poll"] = "again" => pc'["poll"] = "again"
    BY <1>1, <1>2, <2>1 DEF Busy, Fill
  <2> QED
    BY <1>1, <1>2, <1>4, <2>1, <2>3, <2>4, ConnRest
<1> QED
  BY <1>1, <1>3, <1>4

\* The batch is given to the kernel.
LEMMA SubmitStep == ASSUME ConnInv, NEW t \in Threads, io_uring_submit(t) PROVE ConnInv'
<1>1. /\ pc[t] = "fill" /\ (queue = << >> \/ room = 0) /\ sub' = Len(sq) /\ pc' = [pc EXCEPT ![t] = "idle"]
      /\ UNCHANGED <<queue, flight, seqNo, sq, room, again, struck, cq, wire, rbuf, recv, garbled, pushed, fd,
                     shutting, closePending, owner, damage, writeFaults>>
  BY DEF io_uring_submit, closeVars, lifeBounds, peerVars, loopVars
<1>2. /\ pc' \in [Threads -> ThreadState] /\ pc'[t] = "idle" /\ "poll" \in Threads
      /\ \A u \in Threads : u # t => pc'[u] = pc[u]
  BY <1>1, OneMoves DEF ThreadState, Threads
<1>3. LoopOK'
  <2>1. /\ \A u \in Threads : pc'[u] \in Fill => pc'[u] = pc[u]
        /\ pc'["poll"] = "again" => pc["poll"] = "again"
    BY <1>2 DEF Fill
  <2> QED
    BY <1>1, <2>1, LoopSame
<1>4. ConnTypeOK' /\ Numbered' /\ ClosingShuts'
  BY <1>1, <1>2 DEF ConnInv, ConnTypeOK, Numbered, ClosingShuts
<1>5. StallFree'
  <2> SUFFICES ASSUME struck = {} PROVE NoStall'
    BY <1>1 DEF StallFree
  <2>1. NoStall /\ LoopOK
    BY DEF ConnInv, StallFree
  <2>2. pc["poll"] = "again" => pc'["poll"] = "again"
    BY <1>1, <1>2
  <2>3. FlightBacked'
    BY <1>1, <2>1, <2>2 DEF NoStall, FlightBacked
  <2>4. queue # << >> => DOMAIN flight # {}
    <3>1. pc[t] \in Fill /\ 0 # WriteBatch
      BY <1>1, ConnAssumption DEF Fill
    <3> QED
      BY <1>1, <2>1, <3>1 DEF LoopOK
  <2>5. QueueStarted'
    BY <1>1, <2>4 DEF QueueStarted
  <2>6. RingSubmitted'
    BY <1>1 DEF RingSubmitted
  <2> QED
    BY <2>3, <2>5, <2>6 DEF NoStall
<1>6. WritesInOrder'
  <2>1. (StreamInOrder' <=> StreamInOrder) /\ ToWrite' = ToWrite
    BY <1>1, StreamSame
  <2> QED
    BY <1>1, <2>1 DEF ConnInv, WritesInOrder, RingInOrder, QueueInOrder, FlightMatches
<1> QED
  BY <1>3, <1>4, <1>5, <1>6 DEF ConnInv

\* The first of the queue gets a number and goes to the ring.
LEMMA PrepStep == ASSUME ConnInv, NEW t \in Threads, io_uring_prep_write(t) PROVE ConnInv'
<1> DEFINE f == Head(queue)
           new == [s |-> seqNo, f |-> f, off |-> 0]
<1>1. /\ pc[t] \in {"prep", "lost"} /\ queue' = Tail(queue) /\ seqNo' = seqNo + 1
      /\ flight' = [s \in DOMAIN flight \cup {seqNo} |-> IF s = seqNo THEN [f |-> f, off |-> 0] ELSE flight[s]]
      /\ sq' = IF pc[t] = "prep" THEN Append(sq, new) ELSE sq
      /\ pc' = [pc EXCEPT ![t] = "fill"]
      /\ UNCHANGED <<sub, again, struck, cq, wire, rbuf, recv, garbled, pushed, fd, shutting, closePending, owner,
                     damage, writeFaults>>
  BY DEF io_uring_prep_write, peerVars, closeVars, lifeBounds
<1>t. /\ queue \in Seq(FrameNo) /\ Len(queue) \in Nat /\ seqNo \in Nat /\ pushed \in Nat
      /\ sq \in Seq(Submission) /\ Len(sq) \in Nat
      /\ cq \in Seq(Completion) /\ Len(cq) \in Nat
      /\ TagBase \in Nat /\ MaxSend \in Nat /\ ToWrite \in Nat
      /\ seqNo + Len(queue) <= pushed
  BY ConnFacts
<1>sq. \A i \in 1 .. Len(sq) : sq[i].s \in Nat /\ sq[i].s < seqNo
  BY ConnFacts
<1>cq. \A i \in 1 .. Len(cq) : cq[i].tag \in Nat /\ cq[i].tag < TagBase + seqNo
  BY ConnFacts
<1>fl. \A s \in DOMAIN flight : s \in Nat /\ s < seqNo /\ flight[s] \in InFlight
  BY ConnFacts
<1>l. /\ LoopOK /\ queue # << >> /\ ~shutting /\ fd /\ pc[t] \in Fill
      /\ pc[t] = "lost" => struck # {} /\ damage # 0
  BY <1>1 DEF ConnInv, LoopOK, Fill
<1>2. /\ pc' \in [Threads -> ThreadState] /\ pc'[t] = "fill" /\ "poll" \in Threads
      /\ \A u \in Threads : u # t => pc'[u] = pc[u]
  BY <1>1, OneMoves DEF ThreadState, Fill, Threads
<1>3. /\ queue' \in Seq(FrameNo) /\ f = queue[1] /\ f \in FrameNo /\ 1 \in 1 .. Len(queue)
      /\ Len(queue') = Len(queue) - 1
      /\ \A i \in 1 .. Len(queue') : i + 1 \in 1 .. Len(queue) /\ queue'[i] = queue[i + 1]
  <2>1. /\ Tail(queue) \in Seq(FrameNo) /\ Head(queue) = queue[1] /\ queue[1] \in FrameNo
        /\ 1 \in DOMAIN queue /\ DOMAIN queue = 1 .. Len(queue)
        /\ DOMAIN Tail(queue) = 1 .. Len(queue) - 1
        /\ \A i \in DOMAIN Tail(queue) : i + 1 \in DOMAIN queue /\ Tail(queue)[i] = queue[i + 1]
    BY <1>t, <1>l, TailAt
  <2>2. Len(Tail(queue)) = Len(queue) - 1
    BY <1>t, <1>l, HeadTailProperties
  <2> QED
    BY <1>1, <2>1, <2>2
<1> HIDE DEF f
<1>4. new \in Submission /\ new.s = seqNo /\ new.f = f /\ new.off = 0
  BY <1>t, <1>3 DEF Submission
<1>sq2. sq' = IF pc[t] = "prep" THEN Append(sq, new) ELSE sq
  BY <1>1
<1> HIDE DEF new
<1>5. pc[t] = "prep" => /\ sq' \in Seq(Submission) /\ Len(sq') = Len(sq) + 1
                        /\ \A i \in 1 .. Len(sq) : sq'[i] = sq[i]
                        /\ sq'[Len(sq) + 1] = new
  BY <1>t, <1>4, <1>sq2, AppendProperties
<1>6. /\ sq' \in Seq(Submission) /\ Len(sq') \in Nat /\ Len(sq') >= Len(sq)
      /\ \A i \in 1 .. Len(sq) : i \in 1 .. Len(sq') /\ sq'[i] = sq[i]
      /\ \A i \in 1 .. Len(sq') : i \in 1 .. Len(sq) \/ (pc[t] = "prep" /\ i = Len(sq) + 1 /\ sq'[i] = new)
  <2>1. CASE pc[t] = "prep"
    <3>1. /\ sq' \in Seq(Submission) /\ Len(sq') = Len(sq) + 1
          /\ \A i \in 1 .. Len(sq) : sq'[i] = sq[i]
          /\ sq'[Len(sq) + 1] = new
      BY <1>5, <2>1
    <3>2. /\ Len(sq') \in Nat /\ Len(sq') >= Len(sq)
          /\ \A i \in 1 .. Len(sq) : i \in 1 .. Len(sq')
          /\ \A i \in 1 .. Len(sq') : i \in 1 .. Len(sq) \/ i = Len(sq) + 1
      BY <1>t, <3>1
    <3> QED
      BY <2>1, <3>1, <3>2
  <2>2. CASE pc[t] # "prep"
    BY <1>t, <1>sq2, <2>2
  <2> QED
    BY <2>1, <2>2
<1>7. /\ DOMAIN flight' = DOMAIN flight \cup {seqNo} /\ flight'[seqNo] = [f |-> f, off |-> 0]
      /\ \A s \in DOMAIN flight : flight'[s] = flight[s] /\ s # seqNo
      /\ flight' \in [DOMAIN flight' -> InFlight] /\ DOMAIN flight' \subseteq Nat
  <2>1. \A s \in DOMAIN flight : s # seqNo
    BY <1>t, <1>fl
  <2>2. [f |-> f, off |-> 0] \in InFlight
    BY <1>3 DEF InFlight
  <2>3. flight' = [s \in DOMAIN flight \cup {seqNo} |-> IF s = seqNo THEN [f |-> f, off |-> 0] ELSE flight[s]]
    BY <1>1
  <2>4. /\ DOMAIN flight' = DOMAIN flight \cup {seqNo} /\ flight'[seqNo] = [f |-> f, off |-> 0]
        /\ \A s \in DOMAIN flight : flight'[s] = flight[s] /\ s # seqNo
    BY <2>1, <2>3
  <2>5. \A s \in DOMAIN flight' : flight'[s] \in InFlight /\ s \in Nat
    BY <1>t, <1>fl, <2>2, <2>4
  <2> QED
    BY <2>3, <2>4, <2>5
<1>8. ConnTypeOK'
  <2>1. seqNo' \in Nat
    BY <1>1, <1>t
  <2> QED
    BY <1>1, <1>2, <1>3, <1>6, <1>7, <2>1 DEF ConnInv, ConnTypeOK
<1>9. Numbered'
  <2>1. seqNo' = seqNo + 1 /\ pushed' = pushed /\ cq' = cq
    BY <1>1
  <2>2. seqNo' + Len(queue') <= pushed'
    BY <1>t, <1>3, <2>1
  <2>3. \A s \in DOMAIN flight' : s < seqNo'
    BY <1>t, <1>fl, <1>7, <2>1
  <2>4. \A i \in 1 .. Len(sq') : sq'[i].s < seqNo'
    BY <1>t, <1>sq, <1>4, <1>6, <2>1
  <2>5. \A i \in 1 .. Len(cq) : cq[i].tag < TagBase + seqNo'
    BY <1>t, <1>cq, <2>1
  <2> QED
    BY <2>1, <2>2, <2>3, <2>4, <2>5 DEF Numbered
<1>10. ClosingShuts'
  BY <1>1 DEF ConnInv, ClosingShuts
<1>11. LoopOK'
  <2>1. \A u \in Threads : pc'[u] \in Fill => u = t
    BY <1>l, <1>2 DEF LoopOK
  <2>2. \A u \in Threads : pc'[u] \notin {"prep", "lost"}
    BY <1>2, <2>1 DEF Fill
  <2>3. DOMAIN flight' # {}
    BY <1>7
  <2>4. pc'["poll"] = "again" => again' \in Submission /\ again'.s < seqNo' /\ damage' # 0
    <3> SUFFICES ASSUME pc'["poll"] = "again" PROVE again \in Submission /\ again.s < seqNo + 1 /\ damage # 0
      BY <1>1
    <3>1. pc["poll"] = "again"
      BY <1>2
    <3>2. again \in Submission /\ again.s < seqNo /\ damage # 0
      BY <1>l, <3>1 DEF LoopOK
    <3> QED
      BY <1>t, <3>2 DEF Submission
  <2> QED
    BY <1>1, <1>l, <2>1, <2>2, <2>3, <2>4 DEF LoopOK
<1>12. StallFree'
  <2> SUFFICES ASSUME struck = {} PROVE NoStall'
    BY <1>1 DEF StallFree
  <2>0. pc[t] = "prep" /\ NoStall
    BY <1>1, <1>l DEF ConnInv, StallFree
  <2>1. QueueStarted'
    BY <1>7 DEF QueueStarted
  <2>2. ASSUME NEW s \in DOMAIN flight'
        PROVE  \/ \E i \in 1 .. Len(sq') : sq'[i].s = s
               \/ \E i \in 1 .. Len(cq) : cq[i].tag = TagBase + s
               \/ pc'["poll"] = "again" /\ again.s = s
    <3>1. CASE s \in DOMAIN flight
      <4>1. \/ \E i \in 1 .. Len(sq) : sq[i].s = s
            \/ \E i \in 1 .. Len(cq) : cq[i].tag = TagBase + s
            \/ pc["poll"] = "again" /\ again.s = s
        BY <1>l, <2>0, <3>1 DEF NoStall, FlightBacked
      <4>2. pc["poll"] = "again" => pc'["poll"] = "again"
        BY <1>1, <1>2
      <4> QED
        BY <1>6, <4>1, <4>2
    <3>2. CASE s = seqNo
      <4>1. Len(sq) + 1 \in 1 .. Len(sq') /\ sq'[Len(sq) + 1].s = s
        BY <1>t, <1>4, <1>5, <2>0, <3>2
      <4> QED
        BY <4>1
    <3> QED
      BY <1>7, <3>1, <3>2
  <2>3. RingSubmitted'
    BY <1>2 DEF RingSubmitted, Filling
  <2> QED
    BY <1>1, <2>1, <2>2, <2>3 DEF NoStall, FlightBacked
<1>13. ASSUME damage = 0 PROVE RingInOrder' /\ FlightMatches' /\ QueueInOrder'
  <2>0. pc[t] = "prep"
    BY <1>1, <1>l, <1>13
  <2>1. RingInOrder /\ FlightMatches /\ QueueInOrder /\ ToWrite' = ToWrite
    BY <1>1, <1>l, <1>13, StreamSame DEF ConnInv, WritesInOrder
  <2>2. /\ \A i \in 1 .. Len(queue) : queue[i] = ToWrite + Len(sq) + i - 1
        /\ pushed = ToWrite + Len(sq) + Len(queue) - 1
    BY <2>1 DEF QueueInOrder
  <2>3. f = ToWrite + (Len(sq) + 1) - 1
    <3>1. f = ToWrite + Len(sq) + 1 - 1
      BY <1>3, <2>2
    <3> QED
      BY <1>t, <3>1
  <2>4. ASSUME NEW i \in 1 .. Len(sq') PROVE sq'[i].f = ToWrite + i - 1 /\ sq'[i].off = 0
    <3>1. CASE i \in 1 .. Len(sq)
      BY <1>6, <2>1, <3>1 DEF RingInOrder
    <3>2. CASE i = Len(sq) + 1 /\ sq'[i] = new
      BY <1>4, <2>3, <3>2
    <3> QED
      BY <1>6, <3>1, <3>2
  <2>5. RingInOrder'
    BY <2>1, <2>4 DEF RingInOrder
  <2>6. QueueInOrder'
    <3>0. Len(sq') = Len(sq) + 1
      BY <1>5, <2>0
    <3>1. ASSUME NEW i \in 1 .. Len(queue') PROVE queue'[i] = ToWrite + Len(sq') + i - 1
      <4>1. i + 1 \in 1 .. Len(queue) /\ queue'[i] = queue[i + 1]
        BY <1>3
      <4>2. queue'[i] = ToWrite + Len(sq) + (i + 1) - 1
        BY <2>2, <4>1
      <4> QED
        BY <1>t, <3>0, <4>2
    <3>2. pushed = ToWrite + Len(sq') + Len(queue') - 1
      BY <1>t, <1>3, <2>2, <3>0
    <3> QED
      BY <1>1, <2>1, <3>1, <3>2 DEF QueueInOrder
  <2>7. ASSUME NEW s \in DOMAIN flight'
        PROVE  /\ flight'[s].off = 0
               /\ \A i \in 1 .. Len(sq') : sq'[i].s = s => sq'[i].f = flight'[s].f
               /\ \A i \in 1 .. Len(cq) : cq[i].tag = TagBase + s => cq[i].res = FrameLen[flight'[s].f]
    <3>1. CASE s \in DOMAIN flight
      <4>1. flight'[s] = flight[s] /\ s # seqNo
        BY <1>7, <3>1
      <4>2. /\ flight[s].off = 0
            /\ \A i \in 1 .. Len(sq) : sq[i].s = s => sq[i].f = flight[s].f
            /\ \A i \in 1 .. Len(cq) : cq[i].tag = TagBase + s => cq[i].res = FrameLen[flight[s].f]
        BY <2>1, <3>1 DEF FlightMatches
      <4>3. ASSUME NEW i \in 1 .. Len(sq'), sq'[i].s = s PROVE sq'[i].f = flight[s].f
        <5>1. i \in 1 .. Len(sq)
          BY <1>4, <1>6, <4>1, <4>3
        <5> QED
          BY <1>6, <4>2, <4>3, <5>1
      <4> QED
        BY <4>1, <4>2, <4>3
    <3>2. CASE s = seqNo
      <4>1. flight'[s].f = f /\ flight'[s].off = 0
        BY <1>7, <3>2
      <4>2. ASSUME NEW i \in 1 .. Len(sq'), sq'[i].s = s PROVE sq'[i].f = f
        <5>1. CASE i \in 1 .. Len(sq)
          <6>1. sq'[i].s < seqNo /\ sq'[i].s \in Nat
            BY <1>sq, <1>6, <5>1
          <6> QED
            BY <1>t, <3>2, <4>2, <6>1
        <5>2. CASE sq'[i] = new
          BY <1>4, <5>2
        <5> QED
          BY <1>6, <5>1, <5>2
      <4>3. ASSUME NEW i \in 1 .. Len(cq), cq[i].tag = TagBase + s PROVE FALSE
        <5>1. cq[i].tag < TagBase + seqNo
          BY <1>cq
        <5> QED
          BY <1>t, <3>2, <4>3, <5>1
      <4> QED
        BY <4>1, <4>2, <4>3
    <3> QED
      BY <1>7, <3>1, <3>2
  <2>8. FlightMatches'
    BY <1>1, <2>7 DEF FlightMatches
  <2> QED
    BY <2>5, <2>6, <2>8
<1>14. WritesInOrder'
  BY <1>1, <1>13, StreamSame DEF ConnInv, WritesInOrder
<1> QED
  BY <1>8, <1>9, <1>10, <1>11, <1>12, <1>14 DEF ConnInv

\* The rest of a write that came short goes to the ring, or finds it full.
LEMMA ResubmitStep == ASSUME ConnInv, resubmit PROVE ConnInv'
<1>1. /\ pc["poll"] = "again"
      /\ UNCHANGED <<queue, flight, seqNo, room, again, cq, wire, rbuf, recv, garbled, pushed, fd, shutting,
                     closePending, owner, damage, writeFaults>>
      /\ \/ /\ pc' = [pc EXCEPT !["poll"] = "closing"] /\ struck' = struck \cup {"full"} /\ UNCHANGED <<sq, sub>>
         \/ /\ \E old \in IF Reserved = {} THEN {<< >>} ELSE StaleEntry : sq' = Append(sq \o old, again)
            /\ sub' = Len(sq')
            /\ pc' = [t \in Threads |-> IF t = "poll" THEN "idle" ELSE IF t \in Reserved THEN "lost" ELSE pc[t]]
            /\ struck' = IF Reserved = {} THEN struck ELSE struck \cup {"unready"}
  BY DEF resubmit, ringVars, peerVars, closeVars, lifeBounds
<1>2. /\ LoopOK /\ "poll" \in Threads /\ pc \in [Threads -> ThreadState]
      /\ closePending \in BOOLEAN /\ shutting \in BOOLEAN /\ writeFaults \in Nat /\ ClosingShuts'
      /\ again \in Submission /\ again.s < seqNo /\ damage # 0
  BY <1>1 DEF ConnInv, ConnTypeOK, ClosingShuts, Threads, LoopOK
<1>3. CASE pc' = [pc EXCEPT !["poll"] = "closing"] /\ struck' = struck \cup {"full"} /\ UNCHANGED <<sq, sub>>
  <2>1. /\ pc' \in [Threads -> ThreadState] /\ pc'["poll"] = "closing"
        /\ \A u \in Threads : u # "poll" => pc'[u] = pc[u]
    BY <1>2, <1>3, OneMoves DEF ThreadState
  <2>2. /\ \A u \in Threads : pc'[u] \in Fill => pc'[u] = pc[u]
        /\ pc'["poll"] # "again"
    BY <2>1 DEF Fill
  <2>3. LoopOK'
    BY <1>1, <1>3, <2>2, LoopSame
  <2>4. struck' # {}
    BY <1>3
  <2> QED
    BY <1>1, <1>2, <1>3, <2>1, <2>3, <2>4, ConnRest DEF writeVars, ringVars, peerVars
<1>4. ASSUME NEW old, sq' = Append(sq \o old, again), sub' = Len(sq'),
             IF Reserved = {} THEN old = << >> /\ struck' = struck
             ELSE old \in StaleEntry /\ struck' = struck \cup {"unready"},
             pc' = [t \in Threads |-> IF t = "poll" THEN "idle" ELSE IF t \in Reserved THEN "lost" ELSE pc[t]]
      PROVE  ConnInv'
  <2>t. /\ sq \in Seq(Submission) /\ Len(sq) \in Nat /\ seqNo \in Nat /\ pushed \in Nat /\ pushed <= MaxSend
        /\ MaxSend \in Nat /\ Len(queue) \in Nat /\ seqNo + Len(queue) <= pushed
        /\ \A i \in 1 .. Len(sq) : sq[i].s \in Nat /\ sq[i].s < seqNo
    BY ConnFacts
  <2>1. /\ pc' \in [Threads -> ThreadState] /\ pc'["poll"] = "idle"
        /\ \A t \in Threads : pc'[t] \in Fill => pc[t] \in Fill
        /\ \A t \in Threads : pc[t] \in Fill => pc'[t] \in Fill
        /\ \A t \in Threads : pc[t] = "start" => pc'[t] = "start"
        /\ \A t \in Threads : pc'[t] \in {"prep", "lost"} => pc[t] \in {"prep", "lost"}
        /\ \A t \in Threads : pc'[t] = "lost" => pc[t] = "lost" \/ Reserved # {}
    BY <1>1, <1>2, <1>4 DEF Reserved, ThreadState, Fill
  <2>2. old \in Seq(Submission) /\ \A i \in 1 .. Len(old) : old[i].s < seqNo
    <3>1. CASE old = << >>
      BY <3>1, Empty
    <3>2. CASE \E r \in 0 .. seqNo - 1 : old = <<[s |-> r, f |-> r + 1, off |-> 0]>>
      <4>1. PICK r \in 0 .. seqNo - 1 : old = <<[s |-> r, f |-> r + 1, off |-> 0]>>
        BY <3>2
      <4>2. r \in Nat /\ r < seqNo /\ r + 1 \in FrameNo
        BY <2>t DEF FrameNo
      <4>3. PICK e : e = [s |-> r, f |-> r + 1, off |-> 0]
        OBVIOUS
      <4>4. e \in Submission /\ e.s = r
        BY <4>2, <4>3 DEF Submission
      <4>5. old = <<e>>
        BY <4>1, <4>3
      <4> QED
        BY <4>2, <4>4, <4>5
    <3> QED
      BY <1>4, <3>1, <3>2 DEF StaleEntry
  <2>3. PICK b : b = sq \o old
    OBVIOUS
  <2>4. /\ b \in Seq(Submission) /\ Len(b) = Len(sq) + Len(old) /\ Len(old) \in Nat
        /\ \A i \in 1 .. Len(sq) : b[i] = sq[i]
        /\ \A i \in 1 .. Len(old) : b[Len(sq) + i] = old[i]
    BY <2>t, <2>2, <2>3, BothAt
  <2>5. /\ sq' \in Seq(Submission) /\ Len(sq') = Len(b) + 1
        /\ \A i \in 1 .. Len(b) : sq'[i] = b[i]
        /\ sq'[Len(b) + 1] = again
    <3>1. sq' = Append(b, again)
      BY <1>4, <2>3
    <3> QED
      BY <1>2, <2>4, <3>1, AppendProperties
  <2>6. \A i \in 1 .. Len(sq) : i \in 1 .. Len(sq') /\ sq'[i] = sq[i]
    BY <2>t, <2>4, <2>5
  <2>7. ASSUME NEW i \in 1 .. Len(sq') PROVE sq'[i].s < seqNo
    <3>1. CASE i \in 1 .. Len(sq)
      BY <2>t, <2>6, <3>1
    <3>2. CASE i \in Len(sq) + 1 .. Len(b)
      <4>1. i - Len(sq) \in 1 .. Len(old) /\ Len(sq) + (i - Len(sq)) = i /\ i \in 1 .. Len(b)
        BY <2>t, <2>4, <3>2
      <4> QED
        BY <2>2, <2>4, <2>5, <4>1
    <3>3. CASE i = Len(b) + 1
      BY <1>2, <2>5, <3>3
    <3>4. i \in 1 .. Len(sq) \/ i \in Len(sq) + 1 .. Len(b) \/ i = Len(b) + 1
      <4>1. Len(sq') = Len(b) + 1 /\ Len(b) = Len(sq) + Len(old) /\ Len(old) \in Nat /\ Len(sq) \in Nat
        BY <2>t, <2>4, <2>5
      <4> QED
        BY <4>1
    <3> QED
      BY <3>1, <3>2, <3>3, <3>4
  <2>8. ConnTypeOK'
    BY <1>1, <2>1, <2>5 DEF ConnInv, ConnTypeOK
  <2>9. Numbered'
    BY <1>1, <2>7 DEF ConnInv, Numbered
  <2>10. LoopOK'
    <3>1. \A t, u \in Threads : pc'[t] \in Fill /\ pc'[u] \in Fill => t = u
      BY <1>2, <2>1 DEF LoopOK
    <3>2. ASSUME NEW t \in Threads
          PROVE  /\ pc'[t] \in Fill => ~shutting' /\ fd' /\ (room' # WriteBatch => DOMAIN flight' # {})
                 /\ pc'[t] \in {"prep", "lost"} => queue' # << >>
                 /\ pc'[t] = "lost" => struck' # {} /\ damage' # 0
      <4>1. pc[t] = "lost" => struck # {}
        BY <1>2 DEF LoopOK
      <4>2. pc'[t] = "lost" => struck' # {}
        BY <1>4, <2>1, <4>1
      <4> QED
        BY <1>1, <1>2, <2>1, <4>2 DEF LoopOK
    <3> QED
      BY <2>1, <3>1, <3>2 DEF LoopOK
  <2>11. StallFree'
    <3> SUFFICES ASSUME struck' = {} PROVE NoStall'
      BY DEF StallFree
    <3>1. struck = {} /\ NoStall
      BY <1>4 DEF ConnInv, StallFree
    <3>2. QueueStarted'
      BY <1>1, <2>1, <3>1 DEF NoStall, QueueStarted, Fill
    <3>3. RingSubmitted'
      BY <1>4 DEF RingSubmitted
    <3>4. ASSUME ~shutting, fd, NEW s \in DOMAIN flight
          PROVE  \/ \E i \in 1 .. Len(sq') : sq'[i].s = s
                 \/ \E i \in 1 .. Len(cq) : cq[i].tag = TagBase + s
      <4>1. \/ \E i \in 1 .. Len(sq) : sq[i].s = s
            \/ \E i \in 1 .. Len(cq) : cq[i].tag = TagBase + s
            \/ again.s = s
        BY <3>1, <3>4 DEF NoStall, FlightBacked
      <4>2. Len(b) + 1 \in 1 .. Len(sq')
        BY <2>t, <2>4, <2>5
      <4> QED
        BY <2>5, <2>6, <4>1, <4>2
    <3>5. FlightBacked'
      BY <1>1, <3>4 DEF FlightBacked
    <3> QED
      BY <3>2, <3>3, <3>5 DEF NoStall
  <2>12. WritesInOrder'
    BY <1>1, <1>2 DEF WritesInOrder
  <2> QED
    BY <1>2, <2>8, <2>9, <2>10, <2>11, <2>12 DEF ConnInv
<1>5. CASE /\ \E old \in IF Reserved = {} THEN {<< >>} ELSE StaleEntry : sq' = Append(sq \o old, again)
           /\ sub' = Len(sq')
           /\ pc' = [t \in Threads |-> IF t = "poll" THEN "idle" ELSE IF t \in Reserved THEN "lost" ELSE pc[t]]
           /\ struck' = IF Reserved = {} THEN struck ELSE struck \cup {"unready"}
  <2>1. PICK old \in IF Reserved = {} THEN {<< >>} ELSE StaleEntry : sq' = Append(sq \o old, again)
    BY <1>5
  <2> QED
    BY <1>4, <1>5, <2>1
<1> QED
  BY <1>1, <1>3, <1>5

\* The end of a frame is where one of its bytes is, or after it.
LEMMA EndFacts ==
    ASSUME NEW b \in Seq(Cell), NEW i \in 1 .. Len(b), b[i][2] \in 1 .. FrameLen[b[i][1]]
    PROVE  EndOf(b, i) \in Int /\ EndOf(b, i) >= i
<1>1. b[i][2] \in Nat /\ FrameLen[b[i][1]] \in Nat
  BY CellFacts
<1>2. ASSUME NEW k \in Nat, NEW l \in Nat, k \in 1 .. l PROVE i + l - k \in Int /\ i + l - k >= i
  BY <1>2
<1>3. EndOf(b, i) = i + FrameLen[b[i][1]] - b[i][2]
  BY DEF EndOf
<1> QED
  BY <1>1, <1>2, <1>3

\* Whole frames stay whole when a frame is added at the end, the next one.
LEMMA WholeAppend ==
    ASSUME NEW b \in Seq(Cell), Whole(b), NEW f \in FrameNo,
           NEW c \in Seq(Cell), Len(c) = FrameLen[f], \A j \in 1 .. Len(c) : c[j] = <<f, j>>,
           b # << >> => f = b[Len(b)][1] + 1, NEW d, d = b \o c
    PROVE  Whole(d)
<1>1. /\ Len(d) = Len(b) + Len(c) /\ Len(b) \in Nat /\ Len(c) \in Nat
      /\ \A i \in 1 .. Len(b) : d[i] = b[i]
      /\ \A i \in Len(b) + 1 .. Len(b) + Len(c) : i - Len(b) \in 1 .. Len(c) /\ d[i] = c[i - Len(b)]
  <2>1. /\ Len(d) = Len(b) + Len(c) /\ Len(b) \in Nat /\ Len(c) \in Nat
        /\ \A i \in 1 .. Len(b) : d[i] = b[i]
        /\ \A i \in 1 .. Len(c) : d[Len(b) + i] = c[i]
    BY BothAt
  <2>2. ASSUME NEW i \in Len(b) + 1 .. Len(b) + Len(c) PROVE i - Len(b) \in 1 .. Len(c) /\ d[i] = c[i - Len(b)]
    <3>1. i - Len(b) \in 1 .. Len(c) /\ Len(b) + (i - Len(b)) = i
      BY <2>1
    <3> QED
      BY <2>1, <3>1
  <2> QED
    BY <2>1, <2>2
<1>2. /\ \A i \in 1 .. Len(b) : i \in 1 .. Len(d) /\ d[i] = b[i]
      /\ \A i \in Len(b) + 1 .. Len(d) : i - Len(b) \in 1 .. Len(c) /\ d[i] = <<f, i - Len(b)>>
  BY <1>1
<1>3. ASSUME NEW i \in 1 .. Len(d)
      PROVE  /\ d[i][2] \in 1 .. FrameLen[d[i][1]] /\ EndOf(d, i) <= Len(d)
             /\ \A j \in i .. EndOf(d, i) : d[j] = <<d[i][1], d[i][2] + j - i>>
             /\ EndOf(d, i) < Len(d) => d[EndOf(d, i) + 1] = <<d[i][1] + 1, 1>>
  <2>1. CASE i \in 1 .. Len(b)
    <3> DEFINE e == EndOf(b, i)
    <3>1. /\ b[i][2] \in 1 .. FrameLen[b[i][1]] /\ e <= Len(b)
          /\ \A j \in i .. e : b[j] = <<b[i][1], b[i][2] + j - i>>
          /\ e < Len(b) => b[e + 1] = <<b[i][1] + 1, 1>>
      BY <2>1 DEF Whole
    <3>2. EndOf(d, i) = e /\ d[i] = b[i]
      BY <1>2, <2>1 DEF EndOf
    <3>3. b[i][1] \in FrameNo /\ b[i][2] \in Nat
      BY <2>1, CellFacts
    <3>4. e \in Int /\ e >= i /\ e \in 1 .. Len(b)
      <4>1. e \in Int /\ e >= i
        BY <2>1, <3>1, EndFacts
      <4> QED
        BY <1>1, <2>1, <3>1, <4>1
    <3> HIDE DEF e
    <3>5. ASSUME NEW j \in i .. e PROVE d[j] = <<d[i][1], d[i][2] + j - i>>
      <4>1. j \in 1 .. Len(b)
        BY <1>1, <2>1, <3>4
      <4>2. b[j] = <<b[i][1], b[i][2] + j - i>>
        BY <3>1
      <4> QED
        BY <1>2, <3>2, <4>1, <4>2
    <3>6. ASSUME e < Len(d) PROVE d[e + 1] = <<d[i][1] + 1, 1>>
      <4>1. CASE e < Len(b)
        <5>1. b[e + 1] = <<b[i][1] + 1, 1>>
          BY <3>1, <4>1
        <5>2. Len(b) \in Nat
          BY <1>1
        <5>3. e + 1 \in 1 .. Len(b)
          BY <5>2, <3>4, <4>1
        <5> QED
          BY <1>2, <3>2, <5>1, <5>3
      <4>2. CASE e = Len(b)
        <5>1. b # << >> /\ b[Len(b)] = <<b[i][1], b[i][2] + e - i>>
          BY <2>1, <3>1, <3>4, <4>2
        <5>2. f = b[i][1] + 1
          BY <5>1
        <5>3. e + 1 \in Len(b) + 1 .. Len(d) /\ (e + 1) - Len(b) = 1
          BY <1>1, <3>4, <3>6, <4>2
        <5>4. d[e + 1] = <<f, (e + 1) - Len(b)>>
          BY <1>2, <5>3
        <5>5. d[e + 1] = <<f, 1>> /\ d[i] = b[i]
          BY <3>2, <5>3, <5>4
        <5> QED
          BY <5>2, <5>5, Zenon
      <4>3. e < Len(b) \/ e = Len(b)
        BY <1>1, <3>4
      <4> QED
        BY <4>1, <4>2, <4>3
    <3>7. d[i][2] \in 1 .. FrameLen[d[i][1]] /\ e <= Len(d)
      BY <1>1, <3>1, <3>2, <3>4
    <3> QED
      BY <3>2, <3>5, <3>6, <3>7
  <2>2. CASE i \in Len(b) + 1 .. Len(d)
    <3>1. d[i] = <<f, i - Len(b)>> /\ i - Len(b) \in 1 .. FrameLen[f] /\ FrameLen[f] \in Nat /\ f \in Nat
      BY <1>1, <1>2, <2>2, LengthFacts
    <3>2. d[i][1] = f /\ d[i][2] = i - Len(b)
      BY <3>1
    <3>3. EndOf(d, i) = Len(d)
      BY <1>1, <2>2, <3>1, <3>2 DEF EndOf
    <3>4. ASSUME NEW j \in i .. Len(d) PROVE d[j] = <<f, (i - Len(b)) + j - i>>
      <4>1. j \in Len(b) + 1 .. Len(d) /\ (i - Len(b)) + j - i = j - Len(b)
        BY <1>1, <2>2
      <4> QED
        BY <1>2, <4>1
    <3>5. d[i][2] \in 1 .. FrameLen[d[i][1]]
      BY <3>1, <3>2
    <3>6. \A j \in i .. EndOf(d, i) : d[j] = <<d[i][1], d[i][2] + j - i>>
      BY <3>2, <3>3, <3>4
    <3>7. EndOf(d, i) <= Len(d) /\ ~(EndOf(d, i) < Len(d))
      BY <1>1, <3>3
    <3> QED
      BY <3>5, <3>6, <3>7
  <2>3. i \in 1 .. Len(b) \/ i \in Len(b) + 1 .. Len(d)
    BY <1>1
  <2> QED
    BY <2>1, <2>2, <2>3
<1> QED
  BY <1>3 DEF Whole

\* They stay whole when some are taken from the front.
LEMMA WholeRest ==
    ASSUME NEW b \in Seq(Cell), Whole(b), NEW n \in 0 .. Len(b),
           NEW d, d = SubSeq(b, n + 1, Len(b))
    PROVE  Whole(d)
<1>1. /\ Len(d) = Len(b) - n /\ Len(b) \in Nat /\ n \in Nat
      /\ \A i \in 1 .. Len(b) - n : d[i] = b[n + i]
  BY RestAt
<1>2. ASSUME NEW i \in 1 .. Len(d)
      PROVE  /\ d[i][2] \in 1 .. FrameLen[d[i][1]] /\ EndOf(d, i) <= Len(d)
             /\ \A j \in i .. EndOf(d, i) : d[j] = <<d[i][1], d[i][2] + j - i>>
             /\ EndOf(d, i) < Len(d) => d[EndOf(d, i) + 1] = <<d[i][1] + 1, 1>>
  <2> DEFINE m == n + i
             e == EndOf(b, m)
  <2>1. m \in 1 .. Len(b) /\ d[i] = b[m]
    BY <1>1
  <2>2. b[m][1] \in FrameNo /\ b[m][2] \in Nat /\ FrameLen[b[m][1]] \in Nat
    BY <2>1, CellFacts
  <2>3. /\ b[m][2] \in 1 .. FrameLen[b[m][1]] /\ e <= Len(b)
        /\ \A j \in m .. e : b[j] = <<b[m][1], b[m][2] + j - m>>
        /\ e < Len(b) => b[e + 1] = <<b[m][1] + 1, 1>>
    BY <2>1 DEF Whole
  <2>4. EndOf(d, i) = e - n /\ e \in Int /\ e >= m
    <3>1. e \in Int /\ e >= m
      BY <2>1, <2>3, EndFacts
    <3>2. EndOf(d, i) = i + FrameLen[b[m][1]] - b[m][2] /\ e = (n + i) + FrameLen[b[m][1]] - b[m][2]
      BY <2>1 DEF EndOf
    <3> QED
      BY <1>1, <2>2, <3>1, <3>2
  <2> HIDE DEF e
  <2>5. ASSUME NEW j \in i .. e - n PROVE d[j] = <<d[i][1], d[i][2] + j - i>>
    <3>1. j \in 1 .. Len(b) - n /\ n + j \in m .. e /\ (n + j) - m = j - i
      <4>1. m = n + i /\ e <= Len(b) /\ e \in Int /\ e >= m /\ i \in 1 .. Len(b) - n
        BY <1>1, <2>3, <2>4
      <4> QED
        BY <1>1, <4>1
    <3>2. d[j] = <<b[m][1], b[m][2] + (n + j) - m>>
      BY <1>1, <2>3, <3>1
    <3> QED
      BY <1>1, <2>1, <2>2, <3>1, <3>2
  <2>6. ASSUME e - n < Len(d) PROVE d[(e - n) + 1] = <<d[i][1] + 1, 1>>
    <3>1. e < Len(b) /\ (e - n) + 1 \in 1 .. Len(b) - n /\ n + ((e - n) + 1) = e + 1
      BY <1>1, <2>4, <2>6
    <3> QED
      BY <1>1, <2>1, <2>3, <3>1
  <2>7. d[i][2] \in 1 .. FrameLen[d[i][1]] /\ e - n <= Len(d)
    <3>1. Len(d) = Len(b) - n /\ Len(b) \in Nat /\ n \in Nat /\ e <= Len(b) /\ e \in Int
      BY <1>1, <2>3, <2>4
    <3>2. d[i][2] \in 1 .. FrameLen[d[i][1]]
      BY <2>1, <2>3
    <3> QED
      BY <3>1, <3>2
  <2> QED
    BY <2>4, <2>5, <2>6, <2>7
<1> QED
  BY <1>2 DEF Whole

LEMMA Regroup ==
    ASSUME NEW S, NEW p, NEW u, NEW v, p \in Seq(S), u \in Seq(S), v \in Seq(S), NEW w, w = u \o v
    PROVE  (p \o u) \o v = p \o w
<1>1. (p \o u) \o v = p \o (u \o v)
  BY ConcatAssociative
<1> QED
  BY <1>1

\* The front of one sequence moves to the end of the one before it.
LEMMA FrontMoves ==
    ASSUME NEW S, NEW p \in Seq(S), NEW w \in Seq(S), NEW n \in 1 .. Len(w)
    PROVE  (p \o SubSeq(w, 1, n)) \o SubSeq(w, n + 1, Len(w)) = p \o w
<1>1. 1 \in 1 .. Len(w) + 1 /\ n \in 1 - 1 .. Len(w) /\ Len(w) \in n .. Len(w) /\ n \in 0 .. Len(w)
  OBVIOUS
<1>2. SubSeq(w, 1, n) \o SubSeq(w, n + 1, Len(w)) = w
  <2>1. SubSeq(w, 1, n) \o SubSeq(w, n + 1, Len(w)) = SubSeq(w, 1, Len(w))
    BY <1>1, ConcatAdjacentSubSeq
  <2> QED
    BY <2>1, SubSeqFull
<1>3. SubSeq(w, 1, n) \in Seq(S) /\ SubSeq(w, n + 1, Len(w)) \in Seq(S)
  BY <1>1, FirstAt, RestAt
<1>4. PICK u : u = SubSeq(w, 1, n)
  OBVIOUS
<1>5. PICK v : v = SubSeq(w, n + 1, Len(w))
  OBVIOUS
<1>6. u \in Seq(S) /\ v \in Seq(S) /\ w = u \o v
  BY <1>2, <1>3, <1>4, <1>5
<1>7. (p \o u) \o v = p \o w
  BY <1>6, Regroup
<1> QED
  BY <1>4, <1>5, <1>7

\* What is taken from the front of the first is taken from the front of both.
LEMMA FrontGoes ==
    ASSUME NEW S, NEW p \in Seq(S), NEW w \in Seq(S), NEW n \in 0 .. Len(p)
    PROVE  SubSeq(p, n + 1, Len(p)) \o w = SubSeq(p \o w, n + 1, Len(p \o w))
<1> DEFINE r == SubSeq(p, n + 1, Len(p))
           d == p \o w
<1>1. /\ r \in Seq(S) /\ Len(r) = Len(p) - n /\ Len(p) \in Nat
      /\ \A i \in 1 .. Len(p) - n : r[i] = p[n + i]
  BY RestAt
<1>2. /\ d \in Seq(S) /\ Len(d) = Len(p) + Len(w) /\ Len(w) \in Nat
      /\ \A i \in 1 .. Len(p) : d[i] = p[i]
      /\ \A i \in 1 .. Len(w) : d[Len(p) + i] = w[i]
  BY BothAt
<1> HIDE DEF r, d
<1>3. n \in 0 .. Len(d)
  BY <1>1, <1>2
<1>4. PICK e : e = SubSeq(d, n + 1, Len(d))
  OBVIOUS
<1>5. e \in Seq(S) /\ Len(e) = Len(d) - n /\ \A i \in 1 .. Len(d) - n : e[i] = d[n + i]
  BY <1>2, <1>3, <1>4, RestAt
<1>6. PICK g : g = r \o w
  OBVIOUS
<1>7. /\ g \in Seq(S) /\ Len(g) = Len(r) + Len(w)
      /\ \A i \in 1 .. Len(r) : g[i] = r[i]
      /\ \A i \in 1 .. Len(w) : g[Len(r) + i] = w[i]
  <2>1. r \in Seq(S)
    BY <1>1
  <2> QED
    BY <1>6, <2>1, BothAt
<1>8. Len(g) = Len(e)
  BY <1>1, <1>2, <1>5, <1>7
<1>9. ASSUME NEW i \in 1 .. Len(g) PROVE g[i] = e[i]
  <2>1. i \in 1 .. Len(d) - n
    BY <1>1, <1>2, <1>7
  <2>2. CASE i \in 1 .. Len(r)
    <3>1. i \in 1 .. Len(p) - n /\ n + i \in 1 .. Len(p)
      BY <1>1, <2>2
    <3>2. g[i] = p[n + i]
      BY <1>1, <1>7, <2>2, <3>1
    <3>3. e[i] = p[n + i]
      BY <1>2, <1>5, <2>1, <3>1
    <3> QED
      BY <3>2, <3>3
  <2>3. CASE i \in Len(r) + 1 .. Len(g)
    <3>1. i - Len(r) \in 1 .. Len(w) /\ Len(r) + (i - Len(r)) = i /\ Len(p) + (i - Len(r)) = n + i
      BY <1>1, <1>2, <1>7, <2>3
    <3>2. g[Len(r) + (i - Len(r))] = w[i - Len(r)] /\ d[Len(p) + (i - Len(r))] = w[i - Len(r)]
      BY <1>2, <1>7, <3>1
    <3>3. e[i] = d[n + i]
      BY <1>5, <2>1
    <3> QED
      BY <3>1, <3>2, <3>3
  <2>4. i \in 1 .. Len(r) \/ i \in Len(r) + 1 .. Len(g)
    BY <1>1, <1>7
  <2> QED
    BY <2>2, <2>3, <2>4
<1>10. g = e
  BY <1>5, <1>7, <1>8, <1>9, SeqEqual
<1> QED
  BY <1>4, <1>6, <1>10 DEF r, d

LEMMA BytesSame ==
    ASSUME Bytes' = Bytes, UNCHANGED <<recv, garbled>>
    PROVE  (StreamInOrder' <=> StreamInOrder) /\ ToWrite' = ToWrite
BY DEF StreamInOrder, ToWrite

\* The peer's steps leave the connection's own state alone.
LEMMA QuietStep ==
    ASSUME ConnInv, UNCHANGED <<writeVars, loopVars, cq, pushed, closeVars, threadVars, damage>>
    PROVE  Numbered' /\ ClosingShuts' /\ StallFree' /\ LoopOK'
<1>1. UNCHANGED <<queue, flight, seqNo, sq, sub, room, again, struck, cq, pushed, fd, shutting, closePending, pc,
                 owner, damage>>
  BY DEF writeVars, ringVars, loopVars, closeVars, threadVars
<1>2. Numbered' /\ ClosingShuts'
  BY <1>1 DEF ConnInv, Numbered, ClosingShuts
<1>3. StallFree'
  BY <1>1 DEF ConnInv, StallFree, NoStall, QueueStarted, FlightBacked, RingSubmitted, Filling
<1>4. LoopOK'
  BY <1>1, LoopSame
<1> QED
  BY <1>2, <1>3, <1>4

\* The peer's read() moves bytes; none is lost or turned.
LEMMA ReadsStep == ASSUME ConnInv, PeerReads PROVE ConnInv'
<1>1. PICK n \in 1 .. Lower(ReadMax, Len(wire)) :
         rbuf' = rbuf \o SubSeq(wire, 1, n) /\ wire' = SubSeq(wire, n + 1, Len(wire))
  BY DEF PeerReads
<1>2. UNCHANGED <<writeVars, loopVars, cq, recv, garbled, pushed, closeVars, threadVars, damage, lifeBounds>>
  BY DEF PeerReads
<1>3. /\ ReadMax \in Nat /\ Len(wire) \in Nat /\ wire \in Seq(Cell) /\ rbuf \in Seq(Cell)
  BY ConnFacts
<1>4. n \in 1 .. Len(wire) /\ n \in 0 .. Len(wire)
  BY <1>3 DEF Lower
<1>5. rbuf' \in Seq(Cell) /\ wire' \in Seq(Cell)
  <2>1. SubSeq(wire, 1, n) \in Seq(Cell) /\ SubSeq(wire, n + 1, Len(wire)) \in Seq(Cell)
    BY <1>3, <1>4, FirstAt, RestAt
  <2> QED
    BY <1>1, <1>3, <2>1, BothAt
<1>6. Bytes' = Bytes
  BY <1>1, <1>3, <1>4, FrontMoves DEF Bytes
<1>7. (StreamInOrder' <=> StreamInOrder) /\ ToWrite' = ToWrite
  BY <1>2, <1>6, BytesSame
<1>8. ConnTypeOK'
  BY <1>2, <1>5 DEF ConnInv, ConnTypeOK, writeVars, ringVars, closeVars, threadVars, lifeBounds
<1>9. Numbered' /\ ClosingShuts' /\ StallFree' /\ LoopOK'
  BY <1>2, QuietStep DEF ConnInv
<1>10. WritesInOrder'
  BY <1>2, <1>7
     DEF ConnInv, WritesInOrder, RingInOrder, QueueInOrder, FlightMatches, writeVars, ringVars, closeVars
<1> QED
  BY <1>8, <1>9, <1>10 DEF ConnInv

\* A whole frame at the front of a stream in order is given to on_message, and
\* the rest is in order after it.
LEMMA FrameGoes ==
    ASSUME NEW b \in Seq(Cell), Whole(b), b # << >>, NEW k \in FrameNo, b[1] = <<k, 1>>,
           FrameLen[k] <= Len(b), NEW d, d = SubSeq(b, FrameLen[k] + 1, Len(b))
    PROVE  /\ Whole(d) /\ d \in Seq(Cell)
           /\ IF d = << >> THEN b[Len(b)][1] = k ELSE d[1] = <<k + 1, 1>> /\ d[Len(d)] = b[Len(b)]
<1> DEFINE L == Len(b)
           n == FrameLen[k]
<1>1. L \in Nat /\ L >= 1 /\ n \in Nat /\ n >= 2 /\ k \in Nat /\ n <= L
  BY LengthFacts
<1>2. EndOf(b, 1) = n
  <2>1. EndOf(b, 1) = 1 + FrameLen[k] - 1
    BY DEF EndOf
  <2> QED
    BY <1>1, <2>1
<1>3. /\ \A j \in 1 .. n : b[j] = <<k, 1 + j - 1>>
      /\ n < L => b[n + 1] = <<k + 1, 1>>
  <2>1. 1 \in 1 .. Len(b) /\ b[1][1] = k /\ b[1][2] = 1
    BY <1>1
  <2>2. /\ \A j \in 1 .. EndOf(b, 1) : b[j] = <<b[1][1], b[1][2] + j - 1>>
        /\ EndOf(b, 1) < Len(b) => b[EndOf(b, 1) + 1] = <<b[1][1] + 1, 1>>
    BY <2>1 DEF Whole
  <2> QED
    BY <1>2, <2>1, <2>2
<1>4. n \in 0 .. L
  BY <1>1
<1>5. Whole(d)
  BY <1>4, WholeRest
<1>6. d \in Seq(Cell) /\ Len(d) = L - n /\ \A i \in 1 .. L - n : d[i] = b[n + i]
  BY <1>4, RestAt
<1>7. CASE n = L
  <2>1. b[n] = <<k, 1 + n - 1>>
    <3>1. n \in 1 .. n
      BY <1>1
    <3> QED
      BY <1>3, <3>1
  <2>2. b[n][1] = k
    BY <2>1
  <2>3. d = << >>
    BY <1>1, <1>6, <1>7
  <2> QED
    BY <1>5, <1>6, <1>7, <2>2, <2>3
<1>8. CASE n < L
  <2>1. 1 \in 1 .. L - n /\ L - n \in 1 .. L - n /\ n + (L - n) = L
    BY <1>1, <1>8
  <2>2. d[1] = b[n + 1] /\ d[L - n] = b[n + (L - n)]
    BY <1>6, <2>1
  <2>3. d[1] = <<k + 1, 1>> /\ d[Len(d)] = b[L]
    BY <1>3, <1>6, <1>8, <2>1, <2>2
  <2>4. d # << >>
    <3>1. Len(d) = L - n /\ L - n # 0
      BY <1>1, <1>6, <1>8
    <3> QED
      BY <3>1, Empty
  <2> QED
    BY <1>5, <1>6, <2>3, <2>4
<1>9. n = L \/ n < L
  BY <1>1
<1> QED
  BY <1>7, <1>8, <1>9

\* parse_incoming_(): in a stream in order the next frame is found, whole.
LEMMA ParseStep == ASSUME ConnInv, parse_incoming_ PROVE ConnInv'
<1> DEFINE k == rbuf[1][1]
<1>1. /\ ~garbled /\ Len(rbuf) >= 2
      /\ UNCHANGED <<writeVars, loopVars, cq, wire, pushed, closeVars, threadVars, damage, lifeBounds>>
      /\ \/ rbuf[1][2] # 1 /\ garbled' = TRUE /\ UNCHANGED <<rbuf, recv>>
         \/ /\ rbuf[1][2] = 1 /\ Len(rbuf) >= FrameLen[k] /\ recv' = Append(recv, k) /\ garbled' = garbled
            /\ rbuf' = SubSeq(rbuf, FrameLen[k] + 1, Len(rbuf))
  BY DEF parse_incoming_, FrameSize
<1>2. /\ rbuf \in Seq(Cell) /\ wire \in Seq(Cell) /\ Bytes \in Seq(Cell) /\ recv \in Seq(FrameNo)
      /\ Len(rbuf) \in Nat /\ Len(recv) \in Nat /\ Len(wire) \in Nat /\ ToWrite \in Nat
  BY ConnFacts
<1>3. /\ k \in FrameNo /\ FrameLen[k] \in Nat /\ k \in Nat
  <2>1. 1 \in 1 .. Len(rbuf)
    BY <1>1, <1>2
  <2> QED
    BY <1>2, <2>1, CellFacts
<1>4. rbuf' \in Seq(Cell) /\ recv' \in Seq(FrameNo) /\ garbled' \in BOOLEAN
  <2>1. CASE rbuf[1][2] # 1
    BY <1>1, <1>2, <2>1
  <2>2. CASE rbuf[1][2] = 1
    <3>1. FrameLen[k] \in 0 .. Len(rbuf)
      BY <1>1, <1>2, <1>3, <2>2
    <3>2. rbuf' \in Seq(Cell)
      BY <1>1, <1>2, <2>2, <3>1, RestAt
    <3>3. recv' \in Seq(FrameNo)
      BY <1>1, <1>2, <1>3, <2>2, AppendProperties
    <3>4. garbled' \in BOOLEAN
      <4>1. garbled' = garbled
        BY <1>1, <2>2
      <4>2. garbled \in BOOLEAN
        BY DEF ConnInv, ConnTypeOK
      <4> QED
        BY <4>1, <4>2, Zenon
    <3> QED
      BY <3>2, <3>3, <3>4
  <2> QED
    BY <2>1, <2>2
<1>5. ConnTypeOK'
  BY <1>1, <1>4 DEF ConnInv, ConnTypeOK, writeVars, ringVars, closeVars, threadVars, lifeBounds
<1>6. Numbered' /\ ClosingShuts' /\ StallFree' /\ LoopOK'
  BY <1>1, QuietStep DEF ConnInv
<1>7. ASSUME damage = 0 PROVE StreamInOrder' /\ ToWrite' = ToWrite
  <2>1. /\ ~garbled /\ \A i \in 1 .. Len(recv) : recv[i] = i
        /\ Bytes # << >> => Bytes[1] = <<Len(recv) + 1, 1>>
        /\ Whole(Bytes)
    BY <1>7 DEF ConnInv, WritesInOrder, StreamInOrder
  <2>2. Len(Bytes) = Len(rbuf) + Len(wire) /\ \A i \in 1 .. Len(rbuf) : Bytes[i] = rbuf[i]
    BY <1>2, BothAt DEF Bytes
  <2>3. Bytes # << >> /\ Bytes[1] = rbuf[1] /\ 1 \in 1 .. Len(rbuf)
    BY <1>1, <1>2, <2>2
  <2>4. rbuf[1] = <<Len(recv) + 1, 1>>
    BY <2>1, <2>3
  <2>5. rbuf[1][2] = 1 /\ k = Len(recv) + 1
    BY <2>4
  <2>6. /\ Len(rbuf) >= FrameLen[k] /\ recv' = Append(recv, k) /\ garbled' = garbled
        /\ rbuf' = SubSeq(rbuf, FrameLen[k] + 1, Len(rbuf)) /\ wire' = wire
    BY <1>1, <2>5
  <2>7. Bytes[1] = <<k, 1>>
    BY <2>3, <2>4, <2>5
  <2> HIDE DEF k
  <2>8. FrameLen[k] \in 0 .. Len(rbuf) /\ FrameLen[k] <= Len(Bytes)
    BY <1>2, <1>3, <2>2, <2>6
  <2>9. Bytes' = SubSeq(Bytes, FrameLen[k] + 1, Len(Bytes))
    BY <1>2, <2>6, <2>8, FrontGoes DEF Bytes
  <2>10. /\ Whole(Bytes')
         /\ IF Bytes' = << >> THEN Bytes[Len(Bytes)][1] = k
            ELSE Bytes'[1] = <<k + 1, 1>> /\ Bytes'[Len(Bytes')] = Bytes[Len(Bytes)]
    <3>1. PICK d : d = Bytes'
      OBVIOUS
    <3>2. PICK b : b = Bytes
      OBVIOUS
    <3>3. /\ b \in Seq(Cell) /\ Whole(b) /\ b # << >> /\ k \in FrameNo /\ b[1] = <<k, 1>>
          /\ FrameLen[k] <= Len(b) /\ d = SubSeq(b, FrameLen[k] + 1, Len(b))
      BY <1>2, <1>3, <2>1, <2>3, <2>7, <2>8, <2>9, <3>1, <3>2
    <3>4. /\ Whole(d)
          /\ IF d = << >> THEN b[Len(b)][1] = k ELSE d[1] = <<k + 1, 1>> /\ d[Len(d)] = b[Len(b)]
      BY <3>3, FrameGoes
    <3> QED
      BY <3>1, <3>2, <3>4
  <2>11. Len(recv') = Len(recv) + 1 /\ \A i \in 1 .. Len(recv') : recv'[i] = i
    <3>1. /\ Len(recv') = Len(recv) + 1 /\ recv'[Len(recv) + 1] = k
          /\ \A i \in 1 .. Len(recv) : recv'[i] = recv[i]
      BY <1>2, <1>3, <2>6, AppendProperties
    <3>2. ASSUME NEW i \in 1 .. Len(recv') PROVE recv'[i] = i
      <4>1. CASE i \in 1 .. Len(recv)
        BY <2>1, <3>1, <4>1
      <4>2. CASE i = Len(recv) + 1
        BY <2>5, <3>1, <4>2
      <4> QED
        BY <1>2, <3>1, <4>1, <4>2
    <3> QED
      BY <3>1, <3>2
  <2>12. Whole(Bytes)' /\ (Bytes' # << >> => Bytes'[1] = <<Len(recv') + 1, 1>>)
    <3>1. Len(recv') = k
      BY <2>5, <2>11
    <3> QED
      BY <2>10, <3>1 DEF Whole, EndOf
  <2>13. StreamInOrder'
    BY <2>1, <2>6, <2>11, <2>12 DEF StreamInOrder
  <2>14. ToWrite' = ToWrite
    <3>1. CASE Bytes' = << >>
      BY <2>3, <2>5, <2>10, <2>11, <3>1 DEF ToWrite
    <3>2. CASE Bytes' # << >>
      BY <2>3, <2>10, <3>2 DEF ToWrite
    <3> QED
      BY <3>1, <3>2
  <2> QED
    BY <2>13, <2>14
<1>8. WritesInOrder'
  <2>1. UNCHANGED <<queue, flight, seqNo, sq, cq, pushed, damage, fd, shutting>>
    BY <1>1 DEF writeVars, ringVars, closeVars
  <2> QED
    BY <1>7, <2>1 DEF ConnInv, WritesInOrder, RingInOrder, QueueInOrder, FlightMatches
<1> QED
  BY <1>5, <1>6, <1>8 DEF ConnInv

LEMMA CellsFacts ==
    ASSUME NEW f \in FrameNo, NEW o \in Nat, NEW n \in Nat
    PROVE  /\ Cells(f, o, n) \in Seq(Cell) /\ Len(Cells(f, o, n)) = n
           /\ \A j \in 1 .. n : Cells(f, o, n)[j] = <<f, o + j>>
<1>1. \A j \in 1 .. n : <<f, o + j>> \in Cell
  BY DEF Cell
<1>2. Cells(f, o, n) = [j \in 1 .. n |-> <<f, o + j>>]
  BY DEF Cells
<1>3. [j \in 1 .. n |-> <<f, o + j>>] \in Seq(Cell) /\ Len([j \in 1 .. n |-> <<f, o + j>>]) = n
  BY <1>1
<1>4. \A j \in 1 .. n : [i \in 1 .. n |-> <<f, o + i>>][j] = <<f, o + j>>
  OBVIOUS
<1> QED
  BY <1>2, <1>3, <1>4, Zenon

\* Frame k is the next after the bytes b, and d is what it makes of them when it
\* is written whole.
Follows(b, k) == b # << >> => k = b[Len(b)][1] + 1
EndsWith(d, k, b) ==
    /\ Whole(d) /\ d # << >> /\ d[Len(d)][1] = k
    /\ b = << >> => d[1] = <<k, 1>>
    /\ b # << >> => d[1] = b[1]

LEMMA FrameComes ==
    ASSUME NEW b, b \in Seq(Cell), Whole(b), NEW k, k \in FrameNo, Follows(b, k),
           NEW c, c = Cells(k, 0, FrameLen[k]), NEW d, d = b \o c
    PROVE  EndsWith(d, k, b)
<1>1. FrameLen[k] \in Nat /\ FrameLen[k] >= 2 /\ k \in Nat /\ 0 \in Nat
  BY LengthFacts
<1>2. c \in Seq(Cell) /\ Len(c) = FrameLen[k] /\ \A j \in 1 .. FrameLen[k] : c[j] = <<k, 0 + j>>
  BY <1>1, CellsFacts
<1>3. \A j \in 1 .. Len(c) : c[j] = <<k, j>>
  BY <1>1, <1>2
<1>4. Whole(d)
  BY <1>2, <1>3, WholeAppend DEF Follows
<1>5. /\ Len(d) = Len(b) + Len(c) /\ Len(b) \in Nat
      /\ \A i \in 1 .. Len(b) : d[i] = b[i]
      /\ \A i \in 1 .. Len(c) : d[Len(b) + i] = c[i]
  BY <1>2, BothAt
<1>6. d[Len(d)] = <<k, FrameLen[k]>>
  <2>1. Len(c) \in 1 .. Len(c)
    BY <1>1, <1>2
  <2> QED
    BY <1>2, <1>3, <1>5, <2>1
<1>7. (b = << >> => d[1] = <<k, 1>>) /\ (b # << >> => d[1] = b[1])
  <2>1. CASE b = << >>
    <3>1. 1 \in 1 .. Len(c) /\ Len(b) + 1 = 1
      BY <1>1, <1>2, <2>1, Empty
    <3> QED
      BY <1>3, <1>5, <2>1, <3>1
  <2>2. CASE b # << >>
    <3>1. 1 \in 1 .. Len(b)
      BY <2>2
    <3> QED
      BY <1>5, <2>2, <3>1
  <2> QED
    BY <2>1, <2>2
<1>8. d # << >>
  <2>1. Len(d) # 0
    BY <1>1, <1>2, <1>5
  <2> QED
    BY <2>1, Empty
<1> QED
  BY <1>4, <1>6, <1>7, <1>8 DEF EndsWith

\* The kernel: a frame written whole goes on where the bytes end, and every
\* write that was submitted has its completion.
LEMMA KernelStep == ASSUME ConnInv, TagsSuffice, KernelWrite PROVE ConnInv'
<1> DEFINE e == Head(sq)
<1>1. PICK n \in 0 .. FrameLen[e.f] - e.off :
         /\ IF fd /\ n = FrameLen[e.f] - e.off THEN UNCHANGED <<writeFaults, damage>>
            ELSE IF fd THEN Fault /\ damage' = damage + 1
            ELSE n = 0 /\ UNCHANGED <<writeFaults, damage>>
         /\ wire' = wire \o Cells(e.f, e.off, n)
         /\ cq' = Append(cq, [tag |-> (TagBase + e.s) % TagSpace, res |-> IF n = 0 THEN 0 - Errno ELSE n])
  BY DEF KernelWrite
<1>2. /\ sq # << >> /\ sq' = Tail(sq) /\ sub' = sub - 1
      /\ UNCHANGED <<queue, flight, seqNo, loopVars, peerVars, pushed, closeVars, threadVars, lives>>
  BY DEF KernelWrite
<1>3. /\ sq \in Seq(Submission) /\ Len(sq) \in Nat /\ cq \in Seq(Completion) /\ Len(cq) \in Nat
      /\ wire \in Seq(Cell) /\ rbuf \in Seq(Cell) /\ Bytes \in Seq(Cell) /\ ToWrite \in Nat
      /\ seqNo \in Nat /\ pushed \in Nat /\ pushed <= MaxSend /\ seqNo + Len(queue) <= pushed
      /\ Len(queue) \in Nat /\ TagBase \in Nat /\ TagSpace \in Nat \ {0} /\ MaxSend \in Nat
  BY ConnFacts
<1>4. /\ sq' \in Seq(Submission) /\ e = sq[1] /\ 1 \in 1 .. Len(sq) /\ Len(sq') = Len(sq) - 1
      /\ \A i \in 1 .. Len(sq') : i + 1 \in 1 .. Len(sq) /\ sq'[i] = sq[i + 1]
  <2>1. /\ Tail(sq) \in Seq(Submission) /\ Head(sq) = sq[1]
        /\ Len(sq) \in Nat /\ 1 \in DOMAIN sq /\ DOMAIN sq = 1 .. Len(sq)
        /\ DOMAIN Tail(sq) = 1 .. Len(sq) - 1
        /\ \A i \in DOMAIN Tail(sq) : i + 1 \in DOMAIN sq /\ Tail(sq)[i] = sq[i + 1]
    BY <1>2, <1>3, TailAt
  <2>2. Len(Tail(sq)) = Len(sq) - 1
    BY <1>2, <1>3, HeadTailProperties
  <2> QED
    BY <1>2, <2>1, <2>2
<1>5. e.s \in Nat /\ e.f \in FrameNo /\ e.off \in Nat /\ e.s < seqNo
  BY <1>4, ConnFacts
<1> DEFINE c == [tag |-> (TagBase + e.s) % TagSpace, res |-> IF n = 0 THEN 0 - Errno ELSE n]
<1> HIDE DEF e
<1>a. (TagBase + e.s) % TagSpace = TagBase + e.s /\ TagBase + e.s \in Nat
  <2>1. TagBase + e.s \in 0 .. TagSpace - 1
    BY <1>3, <1>5 DEF TagsSuffice
  <2>2. (TagBase + e.s) % TagSpace = TagBase + e.s
    BY <1>3, <2>1, ModSmall
  <2>3. TagBase + e.s \in Nat
    BY <1>3, <1>5
  <2> QED
    BY <2>2, <2>3
<1>6. c.tag = TagBase + e.s /\ c.res = IF n = 0 THEN 0 - Errno ELSE n
  BY <1>a
<1>7. FrameLen[e.f] \in Nat /\ FrameLen[e.f] >= 2 /\ n \in Nat /\ Errno \in Nat
  <2>1. FrameLen[e.f] \in Nat /\ FrameLen[e.f] >= 2
    BY <1>5, LengthFacts
  <2> QED
    BY <1>1, <1>5, <2>1, ConnAssumption
<1>8. c \in Completion
  <2>1. (TagBase + e.s) % TagSpace \in Nat
    BY <1>a
  <2>2. (IF n = 0 THEN 0 - Errno ELSE n) \in Int
    BY <1>7
  <2> QED
    BY <2>1, <2>2 DEF Completion
<1>9. cq' = Append(cq, c)
  BY <1>1
<1> HIDE DEF c
<1>10. /\ cq' \in Seq(Completion) /\ Len(cq') = Len(cq) + 1
       /\ \A i \in 1 .. Len(cq) : cq'[i] = cq[i]
       /\ cq'[Len(cq) + 1] = c
  BY <1>3, <1>8, <1>9, AppendProperties
<1>11. Cells(e.f, e.off, n) \in Seq(Cell)
  BY <1>5, <1>7, CellsFacts
<1>12. wire' \in Seq(Cell)
  BY <1>1, <1>3, <1>11, BothAt
<1>13. damage' \in Nat /\ writeFaults' \in Nat /\ (damage' = 0 => damage = 0)
  <2>1. damage \in Nat /\ writeFaults \in Nat
    BY ConnFacts
  <2>2. CASE UNCHANGED <<writeFaults, damage>>
    BY <2>1, <2>2
  <2>3. CASE Fault /\ damage' = damage + 1
    BY <2>1, <2>3 DEF Fault
  <2> QED
    BY <1>1, <2>2, <2>3
<1>14. ConnTypeOK'
  BY <1>2, <1>4, <1>10, <1>12, <1>13 DEF ConnInv, ConnTypeOK, peerVars, closeVars, threadVars
<1>15. Numbered'
  <2>1. \A i \in 1 .. Len(sq') : sq'[i].s < seqNo
    BY <1>4, ConnFacts
  <2>2. ASSUME NEW i \in 1 .. Len(cq') PROVE cq'[i].tag < TagBase + seqNo
    <3>1. CASE i \in 1 .. Len(cq)
      BY <1>10, <3>1, ConnFacts
    <3>2. CASE i = Len(cq) + 1
      BY <1>3, <1>5, <1>6, <1>10, <3>2
    <3> QED
      BY <1>3, <1>10, <3>1, <3>2
  <2> QED
    BY <1>2, <2>1, <2>2 DEF ConnInv, Numbered
<1>16. ClosingShuts'
  BY <1>2 DEF ConnInv, ClosingShuts, closeVars, threadVars
<1>17. StallFree'
  <2> SUFFICES ASSUME struck = {} PROVE NoStall'
    BY <1>2 DEF StallFree, loopVars
  <2>1. UNCHANGED <<queue, flight, pc, fd, shutting, again>> /\ NoStall
    BY <1>2 DEF ConnInv, StallFree, closeVars, threadVars, loopVars
  <2>2. QueueStarted'
    BY <2>1 DEF NoStall, QueueStarted
  <2>5. RingSubmitted'
    <3>1. sub = Len(sq) => sub' = Len(sq')
      BY <1>2, <1>3, <1>4
    <3> QED
      BY <2>1, <3>1 DEF NoStall, RingSubmitted, Filling
  <2>3. ASSUME ~shutting, fd, NEW s \in DOMAIN flight
        PROVE  \/ \E i \in 1 .. Len(sq') : sq'[i].s = s
               \/ \E i \in 1 .. Len(cq') : cq'[i].tag = TagBase + s
               \/ pc["poll"] = "again" /\ again.s = s
    <3>1. \/ \E i \in 1 .. Len(sq) : sq[i].s = s
          \/ \E i \in 1 .. Len(cq) : cq[i].tag = TagBase + s
          \/ pc["poll"] = "again" /\ again.s = s
      BY <2>1, <2>3 DEF NoStall, FlightBacked
    <3>2. ASSUME NEW i \in 1 .. Len(cq), cq[i].tag = TagBase + s
          PROVE  \E j \in 1 .. Len(cq') : cq'[j].tag = TagBase + s
      <4>1. i \in 1 .. Len(cq') /\ cq'[i] = cq[i]
        BY <1>3, <1>10
      <4> QED
        BY <3>2, <4>1
    <3>3. ASSUME NEW i \in 1 .. Len(sq), sq[i].s = s
          PROVE  \/ \E j \in 1 .. Len(sq') : sq'[j].s = s
                 \/ \E j \in 1 .. Len(cq') : cq'[j].tag = TagBase + s
      <4>1. CASE i = 1
        <5>1. e.s = s
          BY <1>4, <3>3, <4>1
        <5>2. Len(cq) + 1 \in 1 .. Len(cq') /\ cq'[Len(cq) + 1].tag = TagBase + s
          BY <1>3, <1>6, <1>10, <5>1
        <5> QED
          BY <5>2
      <4>2. CASE i # 1
        <5>1. i - 1 \in 1 .. Len(sq') /\ (i - 1) + 1 = i
          BY <1>3, <1>4, <4>2
        <5>2. sq'[i - 1] = sq[i]
          BY <1>4, <5>1
        <5> QED
          BY <3>3, <5>1, <5>2
      <4> QED
        BY <4>1, <4>2
    <3> QED
      BY <3>1, <3>2, <3>3
  <2>4. FlightBacked'
    BY <2>1, <2>3 DEF FlightBacked
  <2> QED
    BY <2>2, <2>4, <2>5 DEF NoStall
<1>21. LoopOK'
  <2>1. UNCHANGED <<queue, flight, seqNo, room, again, struck, pc, fd, shutting>>
    BY <1>2 DEF closeVars, threadVars, loopVars
  <2>2. damage' # 0 \/ damage = 0
    BY <1>13
  <2>3. \A t, u \in Threads : pc'[t] \in Fill /\ pc'[u] \in Fill => t = u
    BY <2>1 DEF ConnInv, LoopOK
  <2>4. ASSUME NEW t \in Threads
        PROVE  /\ pc'[t] \in Fill => ~shutting' /\ fd' /\ (room' # WriteBatch => DOMAIN flight' # {})
               /\ pc'[t] \in {"prep", "lost"} => queue' # << >>
               /\ pc'[t] = "lost" => struck' # {} /\ damage' # 0
    BY <2>1, <2>2 DEF ConnInv, LoopOK
  <2>5. pc'["poll"] = "again" => again' \in Submission /\ again'.s < seqNo' /\ damage' # 0
    BY <2>1, <2>2 DEF ConnInv, LoopOK
  <2> QED
    BY <2>3, <2>4, <2>5 DEF LoopOK
<1>18. ASSUME damage' = 0, fd
       PROVE  /\ StreamInOrder' /\ RingInOrder' /\ FlightMatches'
              /\ ~shutting => QueueInOrder'
  <2>1. damage = 0 /\ n = FrameLen[e.f] - e.off
    <3>1. damage \in Nat
      BY ConnFacts
    <3> QED
      BY <1>1, <1>18, <3>1 DEF e
  <2>2. StreamInOrder /\ RingInOrder /\ FlightMatches /\ (~shutting => QueueInOrder)
    BY <1>18, <2>1 DEF ConnInv, WritesInOrder
  <2>3. e.f = ToWrite /\ e.off = 0 /\ n = FrameLen[e.f]
    <3>1. e.f = ToWrite + 1 - 1 /\ e.off = 0
      BY <1>4, <2>2 DEF RingInOrder
    <3> QED
      BY <1>3, <1>7, <2>1, <3>1
  <2>4. ~garbled /\ (\A i \in 1 .. Len(recv) : recv[i] = i) /\ UNCHANGED <<recv, garbled, rbuf>>
        /\ (Bytes # << >> => Bytes[1] = <<Len(recv) + 1, 1>>) /\ Whole(Bytes)
    BY <1>2, <2>2 DEF StreamInOrder, peerVars
  <2>5. Bytes' = Bytes \o Cells(e.f, 0, FrameLen[e.f])
    <3>1. PICK u : u = Cells(e.f, 0, FrameLen[e.f])
      OBVIOUS
    <3>2. PICK w : w = wire'
      OBVIOUS
    <3>3. u \in Seq(Cell) /\ w = wire \o u
      BY <1>1, <1>11, <2>3, <3>1, <3>2 DEF e
    <3>4. PICK p : p = rbuf
      OBVIOUS
    <3>5. PICK q : q = wire
      OBVIOUS
    <3>6. p \in Seq(Cell) /\ q \in Seq(Cell) /\ w = q \o u
      BY <1>3, <3>3, <3>4, <3>5
    <3>7. (p \o q) \o u = p \o w
      BY <3>3, <3>6, Regroup
    <3>8. rbuf' = rbuf
      BY <2>4
    <3> QED
      BY <3>1, <3>2, <3>4, <3>5, <3>7, <3>8 DEF Bytes
  <2>6. /\ Whole(Bytes') /\ Bytes' # << >> /\ Bytes'[Len(Bytes')][1] = e.f
        /\ Bytes = << >> => Bytes'[1] = <<e.f, 1>>
        /\ Bytes # << >> => Bytes'[1] = Bytes[1]
    <3>1. Follows(Bytes, e.f)
      BY <2>3 DEF ToWrite, Follows
    <3>2. PICK d : d = Bytes'
      OBVIOUS
    <3>3. PICK b : b = Bytes
      OBVIOUS
    <3>4. PICK k : k = e.f
      OBVIOUS
    <3>5. PICK u : u = Cells(k, 0, FrameLen[k])
      OBVIOUS
    <3>6. /\ b \in Seq(Cell) /\ Whole(b) /\ d = b \o u /\ Follows(b, k)
          /\ k \in FrameNo
      BY <1>3, <1>5, <2>4, <2>5, <3>1, <3>2, <3>3, <3>4, <3>5
    <3>7. EndsWith(d, k, b)
      BY <3>5, <3>6, FrameComes
    <3> QED
      BY <3>2, <3>3, <3>4, <3>7 DEF EndsWith
  <2>7. ToWrite' = ToWrite + 1
    BY <2>3, <2>6 DEF ToWrite
  <2>8. StreamInOrder'
    <3>1. Bytes'[1] = <<Len(recv) + 1, 1>>
      <4>1. CASE Bytes = << >>
        <5>1. ToWrite = Len(recv) + 1
          BY <4>1 DEF ToWrite
        <5> QED
          BY <2>3, <2>6, <4>1, <5>1
      <4>2. CASE Bytes # << >>
        BY <2>4, <2>6, <4>2
      <4> QED
        BY <4>1, <4>2
    <3>2. Whole(Bytes)'
      BY <2>6 DEF Whole, EndOf
    <3> QED
      BY <2>4, <3>1, <3>2 DEF StreamInOrder
  <2>9. RingInOrder'
    <3>1. ASSUME NEW i \in 1 .. Len(sq') PROVE sq'[i].f = ToWrite' + i - 1 /\ sq'[i].off = 0
      <4>1. i + 1 \in 1 .. Len(sq) /\ sq'[i] = sq[i + 1]
        BY <1>4
      <4>2. sq[i + 1].f = ToWrite + (i + 1) - 1 /\ sq[i + 1].off = 0
        BY <2>2, <4>1 DEF RingInOrder
      <4> QED
        BY <1>3, <2>7, <4>1, <4>2
    <3> QED
      BY <3>1 DEF RingInOrder
  <2>10. ASSUME QueueInOrder PROVE QueueInOrder'
    <3>1. /\ \A i \in 1 .. Len(queue) : queue[i] = ToWrite + Len(sq) + i - 1
          /\ pushed = ToWrite + Len(sq) + Len(queue) - 1 /\ UNCHANGED <<queue, pushed>>
      BY <1>2, <2>10 DEF QueueInOrder
    <3>2. ToWrite + Len(sq) = ToWrite' + Len(sq')
      BY <1>3, <1>4, <2>7
    <3> QED
      BY <3>1, <3>2 DEF QueueInOrder
  <2>11. FlightMatches'
    <3>1. ASSUME NEW s \in DOMAIN flight
          PROVE  /\ flight[s].off = 0
                 /\ \A i \in 1 .. Len(sq') : sq'[i].s = s => sq'[i].f = flight[s].f
                 /\ \A i \in 1 .. Len(cq') : cq'[i].tag = TagBase + s => cq'[i].res = FrameLen[flight[s].f]
      <4>1. /\ flight[s].off = 0
            /\ \A i \in 1 .. Len(sq) : sq[i].s = s => sq[i].f = flight[s].f
            /\ \A i \in 1 .. Len(cq) : cq[i].tag = TagBase + s => cq[i].res = FrameLen[flight[s].f]
        BY <2>2 DEF FlightMatches
      <4>2. ASSUME NEW i \in 1 .. Len(cq'), cq'[i].tag = TagBase + s PROVE cq'[i].res = FrameLen[flight[s].f]
        <5>1. CASE i \in 1 .. Len(cq)
          BY <1>10, <4>1, <4>2, <5>1
        <5>2. CASE i = Len(cq) + 1
          <6>1. TagBase + e.s = TagBase + s /\ s \in Nat
            BY <1>6, <1>10, <4>2, <5>2, ConnFacts
          <6>2. e.s = s
            BY <1>3, <1>5, <6>1
          <6>3. e.f = flight[s].f
            BY <1>4, <4>1, <6>2
          <6>4. cq'[i].res = FrameLen[e.f]
            BY <1>6, <1>7, <1>10, <2>3, <5>2
          <6> QED
            BY <6>3, <6>4
        <5> QED
          BY <1>3, <1>10, <5>1, <5>2
      <4> QED
        BY <1>4, <4>1, <4>2
    <3> QED
      BY <1>2, <3>1 DEF FlightMatches
  <2> QED
    BY <2>2, <2>8, <2>9, <2>10, <2>11
<1>19. ASSUME damage' = 0, ~fd PROVE StreamInOrder'
  <2>1. n = 0 /\ damage = 0
    BY <1>1, <1>13, <1>19 DEF e
  <2>2. PICK u : u = Cells(e.f, e.off, n)
    OBVIOUS
  <2>3. u \in Seq(Cell) /\ Len(u) = 0 /\ wire' = wire \o u
    <3>1. Len(u) = 0
      BY <1>5, <1>7, <2>1, <2>2, CellsFacts
    <3> QED
      BY <1>1, <1>11, <2>2, <3>1 DEF e
  <2>4. wire' = wire
    <3>1. u = << >>
      BY <2>3, EmptySeq
    <3> QED
      BY <1>3, <2>3, <3>1, ConcatEmptySeq
  <2>5. UNCHANGED <<wire, rbuf, recv, garbled>>
    BY <1>2, <2>4 DEF peerVars
  <2> QED
    BY <2>1, <2>5, StreamSame DEF ConnInv, WritesInOrder
<1>20. WritesInOrder'
  <2>1. fd' = fd /\ shutting' = shutting
    BY <1>2 DEF closeVars
  <2> QED
    BY <1>18, <1>19, <2>1 DEF WritesInOrder
<1> QED
  BY <1>14, <1>15, <1>16, <1>17, <1>20, <1>21 DEF ConnInv

\* on_write_complete(): a write that is over leaves the table, and the last of
\* them starts what is queued.
LEMMA CompleteStep == ASSUME ConnInv, on_write_complete PROVE ConnInv'
<1> DEFINE c == Head(cq)
           s == c.tag - TagBase
           off == (flight[s].off + c.res) % Word
           f == flight[s].f
           rest == [r \in DOMAIN flight \ {s} |-> flight[r]]
<1>1. /\ pc["poll"] = "idle" /\ cq # << >> /\ cq' = Tail(cq) /\ ~Filling
      /\ UNCHANGED <<queue, seqNo, sq, sub, room, struck, wire, peerVars, pushed, fd, shutting, closePending, owner,
                     damage, lifeBounds>>
      /\ \/ s \notin DOMAIN flight /\ UNCHANGED <<flight, again, pc>>
         \/ /\ s \in DOMAIN flight /\ off < FrameLen[f] /\ fd /\ flight' = [flight EXCEPT ![s].off = off]
            /\ again' = [s |-> s, f |-> f, off |-> off] /\ pc' = [pc EXCEPT !["poll"] = "again"]
         \/ /\ s \in DOMAIN flight /\ off < FrameLen[f] /\ ~fd /\ flight' = rest /\ UNCHANGED <<again, pc>>
         \/ /\ s \in DOMAIN flight /\ ~(off < FrameLen[f]) /\ flight' = rest /\ UNCHANGED again
            /\ pc' = IF DOMAIN rest = {} /\ ~closePending THEN [pc EXCEPT !["poll"] = "start"] ELSE pc
  BY DEF on_write_complete, AfterDrain, ringVars
<1>2. /\ cq \in Seq(Completion) /\ Len(cq) \in Nat /\ sq \in Seq(Submission) /\ Len(sq) \in Nat
      /\ TagBase \in Nat /\ Word \in Nat \ {0} /\ seqNo \in Nat
  BY ConnFacts
<1>3. /\ cq' \in Seq(Completion) /\ c = cq[1] /\ 1 \in 1 .. Len(cq) /\ Len(cq') = Len(cq) - 1
      /\ \A i \in 1 .. Len(cq') : i + 1 \in 1 .. Len(cq) /\ cq'[i] = cq[i + 1]
  <2>1. /\ Tail(cq) \in Seq(Completion) /\ Head(cq) = cq[1]
        /\ Len(cq) \in Nat /\ 1 \in DOMAIN cq /\ DOMAIN cq = 1 .. Len(cq)
        /\ DOMAIN Tail(cq) = 1 .. Len(cq) - 1
        /\ \A i \in DOMAIN Tail(cq) : i + 1 \in DOMAIN cq /\ Tail(cq)[i] = cq[i + 1]
    BY <1>1, <1>2, TailAt
  <2>2. Len(Tail(cq)) = Len(cq) - 1
    BY <1>1, <1>2, HeadTailProperties
  <2> QED
    BY <1>1, <2>1, <2>2
<1>4. c.tag \in Nat /\ c.res \in Int /\ c.tag = TagBase + s
  <2>1. c.tag \in Nat /\ c.res \in Int
    BY <1>3, ConnFacts
  <2> QED
    BY <1>2, <2>1
<1>5. s \in DOMAIN flight => /\ s \in Nat /\ s < seqNo /\ flight[s] \in InFlight /\ f \in FrameNo /\ off \in Nat
  <2> SUFFICES ASSUME s \in DOMAIN flight
               PROVE  s \in Nat /\ s < seqNo /\ flight[s] \in InFlight /\ f \in FrameNo /\ off \in Nat
    OBVIOUS
  <2>1. s \in Nat /\ s < seqNo /\ flight[s] \in InFlight /\ f \in FrameNo /\ flight[s].off \in Nat
    BY ConnFacts
  <2>2. flight[s].off + c.res \in Int
    BY <1>4, <2>1
  <2>3. off \in Nat
    BY <1>2, <2>2, ModNat
  <2> QED
    BY <2>1, <2>3
<1>6. /\ flight \in [DOMAIN flight -> InFlight] /\ DOMAIN flight \subseteq Nat
      /\ pc \in [Threads -> ThreadState]
  BY DEF ConnInv, ConnTypeOK
<1>7. /\ rest \in [DOMAIN rest -> InFlight] /\ DOMAIN rest \subseteq Nat /\ DOMAIN rest = DOMAIN flight \ {s}
      /\ \A r \in DOMAIN rest : rest[r] = flight[r]
  BY <1>6
<1> HIDE DEF rest, off, f, s, c
<1>8. /\ flight' \in [DOMAIN flight' -> InFlight] /\ DOMAIN flight' \subseteq DOMAIN flight
      /\ \A r \in DOMAIN flight' : r # s => flight'[r] = flight[r]
      /\ \A r \in DOMAIN flight : r # s => r \in DOMAIN flight'
  <2>1. CASE UNCHANGED flight
    BY <1>6, <2>1
  <2>2. CASE flight' = rest
    BY <1>7, <2>2
  <2>3. CASE s \in DOMAIN flight /\ flight' = [flight EXCEPT ![s].off = off]
    <3>1. [flight[s] EXCEPT !.off = off] \in InFlight
      BY <1>5, <2>3 DEF InFlight
    <3> QED
      BY <1>6, <2>3, <3>1
  <2> QED
    BY <1>1, <2>1, <2>2, <2>3
<1>10. /\ pc' \in [Threads -> ThreadState] /\ pc'["poll"] \in {"idle", "start", "again"} /\ "poll" \in Threads
       /\ \A t \in Threads : t # "poll" => pc'[t] = pc[t]
       /\ pc'["poll"] = "again" =>
             s \in DOMAIN flight /\ off < FrameLen[f] /\ fd /\ again' = [s |-> s, f |-> f, off |-> off]
  <2>1. "poll" \in Threads
    BY DEF Threads
  <2>2. CASE UNCHANGED pc
    BY <1>1, <1>6, <2>1, <2>2
  <2>3. CASE pc' = [pc EXCEPT !["poll"] = "start"]
    BY <1>6, <2>1, <2>3 DEF ThreadState
  <2>4. CASE /\ pc' = [pc EXCEPT !["poll"] = "again"] /\ again' = [s |-> s, f |-> f, off |-> off]
             /\ s \in DOMAIN flight /\ off < FrameLen[f] /\ fd
    BY <1>6, <2>1, <2>4 DEF ThreadState
  <2> QED
    BY <1>1, <2>2, <2>3, <2>4
<1>11. ConnTypeOK'
  <2>1. DOMAIN flight' \subseteq Nat
    BY <1>6, <1>8
  <2> QED
    BY <1>1, <1>3, <1>8, <1>10, <2>1 DEF ConnInv, ConnTypeOK, peerVars, lifeBounds
<1>12. Numbered'
  <2>1. seqNo + Len(queue) <= pushed /\ \A r \in DOMAIN flight : r < seqNo
    BY DEF ConnInv, Numbered
  <2>2. \A r \in DOMAIN flight' : r < seqNo
    BY <1>8, <2>1
  <2>3. \A i \in 1 .. Len(sq) : sq[i].s < seqNo
    BY ConnFacts
  <2>4. ASSUME NEW i \in 1 .. Len(cq') PROVE cq'[i].tag < TagBase + seqNo
    BY <1>3, ConnFacts
  <2> QED
    BY <1>1, <2>1, <2>2, <2>3, <2>4 DEF Numbered
<1>13. ClosingShuts'
  BY <1>1 DEF ConnInv, ClosingShuts
<1>n. struck = {} => NoStall
  BY DEF ConnInv, StallFree
<1>14. ASSUME struck = {} PROVE QueueStarted'
  <2> SUFFICES ASSUME queue # << >>, ~shutting, fd
               PROVE  DOMAIN flight' # {} \/ \E t \in Threads : pc'[t] = "start"
    BY <1>1 DEF QueueStarted
  <2>1. DOMAIN flight # {} \/ \E t \in Threads : pc[t] = "start"
    BY <1>1, <1>n, <1>14 DEF NoStall, QueueStarted, Filling
  <2>2. ~closePending
    BY DEF ConnInv, ClosingShuts
  <2>3. CASE \E t \in Threads : pc[t] = "start"
    BY <1>1, <1>10, <2>3
  <2>4. CASE DOMAIN flight # {}
    <3>1. CASE DOMAIN flight' = DOMAIN flight
      BY <2>4, <3>1
    <3>2. CASE flight' = rest /\ pc' = IF DOMAIN rest = {} /\ ~closePending THEN [pc EXCEPT !["poll"] = "start"] ELSE pc
      <4>1. CASE DOMAIN rest = {}
        <5>1. pc' = [pc EXCEPT !["poll"] = "start"] /\ "poll" \in Threads
          BY <2>2, <3>2, <4>1 DEF Threads
        <5>2. pc'["poll"] = "start"
          BY <1>6, <5>1
        <5> QED
          BY <5>1, <5>2
      <4>2. CASE DOMAIN rest # {}
        BY <3>2, <4>2
      <4> QED
        BY <4>1, <4>2
    <3>3. \/ DOMAIN flight' = DOMAIN flight
          \/ flight' = rest /\ pc' = IF DOMAIN rest = {} /\ ~closePending THEN [pc EXCEPT !["poll"] = "start"] ELSE pc
      <4>1. flight' = [flight EXCEPT ![s].off = off] => DOMAIN flight' = DOMAIN flight
        OBVIOUS
      <4> QED
        BY <1>1, <4>1
    <3> QED
      BY <3>1, <3>2, <3>3
  <2> QED
    BY <2>1, <2>3, <2>4
<1>15. ASSUME struck = {} PROVE FlightBacked'
  <2> SUFFICES ASSUME ~shutting, fd, NEW r \in DOMAIN flight'
               PROVE  \/ \E i \in 1 .. Len(sq) : sq[i].s = r
                      \/ \E i \in 1 .. Len(cq') : cq'[i].tag = TagBase + r
                      \/ pc'["poll"] = "again" /\ again'.s = r
    BY <1>1 DEF FlightBacked
  <2>1. r \in DOMAIN flight /\ r \in Nat
    BY <1>6, <1>8
  <2>2. \/ \E i \in 1 .. Len(sq) : sq[i].s = r
        \/ \E i \in 1 .. Len(cq) : cq[i].tag = TagBase + r
    BY <1>1, <1>n, <1>15, <2>1 DEF NoStall, FlightBacked
  <2>4. CASE r = s
    <3>1. s \in DOMAIN flight /\ s \in DOMAIN flight'
      BY <2>1, <2>4
    <3>2. again' = [s |-> s, f |-> f, off |-> off] /\ pc' = [pc EXCEPT !["poll"] = "again"]
      BY <1>1, <1>7, <3>1
    <3> QED
      BY <1>6, <1>10, <2>4, <3>2
  <2>5. CASE r # s
    <3>1. ASSUME NEW i \in 1 .. Len(cq), cq[i].tag = TagBase + r PROVE \E j \in 1 .. Len(cq') : cq'[j].tag = TagBase + r
      <4>1. i # 1
        <5> SUFFICES ASSUME i = 1 PROVE FALSE
          OBVIOUS
        <5>1. TagBase + r = c.tag
          BY <1>3, <3>1
        <5>2. r = c.tag - TagBase
          BY <1>2, <1>4, <2>1, <5>1
        <5> QED
          BY <2>5, <5>2 DEF s
      <4>2. i - 1 \in 1 .. Len(cq') /\ (i - 1) + 1 = i
        BY <1>2, <1>3, <4>1
      <4>3. cq'[i - 1] = cq[i]
        BY <1>3, <4>2
      <4> QED
        BY <3>1, <4>2, <4>3
    <3> QED
      BY <2>2, <3>1
  <2> QED
    BY <2>4, <2>5
<1>19. StallFree'
  <2>1. struck = {} => RingSubmitted'
    BY <1>1, <1>n DEF NoStall, RingSubmitted
  <2> QED
    BY <1>1, <1>14, <1>15, <2>1 DEF StallFree, NoStall
<1>16. (StreamInOrder' <=> StreamInOrder) /\ ToWrite' = ToWrite
  BY <1>1, StreamSame DEF peerVars
<1>17. ASSUME damage = 0, fd PROVE FlightMatches' /\ (s \in DOMAIN flight => ~(off < FrameLen[f]))
  <2>1. RingInOrder /\ FlightMatches
    BY <1>17 DEF ConnInv, WritesInOrder
  <2>2. s \in DOMAIN flight => ~(off < FrameLen[f])
    <3> SUFFICES ASSUME s \in DOMAIN flight PROVE off = FrameLen[f] /\ FrameLen[f] \in Nat
      BY <1>5
    <3>1. flight[s].off = 0 /\ c.res = FrameLen[f]
      BY <1>3, <1>4, <2>1 DEF FlightMatches, f
    <3>2. FrameLen[f] \in 0 .. Word - 1 /\ FrameLen[f] \in Nat
      BY <1>2, <1>5, LengthFacts
    <3>3. off = (0 + c.res) % Word
      BY <3>1 DEF off
    <3>4. off = FrameLen[f] % Word
      BY <3>1, <3>2, <3>3
    <3> QED
      BY <1>2, <3>2, <3>4, ModSmall
  <2>3. \A r \in DOMAIN flight' : r \in DOMAIN flight /\ flight'[r] = flight[r]
    <3>1. CASE UNCHANGED flight
      BY <3>1
    <3>2. CASE flight' = rest
      BY <1>7, <3>2
    <3> QED
      BY <1>1, <2>2, <3>1, <3>2
  <2>4. ASSUME NEW r \in DOMAIN flight'
        PROVE  /\ flight'[r].off = 0
               /\ \A i \in 1 .. Len(sq') : sq'[i].s = r => sq'[i].f = flight'[r].f
               /\ \A i \in 1 .. Len(cq') : cq'[i].tag = TagBase + r => cq'[i].res = FrameLen[flight'[r].f]
    <3>1. r \in DOMAIN flight /\ flight'[r] = flight[r] /\ sq' = sq
      BY <1>1, <2>3
    <3>2. /\ flight[r].off = 0
          /\ \A i \in 1 .. Len(sq) : sq[i].s = r => sq[i].f = flight[r].f
          /\ \A i \in 1 .. Len(cq) : cq[i].tag = TagBase + r => cq[i].res = FrameLen[flight[r].f]
      BY <2>1, <3>1 DEF FlightMatches
    <3>3. ASSUME NEW i \in 1 .. Len(cq'), cq'[i].tag = TagBase + r PROVE cq'[i].res = FrameLen[flight[r].f]
      <4>1. i + 1 \in 1 .. Len(cq) /\ cq'[i] = cq[i + 1]
        BY <1>3
      <4> QED
        BY <3>2, <3>3, <4>1
    <3> QED
      BY <3>1, <3>2, <3>3
  <2> QED
    BY <2>2, <2>4 DEF FlightMatches
<1>18. WritesInOrder'
  <2>1. UNCHANGED <<queue, sq, pushed, damage, fd, shutting>>
    BY <1>1
  <2> QED
    BY <1>16, <1>17, <2>1 DEF ConnInv, WritesInOrder, RingInOrder, QueueInOrder
<1>20. LoopOK'
  <2>1. \A t \in Threads : pc'[t] \notin Fill
    BY <1>1, <1>10 DEF Filling, Fill
  <2>2. ASSUME pc'["poll"] = "again" PROVE again' \in Submission /\ again'.s < seqNo /\ damage # 0
    <3>1. s \in DOMAIN flight /\ off < FrameLen[f] /\ fd /\ again' = [s |-> s, f |-> f, off |-> off]
      BY <1>10, <2>2
    <3>2. damage # 0
      BY <1>17, <3>1
    <3> QED
      BY <1>5, <3>1, <3>2 DEF Submission
  <2> QED
    BY <1>1, <2>1, <2>2 DEF LoopOK, Fill
<1> QED
  BY <1>11, <1>12, <1>13, <1>18, <1>19, <1>20 DEF ConnInv

LEMMA ConnStep == ASSUME ConnInv, TagsSuffice, [ConnNext]_connVars PROVE ConnInv'
<1>1. CASE UNCHANGED connVars
  <2>1. UNCHANGED <<queue, flight, seqNo, sq, sub, room, again, struck, cq, wire, rbuf, recv, pushed, fd, shutting,
                    closePending, pc, owner, garbled, damage, writeFaults>>
    BY <1>1 DEF connVars
  <2>2. ClosingShuts'
    BY <2>1 DEF ConnInv, ClosingShuts
  <2>3. LoopOK'
    BY <2>1, LoopSame
  <2> QED
    BY <2>1, <2>2, <2>3, ConnRest DEF ConnInv, ConnTypeOK, writeVars, ringVars, peerVars
<1>2. CASE ConnNext
  BY <1>2, PushStep, StartStep, GetStep, PrepStep, SubmitStep, ResubmitStep, KernelStep, CompleteStep, CloseSteps, ConnectStep, ReadsStep, ParseStep
     DEF ConnNext
<1> QED
  BY <1>1, <1>2

\* For any threads, frames and reads, and batches and a ring of any size: the peer
\* is given the frames that were pushed, whole and in order, unless a write came
\* short or the connection was freed under a thread that sends; and unless that
\* happened, the ring was full, or the rest of a short write was submitted together
\* with a slot another thread had not prepared, what is queued is being written or
\* about to be (send_raw, start_next_writes, on_write_complete, parse_incoming_).
\* It is assumed that there are tags for all the frames of a connection.
THEOREM FramesFlowHolds == ASSUME TagsSuffice PROVE ConnSpec => []FramesFlow
<1>1. ConnInv /\ [ConnNext]_connVars => ConnInv'
  BY ConnStep
<1>2. ConnInv => FramesFlow
  BY DEF ConnInv, StallFree, WritesInOrder, StreamInOrder, FramesFlow, FramesInOrder
<1> QED
  BY <1>1, <1>2, ConnInitInv, PTL DEF ConnSpec
=============================================================================
