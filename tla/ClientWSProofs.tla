--------------------------- MODULE ClientWSProofs ---------------------------
(***************************************************************************)
(* Proofs about ClientWS, for every set of machines and of connections.    *)
(*                                                                         *)
(* IInv is inductive.  It says who owns what: an entry of the hub carries  *)
(* the generation of some connection's token (EntryHasOwner), a grace      *)
(* callback that is on its way belongs to a connection that has already    *)
(* called Disconnect (CallbackHasOwner), and no generation is issued twice *)
(* (TokensIssuedOnce).  From this, the comparison of generations in        *)
(* Disconnect and in the callback is enough to keep CurrentOrSuperseded.   *)
(***************************************************************************)
EXTENDS ClientWS, TLAPS

\* The initial states satisfy the invariant: the hub is empty and no
\* connection holds a token.
LEMMA InitIInv == Init => IInv
  BY NoClientAssumption DEF Init, HubInit, IInv, TypeOK, HubTypeOK, Entry, TimerState, Absent, PCs,
     TokensIssuedOnce, EntryHasOwner, CallbackHasOwner, SupersededPast,
     NoDoubleClose, CurrentOrSuperseded, ReasonTracked, Registered, Released, Online

\* A step that leaves the hub, the tokens and the registration of every
\* connection alone keeps the invariant, whatever its goroutines do.
LEMMA QuietStep ==
  ASSUME IInv, TypeOK', UNCHANGED hubVars, UNCHANGED <<client, gen>>,
         \A n \in Conns :
            /\ Registered(n) <=> Registered(n)'
            /\ Released(n) <=> Released(n)'
            /\ pc'[n] \in {"new", "identity", "upsert", "connect"}
                  => pc[n] \in {"new", "identity", "upsert", "connect"}
            /\ pc'[n] = "connect" => client[n] \in Clients
            /\ pc'[n] = "closing" => pc[n] = "closing",
         ReasonTracked'
  PROVE  IInv'
<1>1. TokensIssuedOnce'
  BY DEF IInv, TokensIssuedOnce, hubVars, Registered, PCs, TypeOK
<1>2. EntryHasOwner'
  BY DEF IInv, EntryHasOwner, hubVars, Online
<1>3. CallbackHasOwner' /\ SupersededPast' /\ NoDoubleClose'
  BY DEF IInv, CallbackHasOwner, SupersededPast, NoDoubleClose, hubVars, Released
<1>4. CurrentOrSuperseded'
  BY DEF IInv, CurrentOrSuperseded, hubVars
<1> QED
  BY <1>1, <1>2, <1>3, <1>4 DEF IInv

\* Every step keeps the types of the hub and of the connections.
LEMMA TypeStep ==
  ASSUME IInv, [Next]_vars
  PROVE  TypeOK'
<1> USE DEF IInv, TypeOK, HubTypeOK, Entry, TimerState, PCs, GoTo, hubVars, WithTimer
<1>1. ASSUME NEW n \in Conns, Accept(n) PROVE TypeOK'
  BY <1>1 DEF Accept
<1>2. ASSUME NEW n \in Conns, ReadIdentity(n) PROVE TypeOK'
  BY <1>2 DEF ReadIdentity
<1>3. ASSUME NEW n \in Conns, NEW c \in Clients, UpsertClient(n, c) PROVE TypeOK'
  BY <1>3 DEF UpsertClient
<1>4. ASSUME NEW n \in Conns, HandshakeFails(n) PROVE TypeOK'
  BY <1>4 DEF HandshakeFails
<1>5. ASSUME NEW n \in Conns, HubConnect(n) PROVE TypeOK'
  <2>1. client[n] \in Clients /\ entries[client[n]].gen \in Nat
    BY <1>5 DEF HubConnect, TokensIssuedOnce
  <2>2. HubTypeOK'
    <3>1. superseded' \subseteq Nat
      BY <1>5, <2>1, Zenon DEF HubConnect, Connect
    <3>2. /\ entries' = [entries EXCEPT ![client[n]] = [gen |-> nextGen + 1, timer |-> "none"]]
          /\ nextGen' = nextGen + 1
          /\ firing' = firing
      BY <1>5 DEF HubConnect, Connect
    <3> QED
      BY <3>1, <3>2, <2>1
  <2> QED
    BY <1>5, <2>1, <2>2 DEF HubConnect, Connect
<1>6. ASSUME NEW n \in Conns, WatcherSuperseded(n) \/ WatcherCtxDone(n) PROVE TypeOK'
  BY <1>6 DEF WatcherSuperseded, WatcherCtxDone
<1>7. ASSUME NEW n \in Conns, PingFails(n) \/ PingCtxDone(n) \/ PeerGone(n) PROVE TypeOK'
  BY <1>7 DEF PingFails, PingCtxDone, PeerGone
<1>8. ASSUME NEW n \in Conns, ReadLoopReturns(n) \/ WaitGroupDone(n) PROVE TypeOK'
  BY <1>8 DEF ReadLoopReturns, WaitGroupDone
<1>9. ASSUME NEW n \in Conns, HubDisconnect(n) PROVE TypeOK'
  <2>1. client[n] \in Clients
    BY <1>9 DEF HubDisconnect, TokensIssuedOnce
  <2> QED
    BY <1>9, <2>1 DEF HubDisconnect, Disconnect
<1>10. ASSUME NEW n \in Conns, Close(n) PROVE TypeOK'
  BY <1>10 DEF Close
<1>11. ASSUME NEW c \in Clients, TimerExpires(c) PROVE TypeOK'
  BY <1>11 DEF TimerExpires, GraceExpire, connVars
<1>12. ASSUME NEW c \in Clients, TimerCallback(c) PROVE TypeOK'
  BY <1>12 DEF TimerCallback, GraceCallback, Absent, connVars
<1>13. CASE UNCHANGED vars
  BY <1>13 DEF vars, connVars
<1> QED
  BY <1>1, <1>2, <1>3, <1>4, <1>5, <1>6, <1>7, <1>8, <1>9, <1>10, <1>11, <1>12, <1>13
     DEF Next, ConnStep

\* Channels stay closed, tokens keep their generation, and only the watcher,
\* which saw the channel closed, sets the flag that Close reads.
LEMMA ReasonStep ==
  ASSUME IInv, [Next]_vars
  PROVE  ReasonTracked'
<1> USE DEF IInv, TypeOK, ReasonTracked, GoTo, hubVars
<1>1. ASSUME NEW n \in Conns, HubConnect(n) PROVE ReasonTracked'
  <2>1. gen[n] \notin superseded
    BY <1>1 DEF HubConnect, TokensIssuedOnce, SupersededPast
  <2>2. superseded \subseteq superseded'
    BY <1>1, Zenon DEF HubConnect, Connect
  <2> QED
    BY <1>1, <2>1, <2>2 DEF HubConnect
<1>2. ASSUME NEW n \in Conns, HubDisconnect(n) PROVE ReasonTracked'
  BY <1>2 DEF HubDisconnect, Disconnect
<1>3. ASSUME NEW n \in Conns, Accept(n) \/ ReadIdentity(n) \/ HandshakeFails(n) PROVE ReasonTracked'
  BY <1>3 DEF Accept, ReadIdentity, HandshakeFails
<1>4. ASSUME NEW n \in Conns, NEW c \in Clients, UpsertClient(n, c) PROVE ReasonTracked'
  BY <1>4 DEF UpsertClient
<1>5. ASSUME NEW n \in Conns, WatcherSuperseded(n) \/ WatcherCtxDone(n) PROVE ReasonTracked'
  BY <1>5 DEF WatcherSuperseded, WatcherCtxDone
<1>6. ASSUME NEW n \in Conns, PingFails(n) \/ PingCtxDone(n) \/ PeerGone(n) PROVE ReasonTracked'
  BY <1>6 DEF PingFails, PingCtxDone, PeerGone
<1>7. ASSUME NEW n \in Conns, ReadLoopReturns(n) \/ WaitGroupDone(n) PROVE ReasonTracked'
  BY <1>7 DEF ReadLoopReturns, WaitGroupDone
<1>8. ASSUME NEW n \in Conns, Close(n) PROVE ReasonTracked'
  BY <1>8 DEF Close
<1>9. ASSUME NEW c \in Clients, TimerExpires(c) \/ TimerCallback(c) PROVE ReasonTracked'
  BY <1>9 DEF TimerExpires, TimerCallback, GraceExpire, GraceCallback, connVars
<1>10. CASE UNCHANGED vars
  BY <1>10 DEF vars, connVars
<1> QED
  BY <1>1, <1>2, <1>3, <1>4, <1>5, <1>6, <1>7, <1>8, <1>9, <1>10 DEF Next, ConnStep

\* presence.Connect by connection n: the old entry's generation joins the
\* superseded ones and n's fresh generation takes the entry.
LEMMA ConnectStep ==
  ASSUME IInv, TypeOK', ReasonTracked', NEW n \in Conns, HubConnect(n)
  PROVE  IInv'
<1> DEFINE c == client[n]
<1> USE DEF IInv, TypeOK, HubTypeOK, Entry, PCs
<1>0. \A d \in Clients : entries[d].gen \in Nat /\ entries[d].gen <= nextGen
  BY DEF EntryHasOwner
<1>1. c \in Clients /\ gen[n] = 0 /\ pc[n] = "connect"
  BY DEF HubConnect, GoTo, TokensIssuedOnce
<1>2. /\ nextGen' = nextGen + 1
      /\ entries' = [entries EXCEPT ![c] = [gen |-> nextGen + 1, timer |-> "none"]]
      /\ superseded' = superseded \cup (IF Online(c) THEN {entries[c].gen} ELSE {})
      /\ firing' = firing
      /\ client' = client
      /\ gen' = [gen EXCEPT ![n] = nextGen + 1]
      /\ pc' = [pc EXCEPT ![n] = "reading"]
  BY DEF HubConnect, Connect, GoTo
<1>3. TokensIssuedOnce'
  BY <1>1, <1>2 DEF TokensIssuedOnce, Registered
<1>4. EntryHasOwner'
  <2> SUFFICES ASSUME NEW d \in Clients PROVE EntryHasOwner!(d)'
    BY DEF EntryHasOwner
  <2>1. CASE d = c
    <3>1. /\ entries'[d] = [gen |-> nextGen + 1, timer |-> "none"]
          /\ gen'[n] = nextGen + 1 /\ client'[n] = d /\ Registered(n)'
      BY <1>1, <1>2, <2>1 DEF Registered
    <3> QED
      BY <1>2, <3>1 DEF Online
  <2>2. CASE d # c
    <3>1. entries'[d] = entries[d]
      BY <1>2, <2>2
    <3>2. \A m \in Conns : m # n =>
            /\ gen'[m] = gen[m] /\ client'[m] = client[m]
            /\ Registered(m)' = Registered(m) /\ Released(m)' = Released(m)
      BY <1>2 DEF Registered, Released
    <3>3. entries'[d].gen <= nextGen'
      BY <1>2, <3>1, <1>0
    <3>4. CASE Online(d)
      <4>1. PICK o \in Conns : /\ gen[o] = entries[d].gen /\ client[o] = d
                               /\ IF entries[d].timer = "none" THEN Registered(o) ELSE Released(o)
        BY <3>4 DEF EntryHasOwner
      <4>2. o # n
        BY <4>1, <3>4, <1>1 DEF Online
      <4> QED
        BY <3>1, <3>2, <3>3, <3>4, <4>1, <4>2, <1>2 DEF EntryHasOwner, Online
    <3>5. CASE ~Online(d)
      BY <3>1, <3>3, <3>5, <1>2 DEF EntryHasOwner, Online
    <3> QED
      BY <3>4, <3>5
  <2> QED
    BY <2>1, <2>2
<1>5. CallbackHasOwner'
  BY <1>1, <1>2 DEF CallbackHasOwner, Released
<1>6. SupersededPast'
  BY <1>0, <1>1, <1>2 DEF SupersededPast, Online
<1>7. NoDoubleClose'
  <2> SUFFICES ASSUME NEW d \in Clients PROVE entries'[d].gen \notin superseded'
    BY DEF NoDoubleClose
  <2>1. CASE d = c
    BY <1>0, <1>1, <1>2, <2>1 DEF SupersededPast
  <2>2. CASE d # c
    \* Two machines never share a generation: each has one owner.
    <3>1. ASSUME Online(c), Online(d) PROVE entries[d].gen # entries[c].gen
      <4>1. PICK o \in Conns : gen[o] = entries[d].gen /\ client[o] = d
        BY <3>1 DEF EntryHasOwner
      <4>2. PICK q \in Conns : gen[q] = entries[c].gen /\ client[q] = c
        BY <1>1, <3>1 DEF EntryHasOwner
      <4> QED
        BY <2>2, <3>1, <4>1, <4>2 DEF TokensIssuedOnce, Online
    <3> QED
      BY <1>1, <1>2, <2>2, <3>1 DEF NoDoubleClose, Online
  <2> QED
    BY <2>1, <2>2
<1>8. CurrentOrSuperseded'
  <2> SUFFICES ASSUME NEW m \in Conns, Registered(m)'
               PROVE  CurrentOrSuperseded!(m)'
    BY DEF CurrentOrSuperseded
  <2>1. CASE m = n
    BY <1>1, <1>2, <2>1
  <2>2. CASE m # n
    BY <1>1, <1>2, <2>2 DEF CurrentOrSuperseded, Registered, Online, TokensIssuedOnce
  <2> QED
    BY <2>1, <2>2
<1> QED
  BY <1>3, <1>4, <1>5, <1>6, <1>7, <1>8

\* presence.Disconnect by connection n: only an entry that is still n's own
\* gets a timer, and n has then released it.
LEMMA DisconnectStep ==
  ASSUME IInv, TypeOK', ReasonTracked', NEW n \in Conns, HubDisconnect(n)
  PROVE  IInv'
<1> DEFINE c == client[n]
<1> USE DEF IInv, TypeOK, HubTypeOK, Entry, PCs
<1>1. c \in Clients /\ gen[n] # 0 /\ pc[n] = "disconnect"
  BY DEF HubDisconnect, GoTo, TokensIssuedOnce, Registered
<1>2. /\ entries' = IF entries[c].gen = gen[n] THEN WithTimer(c, "armed") ELSE entries
      /\ nextGen' = nextGen /\ superseded' = superseded /\ firing' = firing
      /\ client' = client /\ gen' = gen
      /\ pc' = [pc EXCEPT ![n] = "closing"]
  BY DEF HubDisconnect, Disconnect, GoTo
<1>3. TokensIssuedOnce'
  BY <1>1, <1>2 DEF TokensIssuedOnce, Registered
<1>4. \A d \in Clients : entries'[d].gen = entries[d].gen
  BY <1>1, <1>2 DEF WithTimer
<1>5. EntryHasOwner'
  <2> SUFFICES ASSUME NEW d \in Clients PROVE EntryHasOwner!(d)'
    BY DEF EntryHasOwner
  <2>1. CASE d = c /\ entries[c].gen = gen[n]
    <3>1. entries'[d] = [gen |-> gen[n], timer |-> "armed"]
      BY <1>1, <1>2, <2>1 DEF WithTimer
    <3>2. gen'[n] = gen[n] /\ client'[n] = d /\ Released(n)' /\ gen[n] <= nextGen'
      BY <1>1, <1>2, <2>1 DEF Released, TokensIssuedOnce
    <3> QED
      BY <1>1, <3>1, <3>2 DEF Online
  <2>2. CASE ~(d = c /\ entries[c].gen = gen[n])
    <3>1. entries'[d] = entries[d]
      BY <1>1, <1>2, <2>2 DEF WithTimer
    <3>2. \A m \in Conns : m # n =>
            /\ gen'[m] = gen[m] /\ client'[m] = client[m]
            /\ Registered(m)' = Registered(m) /\ Released(m)' = Released(m)
      BY <1>2 DEF Registered, Released
    <3>3. CASE Online(d)
      <4>1. PICK o \in Conns : /\ gen[o] = entries[d].gen /\ client[o] = d
                               /\ IF entries[d].timer = "none" THEN Registered(o) ELSE Released(o)
        BY <3>3 DEF EntryHasOwner
      <4>2. o # n
        BY <2>2, <4>1
      <4> QED
        BY <1>2, <3>1, <3>2, <3>3, <4>1, <4>2 DEF EntryHasOwner, Online
    <3>4. CASE ~Online(d)
      BY <1>2, <3>1, <3>4 DEF EntryHasOwner, Online
    <3> QED
      BY <3>3, <3>4
  <2> QED
    BY <2>1, <2>2
<1>6. CallbackHasOwner'
  BY <1>1, <1>2 DEF CallbackHasOwner, Released
<1>7. SupersededPast' /\ NoDoubleClose'
  BY <1>1, <1>2, <1>4 DEF SupersededPast, NoDoubleClose
<1>8. CurrentOrSuperseded'
  <2> SUFFICES ASSUME NEW m \in Conns, Registered(m)'
               PROVE  CurrentOrSuperseded!(m)'
    BY DEF CurrentOrSuperseded
  <2>1. m # n /\ Registered(m)
    BY <1>1, <1>2 DEF Registered
  <2>2. gen[m] # gen[n]
    BY <1>1, <2>1 DEF TokensIssuedOnce
  <2>3. CASE entries[client[m]].gen = gen[m]
    <3>1. entries'[client[m]] = entries[client[m]]
      BY <1>1, <1>2, <2>2, <2>3, <2>1 DEF WithTimer, TokensIssuedOnce, Registered
    <3> QED
      BY <1>2, <2>1, <3>1 DEF CurrentOrSuperseded
  <2>4. CASE entries[client[m]].gen # gen[m]
    BY <1>2, <2>1, <2>4 DEF CurrentOrSuperseded
  <2> QED
    BY <2>3, <2>4
<1> QED
  BY <1>3, <1>5, <1>6, <1>7, <1>8

\* A grace timer expires: its connection has released the entry.
LEMMA ExpireStep ==
  ASSUME IInv, TypeOK', ReasonTracked', NEW c \in Clients, TimerExpires(c)
  PROVE  IInv'
<1> USE DEF IInv, TypeOK, HubTypeOK, Entry, TimerState
<1>1. /\ entries[c].timer = "armed"
      /\ entries' = [entries EXCEPT ![c] = [gen |-> entries[c].gen, timer |-> "expired"]]
      /\ firing' = firing \cup {<<c, entries[c].gen>>}
      /\ nextGen' = nextGen /\ superseded' = superseded
      /\ pc' = pc /\ client' = client /\ gen' = gen
  BY DEF TimerExpires, GraceExpire, WithTimer, connVars
<1>2. TokensIssuedOnce'
  BY <1>1 DEF TokensIssuedOnce, Registered
<1>3. EntryHasOwner'
  <2> SUFFICES ASSUME NEW d \in Clients PROVE EntryHasOwner!(d)'
    BY DEF EntryHasOwner
  <2>1. \A m \in Conns : Registered(m)' = Registered(m) /\ Released(m)' = Released(m)
    BY <1>1 DEF Registered, Released
  <2>2. CASE d = c
    BY <1>1, <2>1, <2>2 DEF EntryHasOwner, Online
  <2>3. CASE d # c
    <3>1. entries'[d] = entries[d]
      BY <1>1, <2>3
    <3> QED
      BY <1>1, <2>1, <3>1 DEF EntryHasOwner, Online
  <2> QED
    BY <2>2, <2>3
<1>4. CallbackHasOwner'
  BY <1>1 DEF CallbackHasOwner, EntryHasOwner, Online, Released
<1>5. SupersededPast' /\ NoDoubleClose'
  BY <1>1 DEF SupersededPast, NoDoubleClose
<1>6. CurrentOrSuperseded'
  \* The current entry of a registered connection has no timer, so it is not c's.
  BY <1>1 DEF CurrentOrSuperseded, Registered, TokensIssuedOnce
<1> QED
  BY <1>2, <1>3, <1>4, <1>5, <1>6

\* A grace callback runs: it removes an entry only if the entry's owner is the
\* callback's owner, which has disconnected.
LEMMA CallbackStep ==
  ASSUME IInv, TypeOK', ReasonTracked', NEW c \in Clients, TimerCallback(c)
  PROVE  IInv'
<1> USE DEF IInv, TypeOK, HubTypeOK, Entry
<1>1. PICK t \in firing : t[1] = c /\ GraceCallback(c, t[2])
  BY DEF TimerCallback
<1>2. PICK o \in Conns : gen[o] = t[2] /\ client[o] = c /\ Released(o)
  BY <1>1 DEF CallbackHasOwner
<1>3. /\ entries' = IF entries[c].gen = t[2] THEN [entries EXCEPT ![c] = Absent] ELSE entries
      /\ firing' = firing \ {<<c, t[2]>>}
      /\ nextGen' = nextGen /\ superseded' = superseded
      /\ pc' = pc /\ client' = client /\ gen' = gen
  BY <1>1 DEF GraceCallback, TimerCallback, connVars
<1>4. TokensIssuedOnce'
  BY <1>3 DEF TokensIssuedOnce, Registered
<1>5. EntryHasOwner'
  <2> SUFFICES ASSUME NEW d \in Clients PROVE EntryHasOwner!(d)'
    BY DEF EntryHasOwner
  <2>1. \A m \in Conns : Registered(m)' = Registered(m) /\ Released(m)' = Released(m)
    BY <1>3 DEF Registered, Released
  <2>2. CASE d = c /\ entries[c].gen = t[2]
    BY <1>3, <2>2 DEF Absent, Online
  <2>3. CASE ~(d = c /\ entries[c].gen = t[2])
    <3>1. entries'[d] = entries[d] /\ <<d, entries[d].gen>> # <<c, t[2]>>
      BY <1>3, <2>3
    <3> QED
      BY <1>3, <2>1, <3>1 DEF EntryHasOwner, Online
  <2> QED
    BY <2>2, <2>3
<1>6. CallbackHasOwner'
  BY <1>3 DEF CallbackHasOwner, Released
<1>7. SupersededPast' /\ NoDoubleClose'
  BY <1>3 DEF SupersededPast, NoDoubleClose, Absent
<1>8. CurrentOrSuperseded'
  <2> SUFFICES ASSUME NEW m \in Conns, Registered(m)'
               PROVE  CurrentOrSuperseded!(m)'
    BY DEF CurrentOrSuperseded
  <2>1. Registered(m) /\ m # o
    BY <1>2, <1>3 DEF Registered, Released
  <2>2. gen[m] # t[2]
    BY <1>2, <2>1 DEF TokensIssuedOnce, Released
  <2> QED
    BY <1>3, <2>1, <2>2 DEF CurrentOrSuperseded
<1> QED
  BY <1>4, <1>5, <1>6, <1>7, <1>8

\* IInv is inductive.
LEMMA NextIInv == IInv /\ [Next]_vars => IInv'
<1> SUFFICES ASSUME IInv, [Next]_vars PROVE IInv'
  OBVIOUS
<1>1. TypeOK' /\ ReasonTracked'
  BY TypeStep, ReasonStep
<1>2. ASSUME NEW n \in Conns, ConnStep(n), ~HubConnect(n), ~HubDisconnect(n) PROVE IInv'
  <2> USE DEF IInv, TypeOK, PCs, Registered, Released, GoTo
  <2>1. CASE Accept(n) \/ ReadIdentity(n)
    BY <1>1, <2>1, QuietStep DEF Accept, ReadIdentity, TokensIssuedOnce
  <2>2. ASSUME NEW c \in Clients, UpsertClient(n, c) PROVE IInv'
    <3>1. /\ gen[n] = 0
          /\ hubVars' = hubVars /\ gen' = gen
          /\ client' = [client EXCEPT ![n] = c]
          /\ pc' = [pc EXCEPT ![n] = "connect"]
          /\ pc[n] = "upsert"
      BY <2>2 DEF UpsertClient, TokensIssuedOnce
    <3>2. TokensIssuedOnce'
      BY <3>1 DEF TokensIssuedOnce, hubVars
    <3>3. EntryHasOwner'
      BY <3>1 DEF EntryHasOwner, hubVars, Online
    <3>4. CallbackHasOwner' /\ SupersededPast' /\ NoDoubleClose'
      BY <3>1 DEF CallbackHasOwner, SupersededPast, NoDoubleClose, hubVars
    <3>5. CurrentOrSuperseded'
      BY <3>1 DEF CurrentOrSuperseded, hubVars
    <3> QED
      BY <1>1, <3>2, <3>3, <3>4, <3>5
  <2>3. CASE HandshakeFails(n)
    BY <1>1, <2>3, QuietStep DEF HandshakeFails, TokensIssuedOnce
  <2>4. CASE WatcherSuperseded(n) \/ WatcherCtxDone(n) \/ PingFails(n) \/ PingCtxDone(n) \/ PeerGone(n)
    <3>1. /\ UNCHANGED <<hubVars, client, gen>> /\ pc' = pc
      BY <2>4 DEF WatcherSuperseded, WatcherCtxDone, PingFails, PingCtxDone, PeerGone
    <3> QED
      BY <1>1, <3>1, QuietStep DEF TokensIssuedOnce
  <2>5. CASE ReadLoopReturns(n) \/ WaitGroupDone(n)
    BY <1>1, <2>5, QuietStep DEF ReadLoopReturns, WaitGroupDone, TokensIssuedOnce
  <2>6. CASE Close(n)
    BY <1>1, <2>6, QuietStep DEF Close, TokensIssuedOnce
  <2> QED
    BY <1>2, <2>1, <2>2, <2>3, <2>4, <2>5, <2>6 DEF ConnStep
<1>3. CASE UNCHANGED vars
  BY <1>1, <1>3, QuietStep DEF vars, hubVars, connVars, Registered, Released, IInv, TokensIssuedOnce
<1> QED
  BY <1>1, <1>2, <1>3, ConnectStep, DisconnectStep, ExpireStep, CallbackStep DEF Next

\* The ownership invariant, type correctness included, holds in every
\* reachable state of the hub and its connections.
THEOREM Ownership == SafetySpec => []IInv
  BY InitIInv, NextIInv, PTL DEF SafetySpec

\* Every connection between Connect and Disconnect is its client's current
\* one, with no removal pending, or was told to close (Hub.Connect,
\* Hub.Disconnect, the AfterFunc callback).
THEOREM NewestConnectionOnline == SafetySpec => []CurrentOrSuperseded
<1>1. IInv => CurrentOrSuperseded
  BY DEF IInv
<1> QED
  BY <1>1, Ownership, PTL

\* close(old.supersede) never closes a closed channel, so Connect never panics.
THEOREM ConnectNeverPanics == SafetySpec => []NoDoubleClose
<1>1. IInv => NoDoubleClose
  BY DEF IInv
<1> QED
  BY <1>1, Ownership, PTL

\* No entry is left behind: it belongs to a registered connection or a grace
\* timer is going to remove it (Disconnect's AfterFunc).
THEOREM EntriesAccountedFor == SafetySpec => []NoOrphanEntry
<1>1. IInv => NoOrphanEntry
  BY DEF IInv, TypeOK, HubTypeOK, Entry, TimerState, EntryHasOwner, NoOrphanEntry, Online
<1> QED
  BY <1>1, Ownership, PTL

\* A connection that is closed as superseded has a newer generation after it
\* (the flag ClientWS reads after wg.Wait).
THEOREM CloseReasonHonest == SafetySpec => []SupersededReasonTrue
<1>1. IInv => SupersededReasonTrue
  BY DEF IInv, ReasonTracked, SupersededPast, SupersededReasonTrue
<1> QED
  BY <1>1, Ownership, PTL

\* What a step does to one machine's presence: nothing, an arrival, a drop of
\* the newest connection, the end of the timer, or the removal of an entry
\* whose owner has released it.
LEMMA HubStep ==
  ASSUME IInv, [Next]_vars, NEW c \in Clients
  PROVE  \/ entries'[c] = entries[c]
         \/ entries'[c].gen # 0 /\ entries'[c].timer = "none"
         \/ /\ entries'[c].gen = entries[c].gen /\ Online(c)
            /\ entries[c].timer = "none" /\ entries'[c].timer = "armed"
         \/ /\ entries'[c].gen = entries[c].gen
            /\ entries[c].timer = "armed" /\ entries'[c].timer = "expired"
         \/ /\ Online(c) /\ entries[c].timer # "none" /\ entries'[c] = Absent
            /\ \E o \in Conns : gen[o] = entries[c].gen /\ client[o] = c /\ Released(o)
<1> USE DEF IInv, TypeOK, HubTypeOK, Entry
<1>1. ASSUME NEW n \in Conns, HubConnect(n)
      PROVE  entries'[c] = entries[c] \/ (entries'[c].gen # 0 /\ entries'[c].timer = "none")
  <2>1. /\ entries' = [entries EXCEPT ![client[n]] = [gen |-> nextGen + 1, timer |-> "none"]]
        /\ client[n] \in Clients
    BY <1>1 DEF HubConnect, Connect, GoTo, TokensIssuedOnce
  <2>2. CASE c = client[n]
    BY <2>1, <2>2
  <2>3. CASE c # client[n]
    BY <2>1, <2>3
  <2> QED
    BY <2>2, <2>3
<1>2. ASSUME NEW n \in Conns, HubDisconnect(n), entries'[c] # entries[c]
      PROVE  /\ entries'[c].gen = entries[c].gen /\ Online(c)
             /\ entries[c].timer = "none" /\ entries'[c].timer = "armed"
  <2>1. /\ Registered(n) /\ gen[n] # 0 /\ client[n] \in Clients
        /\ entries' = IF entries[client[n]].gen = gen[n] THEN WithTimer(client[n], "armed") ELSE entries
    BY <1>2 DEF HubDisconnect, GoTo, Registered, TokensIssuedOnce, Disconnect
  <2>2. /\ c = client[n] /\ entries[c].gen = gen[n]
        /\ entries'[c] = [gen |-> gen[n], timer |-> "armed"]
    <3>1. entries[client[n]].gen = gen[n]
      BY <1>2, <2>1
    <3>2. entries' = [entries EXCEPT ![client[n]] = [gen |-> gen[n], timer |-> "armed"]]
      BY <2>1, <3>1 DEF WithTimer
    <3>3. c = client[n]
      BY <1>2, <3>2
    <3> QED
      BY <3>1, <3>2, <3>3
  <2>3. entries[c].timer = "none"
    BY <2>1, <2>2 DEF CurrentOrSuperseded, NoDoubleClose
  <2> QED
    BY <2>1, <2>2, <2>3 DEF Online
<1>3. ASSUME NEW d \in Clients, TimerExpires(d)
      PROVE  \/ entries'[c] = entries[c]
             \/ /\ entries'[c].gen = entries[c].gen
                /\ entries[c].timer = "armed" /\ entries'[c].timer = "expired"
  BY <1>3 DEF TimerExpires, GraceExpire, WithTimer
<1>4. ASSUME NEW d \in Clients, TimerCallback(d), entries'[c] # entries[c]
      PROVE  /\ Online(c) /\ entries[c].timer # "none" /\ entries'[c] = Absent
             /\ \E o \in Conns : gen[o] = entries[c].gen /\ client[o] = c /\ Released(o)
  <2>1. PICK t \in firing : t[1] = d /\ GraceCallback(d, t[2])
    BY <1>4 DEF TimerCallback
  <2>2. c = d /\ entries[c].gen = t[2] /\ entries'[c] = Absent
    BY <1>4, <2>1 DEF GraceCallback
  <2>3. PICK o \in Conns : gen[o] = entries[c].gen /\ client[o] = c /\ Released(o)
    BY <2>1, <2>2 DEF CallbackHasOwner
  <2>4. Online(c)
    BY <2>3 DEF Online, Released
  <2>5. entries[c].timer # "none"
    <3> SUFFICES ASSUME entries[c].timer = "none" PROVE FALSE
      OBVIOUS
    <3>1. PICK q \in Conns : gen[q] = entries[c].gen /\ Registered(q)
      BY <2>4 DEF EntryHasOwner
    <3> QED
      BY <2>3, <3>1 DEF TokensIssuedOnce, Registered, Released
  <2> QED
    BY <2>2, <2>3, <2>4, <2>5
<1>5. ASSUME NEW n \in Conns, ConnStep(n), ~HubConnect(n), ~HubDisconnect(n) PROVE entries' = entries
  BY <1>5 DEF ConnStep, Accept, ReadIdentity, UpsertClient, HandshakeFails, WatcherSuperseded,
     WatcherCtxDone, PingFails, PingCtxDone, PeerGone, ReadLoopReturns, WaitGroupDone, Close, hubVars
<1>6. CASE UNCHANGED vars
  BY <1>6 DEF vars, hubVars
<1> QED
  BY <1>1, <1>2, <1>3, <1>4, <1>5, <1>6 DEF Next

\* A client goes offline only when the grace callback of its newest, already
\* disconnected connection runs (the gen check of the AfterFunc callback).
THEOREM GraceProtectsReconnect == SafetySpec => OfflineOnlyAfterGrace
<1>1. ASSUME IInv, [Next]_vars, NEW c \in Clients, Online(c), ~Online(c)'
      PROVE  /\ \E n \in Conns : Released(n) /\ client[n] = c /\ gen[n] = entries[c].gen
             /\ ~\E n \in Conns : Registered(n) /\ client[n] = c /\ gen[n] \notin superseded
  <2>0. entries[c].gen # 0 /\ entries'[c].gen = 0
    BY <1>1 DEF Online
  <2>1. /\ entries[c].timer # "none"
        /\ \E o \in Conns : gen[o] = entries[c].gen /\ client[o] = c /\ Released(o)
    BY <1>1, <2>0, HubStep
  <2> QED
    BY <1>1, <2>1 DEF IInv, CurrentOrSuperseded
<1>2. IInv /\ [Next]_vars =>
        [\A c \in Clients : Online(c) /\ ~Online(c)' =>
          /\ \E n \in Conns : Released(n) /\ client[n] = c /\ gen[n] = entries[c].gen
          /\ ~\E n \in Conns : Registered(n) /\ client[n] = c /\ gen[n] \notin superseded]_vars
  BY <1>1
<1> QED
  BY <1>2, Ownership, PTL DEF SafetySpec, OfflineOnlyAfterGrace

\* A step touches the entry of one machine at most.
LEMMA HubFrame ==
  ASSUME IInv, [Next]_vars, NEW c \in Clients, entries'[c] # entries[c]
  PROVE  \A d \in Clients : d # c => entries'[d] = entries[d]
<1> SUFFICES \E e \in Clients : \E x : entries' = [entries EXCEPT ![e] = x]
  BY DEF IInv, TypeOK, HubTypeOK
<1> USE DEF IInv, TypeOK, HubTypeOK
<1>1. ASSUME NEW n \in Conns, HubConnect(n) PROVE \E e \in Clients : \E x : entries' = [entries EXCEPT ![e] = x]
  BY <1>1 DEF HubConnect, Connect, GoTo, TokensIssuedOnce
<1>2. ASSUME NEW n \in Conns, HubDisconnect(n) PROVE \E e \in Clients : \E x : entries' = [entries EXCEPT ![e] = x]
  <2>1. client[n] \in Clients /\ entries' = WithTimer(client[n], "armed")
    BY <1>2 DEF HubDisconnect, Disconnect, GoTo, TokensIssuedOnce
  <2> QED
    BY <2>1 DEF WithTimer
<1>3. ASSUME NEW d \in Clients, TimerExpires(d) PROVE \E e \in Clients : \E x : entries' = [entries EXCEPT ![e] = x]
  BY <1>3 DEF TimerExpires, GraceExpire, WithTimer
<1>4. ASSUME NEW d \in Clients, TimerCallback(d) PROVE \E e \in Clients : \E x : entries' = [entries EXCEPT ![e] = x]
  BY <1>4 DEF TimerCallback, GraceCallback
<1>5. ASSUME NEW n \in Conns, ConnStep(n), ~HubConnect(n), ~HubDisconnect(n) PROVE FALSE
  BY <1>5 DEF ConnStep, Accept, ReadIdentity, UpsertClient, HandshakeFails, WatcherSuperseded,
     WatcherCtxDone, PingFails, PingCtxDone, PeerGone, ReadLoopReturns, WaitGroupDone, Close, hubVars
<1>6. CASE UNCHANGED vars
  BY <1>6 DEF vars, hubVars
<1> QED
  BY <1>1, <1>2, <1>3, <1>4, <1>5, <1>6 DEF Next

\* The hub and its connections implement the safety part of Presence: every
\* step is an arrival, a drop, an expiry or nothing, seen through
\* presenceStatus.
THEOREM RefinesPresence == SafetySpec => Abstract!Init /\ [][Abstract!Next]_presenceStatus
<1>1. Init => Abstract!Init
  BY DEF Init, HubInit, Abstract!Init, presenceStatus, Online, Absent
<1>2. IInv /\ [Next]_vars => [Abstract!Next]_presenceStatus
  <2> SUFFICES ASSUME IInv, [Next]_vars, presenceStatus' # presenceStatus PROVE Abstract!Next
    OBVIOUS
  <2> DEFINE st(c) == IF ~Online(c) THEN "offline"
                      ELSE IF entries[c].timer = "none" THEN "connected" ELSE "grace"
  <2>1. PICK c \in Clients : st(c)' # st(c)
    BY DEF presenceStatus, Online
  <2>2. entries'[c] # entries[c]
    BY <2>1 DEF Online
  <2>3. \A d \in Clients : d # c => entries'[d] = entries[d]
    BY <2>2, HubFrame
  <2>4. presenceStatus' = [presenceStatus EXCEPT ![c] = st(c)']
    BY <2>3 DEF presenceStatus, Online
  <2>5. presenceStatus[c] = st(c)
    BY DEF presenceStatus
  <2>6. \/ st(c)' = "connected"
        \/ st(c) = "connected" /\ st(c)' = "grace"
        \/ st(c) = "grace" /\ st(c)' = "offline"
    <3>1. st(c) = "grace" \/ st(c) = "offline" \/ st(c) = "connected"
      OBVIOUS
    <3> QED
      BY <2>1, <2>2, <3>1, HubStep DEF Online, Absent
  <2> HIDE DEF st
  <2>7. Abstract!Arrive(c) \/ Abstract!Drop(c) \/ Abstract!Expire(c)
    BY <2>4, <2>5, <2>6 DEF Abstract!Arrive, Abstract!Drop, Abstract!Expire
  <2> QED
    BY <2>7 DEF Abstract!Next
<1> QED
  BY <1>1, <1>2, Ownership, PTL DEF SafetySpec
=============================================================================
