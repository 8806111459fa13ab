------------------------- MODULE RebroadcastProofs -------------------------
(***************************************************************************)
(* Proofs about Rebroadcast, for any sets of peers and blocks and any      *)
(* cache size: every peer gets every announcement once and in order, under *)
(* a status that shows that block.                                         *)
(***************************************************************************)
EXTENDS Rebroadcast, CacheProofs, SequenceTheorems

USE RebroadcastAssumption, NumberOfAssumption, DefaultAssumption

\* Commands, whatever the number they carry.
AnyCommand == [command : {"status"}, n : Nat] \cup {GetPeers, ShutdownCommand}
                \cup [command : {"block"}, peer : Peer, n : Nat]

Is(i, name) == commands[i].command = name

(***************************************************************************)
(* The backlog is the end of what was announced, and the types.            *)
(***************************************************************************)
BacklogInv ==
    /\ announced \in Seq(Block)
    /\ task \in [at : {"recv", "peers", "stopped"}, n : 0 .. Len(announced)]
    /\ task.at = "peers" => task.n > 0
    /\ rebroadcast_rx = SubSeq(announced, task.n + 1, Len(announced))
    /\ failed \subseteq 1 .. Len(announced)
    /\ main \in {"events", "shutdown", "exited"} /\ shutdown \in BOOLEAN

(***************************************************************************)
(* The channel. The task has one block in hand at a time: its messages go  *)
(* into the channel only after the manager has answered, so the messages   *)
(* there are all of one block, the one the status shows, and a status      *)
(* update and a request for the list come after them.                      *)
(***************************************************************************)
BlocksCarryStatus ==
    \A i \in DOMAIN commands : Is(i, "block") => commands[i].n = status /\ status > 0
BlocksBeforeStatus ==
    \A i, j \in DOMAIN commands : Is(i, "block") /\ Is(j, "status") => i < j
PeersLast ==
    \A i, j \in DOMAIN commands : Is(j, "peers") /\ ~Is(i, "shutdown") => i <= j
OnePerPeer ==
    \A i, j \in DOMAIN commands :
        Is(i, "block") /\ Is(j, "block") /\ commands[i].peer = commands[j].peer => i = j
StatusPending ==
    \A i \in DOMAIN commands : Is(i, "status") => task.at = "peers" /\ commands[i].n = task.n
StatusDone == (\A i \in DOMAIN commands : ~Is(i, "status")) => status = task.n
PeersPending == (\E i \in DOMAIN commands : Is(i, "peers")) <=> task.at = "peers" /\ reply = {}
ReplyAlone ==
    reply # {} => task.at = "peers" /\ \A i \in DOMAIN commands : Is(i, "shutdown")
BlocksOfBefore ==
    task.at = "peers" => \A i \in DOMAIN commands : Is(i, "block") => status < task.n

ChannelInv ==
    /\ commands \in Seq(AnyCommand)
    /\ status \in Nat /\ status <= task.n
    /\ connected \subseteq Peer /\ IsFiniteSet(connected)
    /\ reply = {} \/ reply = {Err} \/ \E s \in SUBSET Peer : IsFiniteSet(s) /\ reply = {Ok(s)}
    /\ BlocksCarryStatus /\ BlocksBeforeStatus /\ PeersLast /\ OnePerPeer
    /\ StatusPending /\ StatusDone /\ PeersPending /\ ReplyAlone /\ BlocksOfBefore

(***************************************************************************)
(* The sessions. What a session was sent is behind what is on its way:     *)
(* the message in the channel is of the block the status shows, the block  *)
(* a list is awaited for is newer. Of the blocks the task has taken since  *)
(* the session started none is missing.                                    *)
(***************************************************************************)
HasMessage(p) == \E i \in DOMAIN commands : Is(i, "block") /\ commands[i].peer = p
AwaitsList(p) == task.at = "peers" /\ \A r \in reply : p \in r.peers
WasSent(p, n) == \E k \in DOMAIN delivered[p] : delivered[p][k] = n
Lost == failed \cup (IF reply = {Err} THEN {task.n} ELSE {})

OrderInv(p) ==
    /\ delivered[p] \in Seq(Nat)
    /\ Increasing(delivered[p], DOMAIN delivered[p])
    /\ \A k \in DOMAIN delivered[p] :
         /\ delivered[p][k] > 0 /\ delivered[p][k] <= status
         /\ HasMessage(p) => delivered[p][k] < status
         /\ task.at = "peers" => delivered[p][k] < task.n

CompleteInv(p) ==
    /\ joined[p] \in 0 .. Len(announced)
    /\ p \in connected => \A n \in joined[p] + 1 .. task.n :
         \/ WasSent(p, n) \/ n \in Lost
         \/ HasMessage(p) /\ n = status
         \/ AwaitsList(p) /\ n = task.n

SessionInv ==
    /\ delivered \in [Peer -> Seq(Nat)] /\ joined \in [Peer -> Nat]
    /\ \A p \in Peer : OrderInv(p) /\ CompleteInv(p)

-----------------------------------------------------------------------------
(***************************************************************************)
(* The backlog.                                                            *)
(***************************************************************************)

\* The rest of a sequence from a position on, when that is not its end.
LEMMA RestOfSeq ==
    ASSUME NEW S, NEW s \in Seq(S), NEW m \in 0 .. Len(s)
    PROVE  /\ SubSeq(s, m + 1, Len(s)) \in Seq(S)
           /\ Len(SubSeq(s, m + 1, Len(s))) = Len(s) - m
           /\ \A i \in 1 .. Len(s) - m : SubSeq(s, m + 1, Len(s))[i] = s[m + i]
  <1>1. PICK n \in Nat : n = Len(s)
    BY LenProperties
  <1>2. PICK k \in Int : k = m + 1
    BY <1>1
  <1>3. \A i \in k .. n : s[i] \in S
    BY <1>1, <1>2, ElementOfSeq
  <1>4. n \in Int
    BY <1>1
  <1>5. /\ SubSeq(s, k, n) \in Seq(S)
        /\ Len(SubSeq(s, k, n)) = IF k <= n THEN n - k + 1 ELSE 0
        /\ \A i \in 1 .. n - k + 1 : SubSeq(s, k, n)[i] = s[k + i - 1]
    BY <1>2, <1>3, <1>4, SubSeqProperties
  <1>6. Len(SubSeq(s, k, n)) = n - m
    BY <1>1, <1>2, <1>5
  <1>7. \A i \in 1 .. n - m : k + i - 1 = m + i /\ i \in 1 .. n - k + 1
    BY <1>1, <1>2
  <1>8. \A i \in 1 .. n - m : SubSeq(s, k, n)[i] = s[m + i]
    <2> SUFFICES ASSUME NEW i \in 1 .. n - m PROVE SubSeq(s, k, n)[i] = s[m + i]
      OBVIOUS
    <2>1. k + i - 1 = m + i /\ i \in 1 .. n - k + 1
      BY <1>7
    <2>2. SubSeq(s, k, n)[i] = s[k + i - 1]
      BY <1>5, <2>1, Zenon
    <2>3. QED
      BY <2>1, <2>2, Zenon
  <1>9. QED
    BY <1>1, <1>2, <1>5, <1>6, <1>8, Zenon

\* An element at the end of a sequence is at the end of its rest.
LEMMA RestOfAppend ==
    ASSUME NEW S, NEW s \in Seq(S), NEW e \in S, NEW m \in 0 .. Len(s)
    PROVE  SubSeq(Append(s, e), m + 1, Len(Append(s, e))) = Append(SubSeq(s, m + 1, Len(s)), e)
  <1>1. PICK t \in Seq(S) : t = Append(s, e)
    BY AppendProperties
  <1>2. PICK r \in Seq(S) : r = SubSeq(s, m + 1, Len(s))
    BY RestOfSeq
  <1>3. PICK u \in Seq(S) : u = Append(r, e)
    BY AppendProperties
  <1>4. PICK N \in Nat : N = Len(s)
    BY LenProperties
  <1>5. Len(t) = N + 1 /\ t[N + 1] = e /\ \A i \in 1 .. N : t[i] = s[i]
    BY <1>1, <1>4, AppendProperties
  <1>6. Len(r) = N - m /\ \A i \in 1 .. N - m : r[i] = s[m + i]
    BY <1>2, <1>4, RestOfSeq, Zenon
  <1>7. Len(u) = N - m + 1 /\ u[N - m + 1] = e /\ \A i \in 1 .. N - m : u[i] = r[i]
    BY <1>3, <1>6, AppendProperties
  <1>8. m \in 0 .. Len(t)
    BY <1>4, <1>5
  <1>9. PICK v \in Seq(S) : v = SubSeq(t, m + 1, Len(t))
    BY <1>8, RestOfSeq
  <1>10. Len(v) = Len(t) - m /\ \A i \in 1 .. Len(t) - m : v[i] = t[m + i]
    BY <1>8, <1>9, RestOfSeq, Zenon
  <1>11. Len(v) = Len(u)
    BY <1>4, <1>5, <1>7, <1>10
  <1>12. ASSUME NEW i \in 1 .. Len(v) PROVE v[i] = u[i]
    <2>1. i \in 1 .. N + 1 - m /\ v[i] = t[m + i]
      BY <1>4, <1>5, <1>10
    <2>2. CASE i \in 1 .. N - m
      <3>1. m + i \in 1 .. N
        BY <1>4, <2>2
      <3>2. QED
        BY <1>5, <1>6, <1>7, <2>1, <2>2, <3>1
    <2>3. CASE i = N - m + 1
      <3>1. m + i = N + 1
        BY <1>4, <2>3
      <3>2. QED
        BY <1>5, <1>7, <2>1, <2>3, <3>1
    <2>4. i \in 1 .. N - m \/ i = N - m + 1
      <3>1. m \in Nat /\ N \in Nat /\ i \in 1 .. N + 1 - m
        BY <1>4, <2>1
      <3>2. QED
        BY <3>1
    <2>5. QED
      BY <2>2, <2>3, <2>4
  <1>13. v = u
    BY <1>11, <1>12, SeqEqual, Zenon
  <1>14. QED
    BY <1>1, <1>2, <1>3, <1>9, <1>13

\* An announcement extends the announced blocks and the backlog alike.
LEMMA ImportKeepsBacklog ==
    ASSUME BacklogInv, NEW block \in Block, ImportBlock(block)
    PROVE  BacklogInv'
  <1>1. /\ announced' = Append(announced, block)
        /\ rebroadcast_rx' = Append(rebroadcast_rx, block)
        /\ UNCHANGED <<task, failed, main, shutdown>>
    BY DEF ImportBlock, on_new_block
  <1>2. announced \in Seq(Block) /\ task.n \in 0 .. Len(announced)
    BY DEF BacklogInv
  <1>3. announced' \in Seq(Block) /\ Len(announced') = Len(announced) + 1
    BY <1>1, <1>2, AppendProperties
  <1>4. rebroadcast_rx' = SubSeq(announced', task.n + 1, Len(announced'))
    BY <1>1, <1>2, RestOfAppend, Zenon DEF BacklogInv
  <1>5. Len(announced) \in Nat
    BY <1>2, LenProperties
  <1>6. task' \in [at : {"recv", "peers", "stopped"}, n : 0 .. Len(announced')]
    BY <1>1, <1>3, <1>5 DEF BacklogInv
  <1>7. failed' \subseteq 1 .. Len(announced')
    BY <1>1, <1>3, <1>5 DEF BacklogInv
  <1>8. QED
    BY <1>1, <1>3, <1>4, <1>6, <1>7 DEF BacklogInv

\* recv takes the first of the backlog.
LEMMA RecvKeepsBacklog == BacklogInv /\ recv => BacklogInv'
  <1> SUFFICES ASSUME BacklogInv, recv PROVE BacklogInv'
    OBVIOUS
  <1>0. PICK N \in Nat, m \in Nat : N = Len(announced) /\ m = task.n /\ m \in 0 .. N
    BY LenProperties DEF BacklogInv
  <1>1. /\ rebroadcast_rx # <<>>
        /\ rebroadcast_rx' = SubSeq(rebroadcast_rx, 2, Len(rebroadcast_rx))
        /\ task' = [at |-> "peers", n |-> m + 1]
        /\ UNCHANGED <<announced, failed, main, shutdown>>
    BY <1>0 DEF recv, Taken
  <1>2. announced \in Seq(Block)
    BY DEF BacklogInv
  <1>3. /\ rebroadcast_rx \in Seq(Block) /\ Len(rebroadcast_rx) = N - m
        /\ rebroadcast_rx = SubSeq(announced, m + 1, N)
    <2>1. rebroadcast_rx = SubSeq(announced, m + 1, Len(announced)) /\ m \in 0 .. Len(announced)
      BY <1>0 DEF BacklogInv
    <2>2. QED
      BY <1>0, <1>2, <2>1, RestOfSeq, Zenon
  <1>4. m + 1 \in 1 .. N
    BY <1>1, <1>3, EmptySeq
  <1>5. rebroadcast_rx' = Tail(rebroadcast_rx)
    BY <1>1, <1>3, TailIsSubSeq
  <1>6. Tail(SubSeq(announced, m + 1, N)) = SubSeq(announced, m + 1 + 1, N)
    <2>1. m + 1 \in 1 .. Len(announced) /\ N \in m + 1 .. Len(announced)
      BY <1>0, <1>4
    <2>2. QED
      BY <1>2, <2>1, HeadTailOfSubSeq, Zenon
  <1>7. rebroadcast_rx' = SubSeq(announced', task'.n + 1, Len(announced'))
    BY <1>0, <1>1, <1>3, <1>5, <1>6
  <1>8. task' \in [at : {"recv", "peers", "stopped"}, n : 0 .. Len(announced')] /\ task'.n > 0
    BY <1>0, <1>1, <1>4
  <1>9. QED
    BY <1>0, <1>1, <1>2, <1>7, <1>8 DEF BacklogInv

\* Every step keeps the backlog.
LEMMA NextKeepsBacklog == BacklogInv /\ [Next]_vars => BacklogInv'
  <1> SUFFICES ASSUME BacklogInv, [Next]_vars PROVE BacklogInv'
    OBVIOUS
  <1>1. CASE \E block \in Block : ImportBlock(block)
    BY <1>1, ImportKeepsBacklog
  <1>2. CASE recv
    BY <1>2, RecvKeepsBacklog
  <1>3. CASE send_eth_messages \/ get_all_peers_failed \/ task_stops
    <2>1. \E at \in {"recv", "stopped"} : task' = [task EXCEPT !.at = at]
      BY <1>3 DEF send_eth_messages, get_all_peers_failed, task_stops, after_error
    <2>2. UNCHANGED <<announced, rebroadcast_rx, main, shutdown>>
      BY <1>3 DEF send_eth_messages, get_all_peers_failed, task_stops
    <2>3. task'.n = task.n /\ task' \in [at : {"recv", "stopped"}, n : 0 .. Len(announced)]
      BY <2>1 DEF BacklogInv
    <2>4. failed' \subseteq 1 .. Len(announced)
      <3>1. failed' = failed \/ (task.at = "peers" /\ failed' = failed \cup {task.n})
        BY <1>3 DEF send_eth_messages, get_all_peers_failed, task_stops, TaskAt
      <3>2. task.at = "peers" => task.n \in 1 .. Len(announced)
        BY LenProperties DEF BacklogInv
      <3>3. QED
        BY <3>1, <3>2 DEF BacklogInv
    <2>5. task'.at # "peers" /\ task' \in [at : {"recv", "peers", "stopped"}, n : 0 .. Len(announced)]
      BY <2>3
    <2>6. QED
      BY <2>2, <2>3, <2>4, <2>5 DEF BacklogInv
  <1>4. CASE ctrl_c \/ stop_network \/ main_returns
    BY <1>4 DEF ctrl_c, stop_network, main_returns, BacklogInv
  <1>5. CASE UNCHANGED <<announced, task, rebroadcast_rx, failed, main, shutdown>>
    BY <1>5 DEF BacklogInv
  <1>6. QED
    BY <1>1, <1>2, <1>3, <1>4, <1>5
       DEF Next, Connect, Disconnect, Manager, apply_status, answer_peers, send_to_session,
           disconnect_all, handle_request, Task, Main, vars

\* The backlog holds at every step, from the start on.
LEMMA BacklogHolds == Spec => []BacklogInv
  <1>1. Init => BacklogInv
    <2> SUFFICES ASSUME Init PROVE BacklogInv
      OBVIOUS
    <2>1. /\ announced = <<>> /\ rebroadcast_rx = <<>> /\ task = [at |-> "recv", n |-> 0]
          /\ failed = {} /\ main = "events" /\ shutdown = FALSE
      BY DEF Init
    <2>2. announced \in Seq(Block) /\ Len(announced) = 0
      BY <2>1
    <2>3. SubSeq(announced, 1, 0) = <<>>
      BY SubSeqEmpty
    <2>4. rebroadcast_rx = SubSeq(announced, task.n + 1, Len(announced))
      BY <2>1, <2>2, <2>3
    <2>5. task \in [at : {"recv", "peers", "stopped"}, n : 0 .. Len(announced)]
      BY <2>1, <2>2
    <2>6. main \in {"events", "shutdown", "exited"} /\ shutdown \in BOOLEAN
      BY <2>1
    <2>7. QED
      BY <2>1, <2>2, <2>4, <2>5, <2>6 DEF BacklogInv
  <1>2. QED
    BY <1>1, NextKeepsBacklog, PTL DEF Spec
-----------------------------------------------------------------------------
(***************************************************************************)
(* The channel.                                                            *)
(***************************************************************************)

\* The commands, by their name.
LEMMA CommandTypes ==
    ASSUME NEW c \in AnyCommand
    PROVE  /\ c.command \in {"status", "peers", "block", "shutdown"}
           /\ c.command = "status" => c.n \in Nat
           /\ c.command = "block" => c.peer \in Peer /\ c.n \in Nat
  BY DEF AnyCommand, GetPeers, ShutdownCommand

\* What is at which position of a concatenation.
LEMMA ConcatPositions ==
    ASSUME NEW S, NEW s \in Seq(S), NEW t \in Seq(S)
    PROVE  /\ s \o t \in Seq(S) /\ Len(s) \in Nat
           /\ DOMAIN s \subseteq Nat \ {0} /\ DOMAIN t \subseteq Nat \ {0}
           /\ DOMAIN (s \o t) \subseteq Nat \ {0}
           /\ \A i \in DOMAIN s : i <= Len(s) /\ i \in DOMAIN (s \o t) /\ (s \o t)[i] = s[i]
           /\ \A j \in DOMAIN t : Len(s) + j \in DOMAIN (s \o t) /\ (s \o t)[Len(s) + j] = t[j]
           /\ \A k \in DOMAIN (s \o t) :
                k \in DOMAIN s \/ (k > Len(s) /\ k - Len(s) \in DOMAIN t /\ (s \o t)[k] = t[k - Len(s)])
  <1>1. PICK u \in Seq(S) : u = s \o t
    BY ConcatProperties
  <1>2. PICK m \in Nat, n \in Nat : m = Len(s) /\ n = Len(t)
    BY LenProperties
  <1>3. DOMAIN s = 1 .. m /\ DOMAIN t = 1 .. n
    BY <1>2, LenProperties
  <1>4. Len(u) = m + n /\ \A i \in 1 .. m + n : u[i] = IF i <= m THEN s[i] ELSE t[i - m]
    BY <1>1, <1>2, ConcatProperties, ZenonT(30)
  <1>5. DOMAIN u = 1 .. m + n
    BY <1>4, LenProperties
  <1>6. \A i \in 1 .. m : i <= m /\ i \in 1 .. m + n /\ u[i] = s[i]
    BY <1>4
  <1>7. \A j \in 1 .. n : m + j \in 1 .. m + n /\ u[m + j] = t[j]
    <2> SUFFICES ASSUME NEW j \in 1 .. n PROVE m + j \in 1 .. m + n /\ u[m + j] = t[j]
      OBVIOUS
    <2>1. m + j \in 1 .. m + n /\ ~(m + j <= m) /\ (m + j) - m = j
      OBVIOUS
    <2>2. u[m + j] = t[(m + j) - m]
      BY <1>4, <2>1
    <2>3. QED
      BY <2>1, <2>2, Zenon
  <1>8. \A k \in 1 .. m + n : k \in 1 .. m \/ (k > m /\ k - m \in 1 .. n /\ u[k] = t[k - m])
    BY <1>4
  <1>9. /\ 1 .. m \subseteq Nat \ {0} /\ 1 .. n \subseteq Nat \ {0} /\ 1 .. m + n \subseteq Nat \ {0}
    OBVIOUS
  <1>10. QED
    BY <1>1, <1>2, <1>3, <1>5, <1>6, <1>7, <1>8, <1>9, Zenon

\* Taking the next command moves the others one position forward.
LEMMA NextCommand ==
    ASSUME commands \in Seq(AnyCommand), NEW name, Command_is(name)
    PROVE  /\ commands' \in Seq(AnyCommand)
           /\ DOMAIN commands \subseteq Nat \ {0} /\ DOMAIN commands' \subseteq Nat \ {0}
           /\ 1 \in DOMAIN commands /\ Is(1, name)
           /\ Head(commands) = commands[1] /\ Head(commands) \in AnyCommand
           /\ \A i \in DOMAIN commands' : i + 1 \in DOMAIN commands /\ commands'[i] = commands[i + 1]
           /\ \A i \in DOMAIN commands :
                i # 1 => i - 1 \in DOMAIN commands' /\ commands'[i - 1] = commands[i]
  <1>1. commands # <<>> /\ Head(commands).command = name /\ commands' = Tail(commands)
    BY DEF Command_is
  <1>2. PICK t \in Seq(AnyCommand) : t = Tail(commands)
    BY <1>1, HeadTailProperties
  <1>3. PICK n \in Nat : n = Len(commands) /\ n > 0
    BY <1>1, EmptySeq
  <1>4. Len(t) = n - 1 /\ \A i \in 1 .. n - 1 : t[i] = commands[i + 1]
    BY <1>1, <1>2, <1>3, HeadTailProperties
  <1>5. DOMAIN commands = 1 .. n /\ DOMAIN t = 1 .. n - 1
    BY <1>3, <1>4, LenProperties
  <1>6. Head(commands) = commands[1] /\ Head(commands) \in AnyCommand
    BY <1>1, HeadTailProperties
  <1>7. /\ \A i \in 1 .. n - 1 : i + 1 \in 1 .. n /\ t[i] = commands[i + 1]
        /\ 1 .. n \subseteq Nat \ {0} /\ 1 .. n - 1 \subseteq Nat \ {0} /\ 1 \in 1 .. n
    BY <1>3, <1>4
  <1>8. \A i \in 1 .. n : i # 1 => i - 1 \in 1 .. n - 1 /\ t[i - 1] = commands[i]
    <2> SUFFICES ASSUME NEW i \in 1 .. n, i # 1
                 PROVE  i - 1 \in 1 .. n - 1 /\ t[i - 1] = commands[i]
      OBVIOUS
    <2>1. i - 1 \in 1 .. n - 1 /\ (i - 1) + 1 = i
      OBVIOUS
    <2>2. t[i - 1] = commands[(i - 1) + 1]
      BY <1>4, <2>1
    <2>3. QED
      BY <2>1, <2>2, Zenon
  <1>9. QED
    BY <1>1, <1>2, <1>5, <1>6, <1>7, <1>8, Zenon DEF Is

\* While a reply waits, or the task is not at the list, no command but the
\* shutdown and messages is in the channel.
LEMMA AnsweredChannel ==
    ASSUME ChannelInv
    PROVE  /\ reply # {} => task.at = "peers" /\ (\A i \in DOMAIN commands : Is(i, "shutdown")) /\ status = task.n
           /\ task.at # "peers" => /\ reply = {} /\ status = task.n
                                   /\ \A i \in DOMAIN commands : ~Is(i, "status") /\ ~Is(i, "peers")
  <1>1. reply # {} => task.at = "peers" /\ \A i \in DOMAIN commands : Is(i, "shutdown")
    BY DEF ChannelInv, ReplyAlone
  <1>2. reply # {} => \A i \in DOMAIN commands : ~Is(i, "status")
    BY <1>1 DEF Is
  <1>3. task.at # "peers" => \A i \in DOMAIN commands : ~Is(i, "status") /\ ~Is(i, "peers")
    BY DEF ChannelInv, StatusPending, PeersPending
  <1>4. QED
    BY <1>1, <1>2, <1>3 DEF ChannelInv, StatusDone

\* The status update: no message is left in the channel.
LEMMA ApplyStatusKeepsChannel == BacklogInv /\ ChannelInv /\ apply_status => ChannelInv'
  <1> SUFFICES ASSUME BacklogInv, ChannelInv, apply_status PROVE ChannelInv'
    OBVIOUS
  <1>1. /\ status' = Head(commands).n
        /\ UNCHANGED <<task, reply, connected>>
    BY DEF apply_status, sessionVars
  <1>2. commands \in Seq(AnyCommand) /\ Command_is("status")
    BY DEF apply_status, ChannelInv
  <1>3. /\ commands' \in Seq(AnyCommand)
        /\ DOMAIN commands' \subseteq Nat \ {0}
        /\ 1 \in DOMAIN commands /\ Is(1, "status") /\ Head(commands) = commands[1]
        /\ \A i \in DOMAIN commands' : i + 1 \in DOMAIN commands /\ commands'[i] = commands[i + 1]
        /\ \A i \in DOMAIN commands : i # 1 => i - 1 \in DOMAIN commands' /\ commands'[i - 1] = commands[i]
    BY <1>2, NextCommand
  <1>4. task.at = "peers" /\ status' = task.n
    BY <1>1, <1>3 DEF ChannelInv, StatusPending
  <1>5. \A i \in DOMAIN commands' : ~Is(i, "block")'
    <2> SUFFICES ASSUME NEW i \in DOMAIN commands', Is(i, "block")' PROVE FALSE
      OBVIOUS
    <2>1. i + 1 \in DOMAIN commands /\ Is(i + 1, "block") /\ ~(i + 1 < 1)
      BY <1>3 DEF Is
    <2>2. QED
      BY <1>3, <2>1 DEF ChannelInv, BlocksBeforeStatus
  <1>6. BlocksCarryStatus' /\ BlocksBeforeStatus' /\ OnePerPeer' /\ BlocksOfBefore'
    BY <1>5 DEF BlocksCarryStatus, BlocksBeforeStatus, OnePerPeer, BlocksOfBefore
  <1>7. PeersLast'
    <2> SUFFICES ASSUME NEW i \in DOMAIN commands', NEW j \in DOMAIN commands',
                        Is(j, "peers")', ~Is(i, "shutdown")'
                 PROVE  i <= j
      BY DEF PeersLast
    <2>1. i + 1 \in DOMAIN commands /\ j + 1 \in DOMAIN commands
      BY <1>3
    <2>2. Is(j + 1, "peers") /\ ~Is(i + 1, "shutdown")
      BY <1>3 DEF Is
    <2>3. i + 1 <= j + 1
      BY <2>1, <2>2 DEF ChannelInv, PeersLast
    <2>4. QED
      BY <1>3, <2>3
  <1>8. StatusPending'
    BY <1>1, <1>3 DEF ChannelInv, StatusPending, Is
  <1>9. StatusDone'
    BY <1>1, <1>4 DEF StatusDone
  <1>10. reply = {}
    BY <1>3 DEF ChannelInv, ReplyAlone, Is
  <1>11. PeersPending'
    <2>1. PICK i \in DOMAIN commands : Is(i, "peers")
      BY <1>4, <1>10 DEF ChannelInv, PeersPending
    <2>2. i # 1
      BY <1>3, <2>1 DEF Is
    <2>3. i - 1 \in DOMAIN commands' /\ Is(i - 1, "peers")'
      BY <1>3, <2>1, <2>2 DEF Is
    <2>4. QED
      BY <1>1, <1>4, <1>10, <2>3 DEF PeersPending
  <1>12. ReplyAlone'
    BY <1>1, <1>10 DEF ReplyAlone
  <1>13. status' \in Nat /\ status' <= task'.n
    BY <1>1, <1>4 DEF BacklogInv
  <1>14. QED
    BY <1>1, <1>3, <1>6, <1>7, <1>8, <1>9, <1>11, <1>12, <1>13 DEF ChannelInv

\* The list: whatever is left in the channel is the shutdown.
LEMMA AnswerPeersKeepsChannel == BacklogInv /\ ChannelInv /\ answer_peers => ChannelInv'
  <1> SUFFICES ASSUME BacklogInv, ChannelInv, answer_peers PROVE ChannelInv'
    OBVIOUS
  <1>1. /\ reply' = {Ok(connected)} \/ reply' = {Err}
        /\ UNCHANGED <<task, status, connected>>
    BY DEF answer_peers, sessionVars
  <1>2. commands \in Seq(AnyCommand) /\ Command_is("peers")
    BY DEF answer_peers, ChannelInv
  <1>3. /\ commands' \in Seq(AnyCommand)
        /\ DOMAIN commands' \subseteq Nat \ {0}
        /\ 1 \in DOMAIN commands /\ Is(1, "peers") /\ DOMAIN commands \subseteq Nat \ {0}
        /\ \A i \in DOMAIN commands' : i + 1 \in DOMAIN commands /\ commands'[i] = commands[i + 1]
    BY <1>2, NextCommand
  <1>4. \A i \in DOMAIN commands : i # 1 => Is(i, "shutdown")
    <2> SUFFICES ASSUME NEW i \in DOMAIN commands, ~Is(i, "shutdown") PROVE i = 1
      OBVIOUS
    <2>1. i <= 1
      BY <1>3 DEF ChannelInv, PeersLast
    <2>2. QED
      BY <1>3, <2>1
  <1>5. \A i \in DOMAIN commands' : Is(i, "shutdown")'
    <2> SUFFICES ASSUME NEW i \in DOMAIN commands' PROVE Is(i, "shutdown")'
      OBVIOUS
    <2>1. i + 1 # 1
      BY <1>3
    <2>2. QED
      BY <1>3, <1>4, <2>1 DEF Is
  <1>6. task.at = "peers" /\ reply = {}
    BY <1>3 DEF ChannelInv, PeersPending
  <1>7. status = task.n
    <2>1. \A i \in DOMAIN commands : ~Is(i, "status")
      BY <1>3, <1>4 DEF Is
    <2>2. QED
      BY <2>1 DEF ChannelInv, StatusDone
  <1>8. \A i \in DOMAIN commands' : ~Is(i, "block")' /\ ~Is(i, "status")' /\ ~Is(i, "peers")'
    BY <1>5 DEF Is
  <1>9. /\ BlocksCarryStatus' /\ BlocksBeforeStatus' /\ OnePerPeer' /\ BlocksOfBefore'
        /\ PeersLast' /\ StatusPending'
    BY <1>8 DEF BlocksCarryStatus, BlocksBeforeStatus, OnePerPeer, BlocksOfBefore, PeersLast,
                StatusPending
  <1>10. StatusDone' /\ ReplyAlone'
    BY <1>1, <1>5, <1>6, <1>7 DEF StatusDone, ReplyAlone
  <1>11. PeersPending'
    BY <1>1, <1>8 DEF PeersPending
  <1>12. reply' = {Err} \/ \E s \in SUBSET Peer : IsFiniteSet(s) /\ reply' = {Ok(s)}
    BY <1>1 DEF ChannelInv
  <1>13. QED
    BY <1>1, <1>3, <1>9, <1>10, <1>11, <1>12 DEF ChannelInv

\* A message goes to its session, or the shutdown is carried out: the rest of
\* the channel is as it was.
LEMMA TakenKeepsChannel ==
    ASSUME BacklogInv, ChannelInv, NEW name \in {"block", "shutdown"}, Command_is(name),
           UNCHANGED <<task, reply, status>>, connected' \in SUBSET connected
    PROVE  ChannelInv'
  <1>1. /\ commands' \in Seq(AnyCommand)
        /\ DOMAIN commands' \subseteq Nat \ {0} /\ DOMAIN commands \subseteq Nat \ {0}
        /\ 1 \in DOMAIN commands /\ Is(1, name)
        /\ \A i \in DOMAIN commands' : i + 1 \in DOMAIN commands /\ commands'[i] = commands[i + 1]
        /\ \A i \in DOMAIN commands : i # 1 => i - 1 \in DOMAIN commands' /\ commands'[i - 1] = commands[i]
    BY NextCommand DEF ChannelInv
  <1>2. BlocksCarryStatus' /\ StatusPending' /\ BlocksOfBefore' /\ ReplyAlone'
    BY <1>1 DEF ChannelInv, BlocksCarryStatus, StatusPending, BlocksOfBefore, ReplyAlone, Is
  <1>3. BlocksBeforeStatus'
    <2> SUFFICES ASSUME NEW i \in DOMAIN commands', NEW j \in DOMAIN commands',
                        Is(i, "block")', Is(j, "status")'
                 PROVE  i < j
      BY DEF BlocksBeforeStatus
    <2>1. i + 1 \in DOMAIN commands /\ j + 1 \in DOMAIN commands
      BY <1>1
    <2>2. Is(i + 1, "block") /\ Is(j + 1, "status")
      BY <1>1 DEF Is
    <2>3. i + 1 < j + 1
      BY <2>1, <2>2 DEF ChannelInv, BlocksBeforeStatus
    <2>4. QED
      BY <1>1, <2>3
  <1>4. PeersLast'
    <2> SUFFICES ASSUME NEW i \in DOMAIN commands', NEW j \in DOMAIN commands',
                        Is(j, "peers")', ~Is(i, "shutdown")'
                 PROVE  i <= j
      BY DEF PeersLast
    <2>1. i + 1 \in DOMAIN commands /\ j + 1 \in DOMAIN commands
      BY <1>1
    <2>2. Is(j + 1, "peers") /\ ~Is(i + 1, "shutdown")
      BY <1>1 DEF Is
    <2>3. i + 1 <= j + 1
      BY <2>1, <2>2 DEF ChannelInv, PeersLast
    <2>4. QED
      BY <1>1, <2>3
  <1>5. OnePerPeer'
    <2> SUFFICES ASSUME NEW i \in DOMAIN commands', NEW j \in DOMAIN commands',
                        Is(i, "block")', Is(j, "block")', commands'[i].peer = commands'[j].peer
                 PROVE  i = j
      BY DEF OnePerPeer
    <2>1. i + 1 \in DOMAIN commands /\ j + 1 \in DOMAIN commands
      BY <1>1
    <2>2. Is(i + 1, "block") /\ Is(j + 1, "block") /\ commands[i + 1].peer = commands[j + 1].peer
      BY <1>1 DEF Is
    <2>3. i + 1 = j + 1
      BY <2>1, <2>2 DEF ChannelInv, OnePerPeer
    <2>4. QED
      BY <1>1, <2>3
  <1>6. \A i \in DOMAIN commands : Is(i, "status") \/ Is(i, "peers") => i # 1
    BY <1>1 DEF Is
  <1>7. StatusDone'
    <2>1. (\A i \in DOMAIN commands' : ~Is(i, "status")') => \A i \in DOMAIN commands : ~Is(i, "status")
      BY <1>1, <1>6 DEF Is
    <2>2. QED
      BY <2>1 DEF StatusDone, ChannelInv
  <1>8. PeersPending'
    <2>1. (\E i \in DOMAIN commands' : Is(i, "peers")') <=> \E i \in DOMAIN commands : Is(i, "peers")
      BY <1>1, <1>6 DEF Is
    <2>2. QED
      BY <2>1 DEF PeersPending, ChannelInv
  <1>9. connected' \subseteq Peer /\ IsFiniteSet(connected')
    BY FS_Subset DEF ChannelInv
  <1>10. status' \in Nat /\ status' <= task'.n
    BY DEF ChannelInv
  <1>11. reply' = {} \/ reply' = {Err} \/ \E s \in SUBSET Peer : IsFiniteSet(s) /\ reply' = {Ok(s)}
    BY DEF ChannelInv
  <1>12. QED
    BY <1>1, <1>2, <1>3, <1>4, <1>5, <1>7, <1>8, <1>9, <1>10, <1>11 DEF ChannelInv

\* An order of a finite set has every element at one position.
LEMMA OrderOfSet ==
    ASSUME NEW s, IsFiniteSet(s), NEW f \in SetToSeqs(s)
    PROVE  /\ f \in Seq(s)
           /\ \A i, j \in DOMAIN f : f[i] = f[j] => i = j
           /\ \A x \in s : \E i \in DOMAIN f : f[i] = x
  <1>1. PICK k \in Nat : k = Cardinality(s)
    BY FS_CardinalityType
  <1>2. f \in [1 .. k -> s] /\ \A i, j \in 1 .. k : i # j => f[i] # f[j]
    BY <1>1, Zenon DEF SetToSeqs
  <1>3. \A x \in s : \E i \in 1 .. k : f[i] = x
    <2> SUFFICES ASSUME NEW x \in s, \A i \in 1 .. k : f[i] # x PROVE FALSE
      OBVIOUS
    <2>1. PICK T : T = s \ {x}
      OBVIOUS
    <2>2. IsFiniteSet(T) /\ Cardinality(T) = k - 1
      BY <1>1, <2>1, FS_RemoveElement
    <2>3. f \in [1 .. k -> T]
      BY <1>2, <2>1
    <2>4. f \in Injection(1 .. k, T)
      BY <1>2, <2>3 DEF Injection, IsInjective
    <2>5. Cardinality(1 .. k) <= Cardinality(T)
      BY <2>2, <2>4, FS_Injection, Zenon
    <2>6. Cardinality(1 .. k) = k
      BY <1>1, FS_Interval
    <2>7. QED
      BY <1>1, <2>2, <2>5, <2>6
  <1>4. f \in Seq(s)
    BY <1>2, SeqDef
  <1>5. DOMAIN f = 1 .. k
    BY <1>2
  <1>6. QED
    BY <1>2, <1>3, <1>4, <1>5, Zenon

\* The list is in the channel to stay in order: the messages of the task.
LEMMA MessagesOfTask ==
    ASSUME BacklogInv, ChannelInv, send_eth_messages
    PROVE  \E s \in SUBSET Peer, msgs \in Seq(AnyCommand) :
             /\ reply = {Ok(s)} /\ commands' = commands \o msgs
             /\ \A j \in DOMAIN msgs : msgs[j] \in {EthMessage(p, task.n) : p \in s}
             /\ \A i, j \in DOMAIN msgs : msgs[i].peer = msgs[j].peer => i = j
             /\ \A p \in s : \E j \in DOMAIN msgs : msgs[j] = EthMessage(p, task.n)
  <1>1. PICK r \in reply : ~r.error /\ \E peers \in SetToSeqs(r.peers) :
           commands' = commands \o [i \in DOMAIN peers |-> EthMessage(peers[i], task.n)]
    BY DEF send_eth_messages
  <1>2. PICK s \in SUBSET Peer : IsFiniteSet(s) /\ reply = {Ok(s)}
    <2>1. reply # {} /\ reply # {Err}
      BY <1>1 DEF Err
    <2>2. QED
      BY <2>1 DEF ChannelInv
  <1>3. r.peers = s
    BY <1>1, <1>2 DEF Ok
  <1>4. PICK peers \in SetToSeqs(s) :
           commands' = commands \o [i \in DOMAIN peers |-> EthMessage(peers[i], task.n)]
    BY <1>1, <1>3
  <1>5. /\ peers \in Seq(s)
        /\ \A i, j \in DOMAIN peers : peers[i] = peers[j] => i = j
        /\ \A x \in s : \E i \in DOMAIN peers : peers[i] = x
    BY <1>2, OrderOfSet
  <1>6. PICK msgs : msgs = [i \in DOMAIN peers |-> EthMessage(peers[i], task.n)]
    OBVIOUS
  <1>7. PICK k \in Nat : DOMAIN peers = 1 .. k /\ \A i \in 1 .. k : peers[i] \in s
    BY <1>5, LenProperties, ElementOfSeq
  <1>8. task.n \in Nat
    BY DEF BacklogInv
  <1>9. \A i \in 1 .. k : EthMessage(peers[i], task.n) \in AnyCommand
    BY <1>2, <1>7, <1>8 DEF EthMessage, AnyCommand
  <1>10. msgs \in [1 .. k -> AnyCommand] /\ DOMAIN msgs = DOMAIN peers
    BY <1>6, <1>7, <1>9
  <1>11. msgs \in Seq(AnyCommand)
    BY <1>10, SeqDef
  <1>12. \A j \in DOMAIN msgs : msgs[j] \in {EthMessage(p, task.n) : p \in s}
    BY <1>6, <1>7, <1>10
  <1>13. \A i, j \in DOMAIN msgs : msgs[i].peer = msgs[j].peer => i = j
    BY <1>5, <1>6 DEF EthMessage
  <1>14. \A p \in s : \E j \in DOMAIN msgs : msgs[j] = EthMessage(p, task.n)
    BY <1>5, <1>6
  <1>15. QED
    BY <1>2, <1>4, <1>6, <1>11, <1>12, <1>13, <1>14, Zenon

\* Before the list is awaited, the status update and the request go in.
LEMMA RecvCommands ==
    ASSUME BacklogInv, ChannelInv, recv
    PROVE  \E n \in Nat, L \in Nat :
             /\ n = task.n + 1 /\ task' = [at |-> "peers", n |-> n] /\ task.at = "recv"
             /\ UNCHANGED <<reply, status, sessionVars>>
             /\ L = Len(commands) /\ commands' \in Seq(AnyCommand)
             /\ DOMAIN commands \subseteq Nat \ {0} /\ DOMAIN commands' \subseteq Nat \ {0}
             /\ \A i \in DOMAIN commands : i <= L /\ i \in DOMAIN commands' /\ commands'[i] = commands[i]
             /\ L + 1 \in DOMAIN commands' /\ commands'[L + 1] = StatusUpdate(n)
             /\ L + 2 \in DOMAIN commands' /\ commands'[L + 2] = GetPeers
             /\ \A k \in DOMAIN commands' : k \in DOMAIN commands \/ k = L + 1 \/ k = L + 2
  <1>1. PICK n \in Nat : n = task.n + 1
    BY DEF BacklogInv
  <1>2. /\ commands' = commands \o <<StatusUpdate(n), GetPeers>>
        /\ task' = [at |-> "peers", n |-> n] /\ task.at = "recv"
        /\ UNCHANGED <<reply, status, sessionVars>>
    BY <1>1 DEF recv, Taken, before_list, TaskAt
  <1>3. PICK msgs : msgs = <<StatusUpdate(n), GetPeers>>
    OBVIOUS
  <1>4. DOMAIN msgs = {1, 2} /\ msgs[1] = StatusUpdate(n) /\ msgs[2] = GetPeers
    BY <1>3
  <1>5. StatusUpdate(n) \in AnyCommand /\ GetPeers \in AnyCommand
    BY DEF AnyCommand, StatusUpdate
  <1>6. msgs \in Seq(AnyCommand)
    BY <1>3, <1>5
  <1>7. \E L \in Nat :
          /\ L = Len(commands) /\ commands' \in Seq(AnyCommand)
          /\ DOMAIN commands \subseteq Nat \ {0} /\ DOMAIN commands' \subseteq Nat \ {0}
          /\ \A i \in DOMAIN commands : i <= L /\ i \in DOMAIN commands' /\ commands'[i] = commands[i]
          /\ L + 1 \in DOMAIN commands' /\ commands'[L + 1] = StatusUpdate(n)
          /\ L + 2 \in DOMAIN commands' /\ commands'[L + 2] = GetPeers
          /\ \A k \in DOMAIN commands' : k \in DOMAIN commands \/ k = L + 1 \/ k = L + 2
    <2>1. commands' = commands \o msgs /\ commands \in Seq(AnyCommand)
      BY <1>2, <1>3 DEF ChannelInv
    <2>2. PICK L \in Nat : L = Len(commands)
      BY <2>1, LenProperties
    <2>3. /\ commands' \in Seq(AnyCommand)
          /\ DOMAIN commands \subseteq Nat \ {0} /\ DOMAIN commands' \subseteq Nat \ {0}
          /\ \A i \in DOMAIN commands : i <= L /\ i \in DOMAIN commands' /\ commands'[i] = commands[i]
          /\ \A j \in DOMAIN msgs : L + j \in DOMAIN commands' /\ commands'[L + j] = msgs[j]
          /\ \A k \in DOMAIN commands' :
               k \in DOMAIN commands \/ (k > L /\ k - L \in DOMAIN msgs /\ commands'[k] = msgs[k - L])
      <3>1. PICK u : u = commands \o msgs
        OBVIOUS
      <3>2. /\ u \in Seq(AnyCommand)
            /\ DOMAIN commands \subseteq Nat \ {0} /\ DOMAIN u \subseteq Nat \ {0}
            /\ \A i \in DOMAIN commands : i <= L /\ i \in DOMAIN u /\ u[i] = commands[i]
            /\ \A j \in DOMAIN msgs : L + j \in DOMAIN u /\ u[L + j] = msgs[j]
            /\ \A k \in DOMAIN u :
                 k \in DOMAIN commands \/ (k > L /\ k - L \in DOMAIN msgs /\ u[k] = msgs[k - L])
        BY <1>6, <2>1, <2>2, <3>1, ConcatPositions
      <3>3. QED
        BY <2>1, <3>1, <3>2
    <2>4. ASSUME NEW k \in DOMAIN commands', k \notin DOMAIN commands
          PROVE  k = L + 1 \/ k = L + 2
      <3>1. k \in Nat /\ (k - L = 1 \/ k - L = 2)
        BY <1>4, <2>3, <2>4
      <3>2. QED
        BY <3>1
    <2>5. QED
      BY <1>4, <2>2, <2>3, <2>4
  <1>8. QED
    BY <1>1, <1>2, <1>7

\* The status shows the announcement in hand before its messages can come.
LEMMA RecvKeepsChannel == BacklogInv /\ ChannelInv /\ recv => ChannelInv'
  <1> SUFFICES ASSUME BacklogInv, ChannelInv, recv PROVE ChannelInv'
    OBVIOUS
  <1>7. PICK n \in Nat, L \in Nat :
          /\ n = task.n + 1 /\ task' = [at |-> "peers", n |-> n] /\ task.at = "recv"
          /\ UNCHANGED <<reply, status, sessionVars>>
          /\ L = Len(commands) /\ commands' \in Seq(AnyCommand)
          /\ DOMAIN commands \subseteq Nat \ {0} /\ DOMAIN commands' \subseteq Nat \ {0}
          /\ \A i \in DOMAIN commands : i <= L /\ i \in DOMAIN commands' /\ commands'[i] = commands[i]
          /\ L + 1 \in DOMAIN commands' /\ commands'[L + 1] = StatusUpdate(n)
          /\ L + 2 \in DOMAIN commands' /\ commands'[L + 2] = GetPeers
          /\ \A k \in DOMAIN commands' : k \in DOMAIN commands \/ k = L + 1 \/ k = L + 2
    BY RecvCommands
  <1>1. n = task.n + 1
    BY <1>7
  <1>2. task' = [at |-> "peers", n |-> n] /\ task.at = "recv" /\ UNCHANGED <<reply, status, connected>>
    BY <1>7 DEF sessionVars
  <1>8. /\ reply = {} /\ status = task.n
        /\ \A i \in DOMAIN commands : ~Is(i, "status") /\ ~Is(i, "peers")
    BY <1>2, AnsweredChannel
  <1>9. \A i \in DOMAIN commands : \A name : Is(i, name)' <=> Is(i, name)
    BY <1>7 DEF Is
  <1>10. /\ ~Is(L + 1, "block")' /\ ~Is(L + 1, "peers")' /\ ~Is(L + 1, "shutdown")' /\ Is(L + 1, "status")'
         /\ ~Is(L + 2, "block")' /\ ~Is(L + 2, "status")' /\ ~Is(L + 2, "shutdown")' /\ Is(L + 2, "peers")'
         /\ commands'[L + 1].n = n
    BY <1>7 DEF Is, StatusUpdate, GetPeers
  <1>11. \A i \in DOMAIN commands' : Is(i, "block")' => i \in DOMAIN commands /\ Is(i, "block")
    BY <1>7, <1>9, <1>10
  <1>12. \A i \in DOMAIN commands' : Is(i, "status")' => i = L + 1
    BY <1>7, <1>8, <1>9, <1>10
  <1>13. \A i \in DOMAIN commands' : Is(i, "peers")' => i = L + 2
    BY <1>7, <1>8, <1>9, <1>10
  <1>14. BlocksCarryStatus' /\ OnePerPeer'
    BY <1>2, <1>7, <1>11 DEF ChannelInv, BlocksCarryStatus, OnePerPeer
  <1>15. BlocksBeforeStatus'
    BY <1>7, <1>11, <1>12 DEF BlocksBeforeStatus
  <1>16. PeersLast'
    BY <1>7, <1>13 DEF PeersLast
  <1>17. StatusPending' /\ StatusDone'
    BY <1>2, <1>7, <1>10, <1>12 DEF StatusPending, StatusDone
  <1>18. PeersPending' /\ ReplyAlone'
    BY <1>2, <1>7, <1>8, <1>10 DEF PeersPending, ReplyAlone
  <1>19. BlocksOfBefore' /\ status' \in Nat /\ status' <= task'.n
    BY <1>1, <1>2, <1>8 DEF BlocksOfBefore, BacklogInv
  <1>20. QED
    BY <1>2, <1>7, <1>8, <1>14, <1>15, <1>16, <1>17, <1>18, <1>19 DEF ChannelInv

\* The messages are those of the block the status shows.
LEMMA SendKeepsChannel == BacklogInv /\ ChannelInv /\ send_eth_messages => ChannelInv'
  <1> SUFFICES ASSUME BacklogInv, ChannelInv, send_eth_messages PROVE ChannelInv'
    OBVIOUS
  <1>1. PICK s \in SUBSET Peer, msgs \in Seq(AnyCommand) :
           /\ reply = {Ok(s)} /\ commands' = commands \o msgs
           /\ \A j \in DOMAIN msgs : msgs[j] \in {EthMessage(p, task.n) : p \in s}
           /\ \A i, j \in DOMAIN msgs : msgs[i].peer = msgs[j].peer => i = j
    BY MessagesOfTask, Zenon
  <1>2. /\ task.at = "peers" /\ task' = [task EXCEPT !.at = "recv"] /\ reply' = {}
        /\ UNCHANGED <<status, connected>>
    BY DEF send_eth_messages, TaskAt, sessionVars
  <1>3. task'.at = "recv" /\ task'.n = task.n /\ task.n \in Nat \ {0}
    BY <1>2 DEF BacklogInv
  <1>4. (\A i \in DOMAIN commands : Is(i, "shutdown")) /\ status = task.n
    BY <1>1, AnsweredChannel
  <1>5. PICK L \in Nat :
          /\ commands' \in Seq(AnyCommand)
          /\ DOMAIN commands' \subseteq Nat \ {0} /\ DOMAIN msgs \subseteq Nat \ {0}
          /\ \A i \in DOMAIN commands : commands'[i] = commands[i]
          /\ \A k \in DOMAIN commands' :
               k \in DOMAIN commands \/ (k - L \in DOMAIN msgs /\ commands'[k] = msgs[k - L])
    <2>1. PICK u : u = commands \o msgs
      OBVIOUS
    <2>2. PICK L \in Nat : L = Len(commands)
      BY LenProperties DEF ChannelInv
    <2>3. /\ u \in Seq(AnyCommand)
          /\ DOMAIN u \subseteq Nat \ {0} /\ DOMAIN msgs \subseteq Nat \ {0}
          /\ \A i \in DOMAIN commands : u[i] = commands[i]
          /\ \A k \in DOMAIN u :
               k \in DOMAIN commands \/ (k - L \in DOMAIN msgs /\ u[k] = msgs[k - L])
      BY <2>1, <2>2, ConcatPositions DEF ChannelInv
    <2>4. QED
      BY <1>1, <2>1, <2>3
  <1>6. ASSUME NEW i \in DOMAIN commands', ~Is(i, "shutdown")'
        PROVE  /\ i - L \in DOMAIN msgs /\ commands'[i] = msgs[i - L]
               /\ Is(i, "block")' /\ commands'[i].n = task.n
    <2>1. i \notin DOMAIN commands
      BY <1>4, <1>5, <1>6 DEF Is
    <2>2. i - L \in DOMAIN msgs /\ commands'[i] = msgs[i - L]
      BY <1>5, <2>1
    <2>3. PICK p \in s : msgs[i - L] = EthMessage(p, task.n)
      BY <1>1, <2>2
    <2>4. QED
      BY <2>2, <2>3 DEF EthMessage, Is
  <1>7. \A i \in DOMAIN commands' : ~Is(i, "status")' /\ ~Is(i, "peers")'
    BY <1>6 DEF Is
  <1>8. BlocksCarryStatus'
    <2> SUFFICES ASSUME NEW i \in DOMAIN commands', Is(i, "block")'
                 PROVE  commands'[i].n = status' /\ status' > 0
      BY DEF BlocksCarryStatus
    <2>1. ~Is(i, "shutdown")'
      BY DEF Is
    <2>2. QED
      BY <1>2, <1>3, <1>4, <1>6, <2>1
  <1>9. OnePerPeer'
    <2> SUFFICES ASSUME NEW i \in DOMAIN commands', NEW j \in DOMAIN commands',
                        Is(i, "block")', Is(j, "block")', commands'[i].peer = commands'[j].peer
                 PROVE  i = j
      BY DEF OnePerPeer
    <2>1. ~Is(i, "shutdown")' /\ ~Is(j, "shutdown")'
      BY DEF Is
    <2>2. /\ i - L \in DOMAIN msgs /\ commands'[i] = msgs[i - L]
          /\ j - L \in DOMAIN msgs /\ commands'[j] = msgs[j - L]
      BY <1>6, <2>1
    <2>3. i - L = j - L
      BY <1>1, <2>2
    <2>4. QED
      BY <1>5, <2>3
  <1>10. BlocksBeforeStatus' /\ PeersLast' /\ StatusPending'
    BY <1>7 DEF BlocksBeforeStatus, PeersLast, StatusPending
  <1>11. StatusDone' /\ BlocksOfBefore'
    BY <1>2, <1>3, <1>4 DEF StatusDone, BlocksOfBefore
  <1>12. PeersPending' /\ ReplyAlone'
    BY <1>2, <1>3, <1>7 DEF PeersPending, ReplyAlone
  <1>13. status' \in Nat /\ status' <= task'.n
    BY <1>2, <1>3, <1>4
  <1>14. QED
    BY <1>2, <1>5, <1>8, <1>9, <1>10, <1>11, <1>12, <1>13 DEF ChannelInv

\* The task goes back to the loop, or leaves it: the channel is as it was.
LEMMA TaskKeepsChannel ==
    BacklogInv /\ ChannelInv /\ (get_all_peers_failed \/ task_stops) => ChannelInv'
  <1> SUFFICES ASSUME BacklogInv, ChannelInv, get_all_peers_failed \/ task_stops
               PROVE  ChannelInv'
    OBVIOUS
  <1>1. /\ \E at \in {"recv", "stopped"} : task' = [task EXCEPT !.at = at]
        /\ reply' = {} /\ UNCHANGED <<commands, status, connected>>
        /\ task.at = "recv" \/ reply # {}
    BY AnsweredChannel DEF get_all_peers_failed, task_stops, after_error, sessionVars, TaskAt
  <1>2. task'.at # "peers" /\ task'.n = task.n
    BY <1>1 DEF BacklogInv
  <1>3. status = task.n /\ \A i \in DOMAIN commands : ~Is(i, "status") /\ ~Is(i, "peers")
    BY <1>1, AnsweredChannel DEF Is
  <1>4. /\ BlocksCarryStatus' /\ BlocksBeforeStatus' /\ PeersLast' /\ OnePerPeer'
        /\ StatusPending' /\ StatusDone' /\ PeersPending' /\ ReplyAlone' /\ BlocksOfBefore'
    BY <1>1, <1>2, <1>3
       DEF ChannelInv, BlocksCarryStatus, BlocksBeforeStatus, PeersLast, OnePerPeer, StatusPending,
           StatusDone, PeersPending, ReplyAlone, BlocksOfBefore, Is
  <1>5. QED
    BY <1>1, <1>2, <1>4 DEF ChannelInv

\* Peers come and go, and the shutdown command is sent.
LEMMA OthersKeepChannel ==
    ASSUME BacklogInv, ChannelInv, UNCHANGED <<task, reply, status>>,
           \/ commands' = commands /\ ((\E p \in Peer : connected' = connected \cup {p})
                                        \/ connected' \in SUBSET connected)
           \/ commands' = Append(commands, ShutdownCommand) /\ connected' = connected
    PROVE  ChannelInv'
  <1>1. connected' \subseteq Peer /\ IsFiniteSet(connected')
    <2>1. CASE \E p \in Peer : connected' = connected \cup {p}
      <3>1. PICK p \in Peer : connected' = connected \cup {p}
        BY <2>1
      <3>2. IsFiniteSet(connected \cup {p})
        BY FS_AddElement DEF ChannelInv
      <3>3. QED
        BY <3>1, <3>2 DEF ChannelInv
    <2>2. CASE connected' \in SUBSET connected
      BY <2>2, FS_Subset DEF ChannelInv
    <2>3. QED
      BY <2>1, <2>2
  <1>2. /\ commands' \in Seq(AnyCommand)
        /\ \A i \in DOMAIN commands : i \in DOMAIN commands' /\ commands'[i] = commands[i]
        /\ \A i \in DOMAIN commands' : i \in DOMAIN commands \/ Is(i, "shutdown")'
    <2>1. CASE commands' = commands
      BY <2>1 DEF ChannelInv
    <2>2. CASE commands' = Append(commands, ShutdownCommand)
      <3>1. PICK L \in Nat : L = Len(commands) /\ DOMAIN commands = 1 .. L
        BY LenProperties DEF ChannelInv
      <3>2. ShutdownCommand \in AnyCommand
        BY DEF AnyCommand
      <3>3. /\ commands' \in Seq(AnyCommand) /\ Len(commands') = L + 1
            /\ \A i \in 1 .. L : commands'[i] = commands[i]
            /\ commands'[L + 1] = ShutdownCommand
        BY <2>2, <3>1, <3>2, AppendProperties DEF ChannelInv
      <3>4. DOMAIN commands' = 1 .. L + 1
        BY <3>3, LenProperties
      <3>5. \A i \in 1 .. L + 1 : i \in 1 .. L \/ i = L + 1
        OBVIOUS
      <3>6. QED
        BY <3>1, <3>3, <3>4, <3>5 DEF Is, ShutdownCommand
    <2>3. QED
      BY <2>1, <2>2
  <1>3. \A i \in DOMAIN commands', name \in {"block", "status", "peers"} :
           Is(i, name)' => i \in DOMAIN commands /\ Is(i, name) /\ commands'[i] = commands[i]
    BY <1>2 DEF Is
  <1>4. \A i \in DOMAIN commands, name \in {"block", "status", "peers"} :
           Is(i, name) => i \in DOMAIN commands' /\ Is(i, name)'
    BY <1>2 DEF Is
  <1>5. BlocksCarryStatus' /\ OnePerPeer'
    BY <1>3 DEF ChannelInv, BlocksCarryStatus, OnePerPeer
  <1>6. BlocksBeforeStatus' /\ StatusPending' /\ BlocksOfBefore'
    BY <1>3 DEF ChannelInv, BlocksBeforeStatus, StatusPending, BlocksOfBefore
  <1>7. PeersLast'
    <2> SUFFICES ASSUME NEW i \in DOMAIN commands', NEW j \in DOMAIN commands',
                        Is(j, "peers")', ~Is(i, "shutdown")'
                 PROVE  i <= j
      BY DEF PeersLast
    <2>1. j \in DOMAIN commands /\ Is(j, "peers")
      BY <1>3
    <2>2. i \in DOMAIN commands /\ ~Is(i, "shutdown")
      BY <1>2 DEF Is
    <2>3. QED
      BY <2>1, <2>2 DEF ChannelInv, PeersLast
  <1>8. StatusDone' /\ PeersPending'
    BY <1>3, <1>4 DEF ChannelInv, StatusDone, PeersPending
  <1>9. ReplyAlone'
    BY <1>2 DEF ChannelInv, ReplyAlone, Is
  <1>10. status' \in Nat /\ status' <= task'.n
    BY DEF ChannelInv
  <1>11. reply' = {} \/ reply' = {Err} \/ \E s \in SUBSET Peer : IsFiniteSet(s) /\ reply' = {Ok(s)}
    BY DEF ChannelInv
  <1>12. QED
    BY <1>1, <1>2, <1>5, <1>6, <1>7, <1>8, <1>9, <1>10, <1>11 DEF ChannelInv

\* Every step keeps the channel.
LEMMA NextKeepsChannel == BacklogInv /\ ChannelInv /\ [Next]_vars => ChannelInv'
  <1> SUFFICES ASSUME BacklogInv, ChannelInv, [Next]_vars PROVE ChannelInv'
    OBVIOUS
  <1>1. CASE Manager
    <2>1. CASE apply_status
      BY <2>1, ApplyStatusKeepsChannel
    <2>2. CASE answer_peers
      BY <2>2, AnswerPeersKeepsChannel
    <2>3. CASE send_to_session
      <3>1. Command_is("block") /\ UNCHANGED <<task, reply, status, connected>>
        BY <2>3 DEF send_to_session
      <3>2. QED
        BY <3>1, TakenKeepsChannel
    <2>4. CASE disconnect_all
      <3>1. Command_is("shutdown") /\ UNCHANGED <<task, reply, status>> /\ connected' = {}
        BY <2>4 DEF disconnect_all
      <3>2. QED
        BY <3>1, TakenKeepsChannel
    <2>5. QED
      BY <1>1, <2>1, <2>2, <2>3, <2>4 DEF Manager
  <1>2. CASE Task
    BY <1>2, RecvKeepsChannel, SendKeepsChannel, TaskKeepsChannel DEF Task
  <1>3. CASE \E p \in Peer : Connect(p) \/ Disconnect(p)
    <2>1. PICK p \in Peer : Connect(p) \/ Disconnect(p)
      BY <1>3
    <2>2. /\ UNCHANGED <<task, reply, status, commands>>
          /\ connected' = connected \cup {p} \/ connected' = connected \ {p}
      BY <2>1 DEF Connect, Disconnect
    <2>3. QED
      BY <2>2, OthersKeepChannel
  <1>4. CASE stop_network
    <2>1. /\ UNCHANGED <<task, reply, status, connected>>
          /\ commands' = Append(commands, ShutdownCommand)
      BY <1>4 DEF stop_network, sessionVars
    <2>2. QED
      BY <2>1, OthersKeepChannel
  <1>5. CASE \/ \E block \in Block : ImportBlock(block)
             \/ handle_request \/ main_returns \/ ctrl_c \/ UNCHANGED vars
    <2>1. UNCHANGED <<task, reply, status, commands, connected>>
      BY <1>5 DEF ImportBlock, handle_request, main_returns, ctrl_c, vars, sessionVars
    <2>2. QED
      BY <2>1, OthersKeepChannel
  <1>6. QED
    BY <1>1, <1>2, <1>3, <1>4, <1>5 DEF Next, Main

\* The channel is in order at every step, from the start on.
LEMMA ChannelHolds == Spec => [](BacklogInv /\ ChannelInv)
  <1>1. Init => ChannelInv
    <2> SUFFICES ASSUME Init PROVE ChannelInv
      OBVIOUS
    <2>1. /\ commands = <<>> /\ status = 0 /\ task = [at |-> "recv", n |-> 0]
          /\ connected = {} /\ reply = {}
      BY DEF Init
    <2>2. commands \in Seq(AnyCommand) /\ DOMAIN commands = {}
      BY <2>1
    <2>3. /\ BlocksCarryStatus /\ BlocksBeforeStatus /\ PeersLast /\ OnePerPeer
          /\ StatusPending /\ StatusDone /\ PeersPending /\ ReplyAlone /\ BlocksOfBefore
      BY <2>1, <2>2
         DEF BlocksCarryStatus, BlocksBeforeStatus, PeersLast, OnePerPeer, StatusPending,
             StatusDone, PeersPending, ReplyAlone, BlocksOfBefore
    <2>4. IsFiniteSet(connected) /\ connected \subseteq Peer
      BY <2>1, FS_EmptySet
    <2>5. status \in Nat /\ status <= task.n
      BY <2>1
    <2>6. QED
      BY <2>1, <2>2, <2>3, <2>4, <2>5 DEF ChannelInv
  <1>2. ChannelInv /\ BacklogInv /\ [Next]_vars => ChannelInv'
    BY NextKeepsChannel
  <1>3. QED
    BY <1>1, <1>2, BacklogHolds, PTL DEF Spec

-----------------------------------------------------------------------------
(***************************************************************************)
(* The sessions.                                                           *)
(***************************************************************************)

\* A step that sends a session nothing, and takes nothing that is on its way,
\* keeps the order and the completeness of the session.
LEMMA SessionKept ==
    ASSUME BacklogInv, ChannelInv, NEW p \in Peer, OrderInv(p), CompleteInv(p),
           delivered'[p] = delivered[p], joined'[p] = joined[p],
           p \in connected' => p \in connected,
           Len(announced') \in Nat, Len(announced) <= Len(announced'),
           task'.n = task.n, task'.at = "peers" => task.at = "peers",
           status' \in Nat, status <= status',
           HasMessage(p)' => HasMessage(p) /\ status' = status,
           p \in connected' /\ HasMessage(p) => HasMessage(p)' /\ status' = status,
           p \in connected' /\ AwaitsList(p) => AwaitsList(p)' \/ task.n \in Lost',
           Lost \subseteq Lost'
    PROVE  OrderInv(p)' /\ CompleteInv(p)'
  <1>1. PICK d \in Seq(Nat) : d = delivered[p] /\ d = delivered'[p]
    BY DEF OrderInv
  <1>2. PICK st \in Nat, st2 \in Nat : st = status /\ st2 = status' /\ st <= st2
    BY DEF ChannelInv
  <1>3. \A k \in DOMAIN d : d[k] \in Nat
    BY <1>1, LenProperties, ElementOfSeq
  <1>4. Increasing(d, DOMAIN d) /\ \A k \in DOMAIN d : d[k] > 0 /\ d[k] <= st
    BY <1>1, <1>2 DEF OrderInv
  <1>5. \A k \in DOMAIN d : HasMessage(p)' => d[k] < st2
    BY <1>1, <1>2 DEF OrderInv
  <1>6. \A k \in DOMAIN d : task'.at = "peers" => d[k] < task'.n
    BY <1>1 DEF OrderInv
  <1>7. \A k \in DOMAIN d : d[k] > 0 /\ d[k] <= st2
    BY <1>2, <1>3, <1>4
  <1>8. OrderInv(p)'
    BY <1>1, <1>2, <1>4, <1>5, <1>6, <1>7 DEF OrderInv
  <1>9. joined'[p] \in 0 .. Len(announced')
    <2>1. Len(announced) \in Nat
      BY LenProperties DEF BacklogInv
    <2>2. QED
      BY <2>1 DEF CompleteInv
  <1>10. ASSUME p \in connected', NEW n \in joined'[p] + 1 .. task'.n
         PROVE  \/ WasSent(p, n)' \/ n \in Lost'
                \/ HasMessage(p)' /\ n = status'
                \/ AwaitsList(p)' /\ n = task'.n
    <2>1. \/ WasSent(p, n) \/ n \in Lost
          \/ HasMessage(p) /\ n = status
          \/ AwaitsList(p) /\ n = task.n
      BY <1>10 DEF CompleteInv
    <2>2. WasSent(p, n) => WasSent(p, n)'
      BY DEF WasSent
    <2>3. QED
      BY <1>10, <2>1, <2>2
  <1>11. QED
    BY <1>8, <1>9, <1>10 DEF CompleteInv

\* No message is in the channel of commands that has none.
LEMMA NoMessage ==
    ASSUME \A i \in DOMAIN commands : ~Is(i, "block") PROVE \A p \in Peer : ~HasMessage(p)
  BY DEF HasMessage

\* recv: the block in hand is newer than everything the sessions were sent.
LEMMA RecvKeepsSession ==
    ASSUME BacklogInv, ChannelInv, NEW p \in Peer, OrderInv(p), CompleteInv(p), recv
    PROVE  OrderInv(p)' /\ CompleteInv(p)'
  <1>1. PICK n \in Nat, L \in Nat :
          /\ n = task.n + 1 /\ task' = [at |-> "peers", n |-> n] /\ task.at = "recv"
          /\ UNCHANGED <<reply, status, sessionVars>>
          /\ L = Len(commands) /\ commands' \in Seq(AnyCommand)
          /\ DOMAIN commands \subseteq Nat \ {0} /\ DOMAIN commands' \subseteq Nat \ {0}
          /\ \A i \in DOMAIN commands : i <= L /\ i \in DOMAIN commands' /\ commands'[i] = commands[i]
          /\ L + 1 \in DOMAIN commands' /\ commands'[L + 1] = StatusUpdate(n)
          /\ L + 2 \in DOMAIN commands' /\ commands'[L + 2] = GetPeers
          /\ \A k \in DOMAIN commands' : k \in DOMAIN commands \/ k = L + 1 \/ k = L + 2
    BY RecvCommands
  <1>2. UNCHANGED <<reply, status, connected, joined, delivered, announced, failed>>
    BY <1>1 DEF recv, sessionVars
  <1>3. reply = {} /\ status = task.n
    BY <1>1, AnsweredChannel
  <1>4. HasMessage(p)' <=> HasMessage(p)
    <2>1. \A i \in DOMAIN commands' : Is(i, "block")' => i \in DOMAIN commands
      BY <1>1 DEF Is, StatusUpdate, GetPeers
    <2>2. QED
      BY <1>1, <2>1 DEF HasMessage, Is
  <1>5. AwaitsList(p)' /\ task'.n = n /\ Lost' = Lost /\ ~AwaitsList(p)
    BY <1>1, <1>2, <1>3 DEF AwaitsList, Lost, Err
  <1>6. \A k \in DOMAIN delivered[p] : delivered[p][k] \in Nat
    BY LenProperties, ElementOfSeq DEF OrderInv
  <1>7. OrderInv(p)'
    BY <1>1, <1>2, <1>3, <1>4, <1>5, <1>6 DEF OrderInv, BacklogInv
  <1>8. ASSUME p \in connected', NEW m \in joined'[p] + 1 .. task'.n
         PROVE  \/ WasSent(p, m)' \/ m \in Lost'
                \/ HasMessage(p)' /\ m = status'
                \/ AwaitsList(p)' /\ m = task'.n
    <2>1. CASE m = n
      BY <1>5, <2>1
    <2>2. CASE m # n
      <3>1. m \in joined[p] + 1 .. task.n
        <4>1. joined'[p] = joined[p] /\ joined[p] \in Int /\ task.n \in Int
          BY <1>2 DEF BacklogInv, CompleteInv
        <4>2. task'.n = task.n + 1 /\ n = task.n + 1
          BY <1>1, <1>5
        <4>3. QED
          BY <2>2, <4>1, <4>2
      <3>2. \/ WasSent(p, m) \/ m \in Lost
            \/ HasMessage(p) /\ m = status
        BY <1>2, <1>5, <1>8, <3>1 DEF CompleteInv
      <3>3. WasSent(p, m) => WasSent(p, m)'
        BY <1>2 DEF WasSent
      <3>4. QED
        BY <1>2, <1>4, <1>5, <3>2, <3>3
    <2>3. QED
      BY <2>1, <2>2
  <1>9. CompleteInv(p)'
    BY <1>2, <1>8 DEF CompleteInv
  <1>10. QED
    BY <1>7, <1>9

\* send_eth_messages: the peers of the list are those it is awaited for.
LEMMA SendKeepsSession ==
    ASSUME BacklogInv, ChannelInv, NEW p \in Peer, OrderInv(p), CompleteInv(p), send_eth_messages
    PROVE  OrderInv(p)' /\ CompleteInv(p)'
  <1>1. PICK s \in SUBSET Peer, msgs \in Seq(AnyCommand) :
           /\ reply = {Ok(s)} /\ commands' = commands \o msgs
           /\ \A j \in DOMAIN msgs : msgs[j] \in {EthMessage(q, task.n) : q \in s}
           /\ \A q \in s : \E j \in DOMAIN msgs : msgs[j] = EthMessage(q, task.n)
    BY MessagesOfTask, Zenon
  <1>2. /\ task.at = "peers" /\ task' = [task EXCEPT !.at = "recv"] /\ reply' = {}
        /\ UNCHANGED <<status, connected, joined, delivered, announced, failed>>
    BY DEF send_eth_messages, TaskAt, sessionVars
  <1>3. task'.at = "recv" /\ task'.n = task.n /\ task.n \in Nat \ {0}
    BY <1>2 DEF BacklogInv
  <1>4. (\A i \in DOMAIN commands : Is(i, "shutdown")) /\ status = task.n
    BY <1>1, AnsweredChannel
  <1>5. ~HasMessage(p)
    BY <1>4 DEF HasMessage, Is
  <1>6. p \in s <=> AwaitsList(p)
    BY <1>1, <1>2 DEF AwaitsList, Ok
  <1>7. p \in s => HasMessage(p)'
    <2> SUFFICES ASSUME p \in s PROVE HasMessage(p)'
      OBVIOUS
    <2>1. PICK j \in DOMAIN msgs : msgs[j] = EthMessage(p, task.n)
      BY <1>1
    <2>2. PICK u : u = commands \o msgs
      OBVIOUS
    <2>3. Len(commands) + j \in DOMAIN u /\ u[Len(commands) + j] = msgs[j]
      BY <2>2, ConcatPositions DEF ChannelInv
    <2>4. PICK k \in DOMAIN commands' : commands'[k] = EthMessage(p, task.n)
      BY <1>1, <2>1, <2>2, <2>3, Zenon
    <2>5. QED
      BY <2>4 DEF HasMessage, Is, EthMessage
  <1>8. Lost' = failed' /\ Lost = failed
    <2>1. Ok(s).error = FALSE /\ Err.error = TRUE
      BY DEF Ok, Err
    <2>2. reply # {Err} /\ reply' # {Err}
      BY <1>1, <1>2, <2>1
    <2>3. QED
      BY <2>2 DEF Lost
  <1>9. OrderInv(p)'
    BY <1>2, <1>3, <1>4 DEF OrderInv
  <1>10. ASSUME p \in connected', NEW m \in joined'[p] + 1 .. task'.n
         PROVE  \/ WasSent(p, m)' \/ m \in Lost'
                \/ HasMessage(p)' /\ m = status'
                \/ AwaitsList(p)' /\ m = task'.n
    <2>1. WasSent(p, m) \/ m \in Lost \/ (AwaitsList(p) /\ m = task.n)
      BY <1>2, <1>3, <1>5, <1>10 DEF CompleteInv
    <2>2. WasSent(p, m) => WasSent(p, m)'
      BY <1>2 DEF WasSent
    <2>3. QED
      BY <1>2, <1>4, <1>6, <1>7, <1>8, <2>1, <2>2
  <1>11. CompleteInv(p)'
    BY <1>2, <1>10 DEF CompleteInv
  <1>12. QED
    BY <1>9, <1>11

\* What is still there after a command of another kind has been taken.
LEMMA MessagesLeft ==
    ASSUME ChannelInv, NEW name, Command_is(name), NEW p \in Peer
    PROVE  /\ HasMessage(p)' => HasMessage(p)
           /\ name # "block" \/ commands[1].peer # p => (HasMessage(p) => HasMessage(p)')
  <1>1. /\ Is(1, name)
        /\ \A i \in DOMAIN commands' : i + 1 \in DOMAIN commands /\ commands'[i] = commands[i + 1]
        /\ \A i \in DOMAIN commands : i # 1 => i - 1 \in DOMAIN commands' /\ commands'[i - 1] = commands[i]
    BY NextCommand DEF ChannelInv
  <1>2. HasMessage(p)' => HasMessage(p)
    BY <1>1 DEF HasMessage, Is
  <1>3. ASSUME name # "block" \/ commands[1].peer # p, HasMessage(p)
        PROVE  HasMessage(p)'
    <2>1. PICK i \in DOMAIN commands : Is(i, "block") /\ commands[i].peer = p
      BY <1>3 DEF HasMessage
    <2>2. i # 1
      BY <1>1, <1>3, <2>1 DEF Is
    <2>3. i - 1 \in DOMAIN commands' /\ commands'[i - 1] = commands[i]
      BY <1>1, <2>2
    <2>4. QED
      BY <2>1, <2>3 DEF HasMessage, Is
  <1>4. QED
    BY <1>2, <1>3

\* send_to_session: the session gets the one message there is for it.
LEMMA DeliveryKeepsSession ==
    ASSUME BacklogInv, ChannelInv, NEW p \in Peer, SessionInv, send_to_session
    PROVE  OrderInv(p)' /\ CompleteInv(p)' /\ delivered'[p] \in Seq(Nat)
  <1>1. PICK msg \in AnyCommand : msg = Head(commands) /\ msg = commands[1] /\ msg.command = "block"
                                    /\ 1 \in DOMAIN commands
    BY NextCommand DEF send_to_session, ChannelInv, Is
  <1>2. msg.peer \in Peer /\ msg.n = status /\ status \in Nat \ {0}
    BY <1>1, CommandTypes DEF ChannelInv, BlocksCarryStatus, Is
  <1>3. /\ UNCHANGED <<task, reply, status, connected, joined, announced, failed>>
        /\ delivered' = IF msg.peer \in connected
                        THEN [delivered EXCEPT ![msg.peer] = Append(delivered[msg.peer], msg.n)]
                        ELSE delivered
    BY <1>1 DEF send_to_session
  <1>4. /\ HasMessage(p)' => HasMessage(p)
        /\ msg.peer # p => (HasMessage(p) => HasMessage(p)')
    BY <1>1, MessagesLeft DEF send_to_session
  <1>5. /\ AwaitsList(p)' <=> AwaitsList(p)
        /\ Lost' = Lost
    BY <1>3 DEF AwaitsList, Lost
  <1>6. OrderInv(p) /\ CompleteInv(p) /\ delivered \in [Peer -> Seq(Nat)]
    BY DEF SessionInv
  <1>7. Len(announced) \in Nat /\ status \in Nat
    BY LenProperties DEF BacklogInv, ChannelInv
  <1>8. CASE msg.peer # p \/ msg.peer \notin connected
    <2>1. delivered'[p] = delivered[p]
      BY <1>2, <1>3, <1>6, <1>8
    <2>2. p \in connected => msg.peer # p
      BY <1>8
    <2>3. OrderInv(p)' /\ CompleteInv(p)'
      BY <1>3, <1>4, <1>5, <1>6, <1>7, <2>1, <2>2, SessionKept
    <2>4. QED
      BY <1>6, <2>1, <2>3 DEF OrderInv
  <1>9. CASE msg.peer = p /\ p \in connected
    <2>1. HasMessage(p) /\ ~HasMessage(p)'
      <3>1. HasMessage(p)
        BY <1>1, <1>9 DEF HasMessage, Is
      <3>2. ASSUME HasMessage(p)' PROVE FALSE
        <4>1. PICK i \in DOMAIN commands' : Is(i, "block")' /\ commands'[i].peer = p
          BY <3>2 DEF HasMessage
        <4>2. /\ i \in Nat \ {0}
              /\ i + 1 \in DOMAIN commands /\ commands'[i] = commands[i + 1]
          BY NextCommand DEF send_to_session, ChannelInv
        <4>3. i + 1 = 1
          BY <1>1, <1>9, <4>1, <4>2 DEF ChannelInv, OnePerPeer, Is
        <4>4. QED
          BY <4>2, <4>3
      <3>3. QED
        BY <3>1, <3>2
    <2>2. PICK d \in Seq(Nat), L \in Nat : d = delivered[p] /\ L = Len(d) /\ DOMAIN d = 1 .. L
      BY <1>6, LenProperties
    <2>3. PICK e \in Seq(Nat) : e = Append(d, status) /\ e = delivered'[p]
      <3>1. delivered'[p] = Append(d, status)
        BY <1>2, <1>3, <1>6, <1>9, <2>2
      <3>2. status \in Nat
        BY <1>2
      <3>3. Append(d, status) \in Seq(Nat)
        BY <2>2, <3>2, AppendProperties
      <3>4. QED
        BY <3>1, <3>3
    <2>4. /\ Len(e) = L + 1 /\ e[L + 1] = status /\ \A k \in 1 .. L : e[k] = d[k]
      <3>1. status \in Nat
        BY <1>2
      <3>2. /\ Len(Append(d, status)) = Len(d) + 1 /\ Append(d, status)[Len(d) + 1] = status
            /\ \A k \in 1 .. Len(d) : Append(d, status)[k] = d[k]
        BY <2>2, <3>1, AppendProperties
      <3>3. QED
        BY <2>2, <2>3, <3>2, Zenon
    <2>5. DOMAIN e = 1 .. L + 1
      BY <2>4, LenProperties
    <2>6. \A k \in 1 .. L : d[k] \in Nat /\ d[k] > 0 /\ d[k] < status
      BY <1>6, <2>1, <2>2, LenProperties, ElementOfSeq DEF OrderInv
    <2>7. \A i, j \in 1 .. L : i < j => d[i] < d[j]
      BY <1>6, <2>2 DEF OrderInv, Increasing
    <2>8. task.at = "peers" => status < task.n
      BY <1>1 DEF ChannelInv, BlocksOfBefore, Is
    <2>9. Increasing(e, DOMAIN e)
      <3> SUFFICES ASSUME NEW i \in 1 .. L + 1, NEW j \in 1 .. L + 1, i < j PROVE e[i] < e[j]
        BY <2>5 DEF Increasing
      <3>1. i \in 1 .. L
        OBVIOUS
      <3>2. j = L + 1 \/ j \in 1 .. L
        OBVIOUS
      <3>3. QED
        BY <2>4, <2>6, <2>7, <3>1, <3>2
    <2>10. \A k \in 1 .. L + 1 :
             /\ e[k] > 0 /\ e[k] <= status
             /\ task.at = "peers" => e[k] < task.n
      <3> SUFFICES ASSUME NEW k \in 1 .. L + 1
                   PROVE  /\ e[k] > 0 /\ e[k] <= status
                          /\ task.at = "peers" => e[k] < task.n
        OBVIOUS
      <3>1. k = L + 1 \/ k \in 1 .. L
        OBVIOUS
      <3>2. task.n \in Nat
        BY DEF BacklogInv
      <3>3. QED
        BY <1>2, <2>4, <2>6, <2>8, <3>1, <3>2
    <2>11. OrderInv(p)'
      BY <1>3, <2>1, <2>3, <2>5, <2>9, <2>10 DEF OrderInv
    <2>12. ASSUME NEW n \in joined'[p] + 1 .. task'.n
           PROVE  WasSent(p, n)' \/ n \in Lost' \/ (AwaitsList(p)' /\ n = task'.n)
      <3>1. WasSent(p, n) \/ n \in Lost \/ n = status \/ (AwaitsList(p) /\ n = task.n)
        BY <1>3, <1>6, <1>9, <2>12 DEF CompleteInv
      <3>2. WasSent(p, n) => WasSent(p, n)'
        <4>1. \A k \in 1 .. L : k \in 1 .. L + 1
          OBVIOUS
        <4>2. QED
          BY <2>2, <2>3, <2>4, <2>5, <4>1 DEF WasSent
      <3>3. n = status => WasSent(p, n)'
        <4>1. L + 1 \in 1 .. L + 1
          OBVIOUS
        <4>2. QED
          BY <2>3, <2>4, <2>5, <4>1 DEF WasSent
      <3>4. QED
        BY <1>3, <1>5, <3>1, <3>2, <3>3
    <2>13. CompleteInv(p)'
      BY <1>3, <1>6, <2>12 DEF CompleteInv
    <2>14. QED
      BY <2>3, <2>11, <2>13
  <1>10. QED
    BY <1>8, <1>9

\* Connect: a new session was sent nothing, and owes nothing older than it.
LEMMA ConnectKeepsSession ==
    ASSUME BacklogInv, ChannelInv, NEW p \in Peer, SessionInv, NEW q \in Peer, Connect(q)
    PROVE  OrderInv(p)' /\ CompleteInv(p)'
  <1>1. /\ UNCHANGED <<task, commands, reply, status, announced, failed>>
        /\ connected' = connected \cup {q}
        /\ joined' = [joined EXCEPT ![q] = Len(announced)]
        /\ delivered' = [delivered EXCEPT ![q] = <<>>]
    BY DEF Connect
  <1>2. OrderInv(p) /\ CompleteInv(p) /\ delivered \in [Peer -> Seq(Nat)] /\ joined \in [Peer -> Nat]
    BY DEF SessionInv
  <1>3. Len(announced) \in Nat /\ status \in Nat
    BY LenProperties DEF BacklogInv, ChannelInv
  <1>4. CASE p = q
    <2>1. delivered'[p] = <<>> /\ joined'[p] = Len(announced)
      BY <1>1, <1>2, <1>4
    <2>2. DOMAIN delivered'[p] = {} /\ delivered'[p] \in Seq(Nat)
      BY <2>1
    <2>3. OrderInv(p)'
      BY <2>2 DEF OrderInv, Increasing
    <2>4. \A n \in joined'[p] + 1 .. task'.n : FALSE
      BY <1>1, <1>3, <2>1 DEF BacklogInv
    <2>5. CompleteInv(p)'
      BY <1>1, <1>3, <2>1, <2>4 DEF CompleteInv
    <2>6. QED
      BY <2>3, <2>5
  <1>5. CASE p # q
    <2>1. delivered'[p] = delivered[p] /\ joined'[p] = joined[p] /\ (p \in connected' => p \in connected)
      BY <1>1, <1>2, <1>5
    <2>2. HasMessage(p)' = HasMessage(p) /\ AwaitsList(p)' = AwaitsList(p) /\ Lost' = Lost
      BY <1>1 DEF HasMessage, Is, AwaitsList, Lost
    <2>3. QED
      BY <1>1, <1>2, <1>3, <2>1, <2>2, SessionKept
  <1>6. QED
    BY <1>4, <1>5

\* The manager's other steps: what is on its way is, or is lost with its list.
LEMMA ManagerKeepsSession ==
    ASSUME BacklogInv, ChannelInv, NEW p \in Peer, OrderInv(p), CompleteInv(p),
           apply_status \/ answer_peers \/ disconnect_all
    PROVE  OrderInv(p)' /\ CompleteInv(p)'
  <1>1. UNCHANGED <<task, joined, delivered, announced, failed>>
    BY DEF apply_status, answer_peers, disconnect_all, sessionVars
  <1>2. Len(announced) \in Nat /\ status \in Nat /\ status <= task.n /\ task.n \in Nat
    BY LenProperties DEF BacklogInv, ChannelInv
  <1>3. CASE apply_status
    <2>1. Command_is("status") /\ status' = Head(commands).n /\ UNCHANGED <<reply, connected>>
      BY <1>3 DEF apply_status, sessionVars
    <2>2. 1 \in DOMAIN commands /\ Is(1, "status") /\ Head(commands) = commands[1]
             /\ DOMAIN commands \subseteq Nat \ {0}
      BY <2>1, NextCommand DEF ChannelInv
    <2>3. status' = task.n
      BY <2>1, <2>2 DEF ChannelInv, StatusPending
    <2>4. \A i \in DOMAIN commands : ~Is(i, "block")
      <3> SUFFICES ASSUME NEW i \in DOMAIN commands, Is(i, "block") PROVE FALSE
        OBVIOUS
      <3>1. i < 1 /\ i \in Nat \ {0}
        BY <2>2 DEF ChannelInv, BlocksBeforeStatus
      <3>2. QED
        BY <3>1
    <2>5. ~HasMessage(p) /\ ~HasMessage(p)'
      BY <2>1, <2>4, MessagesLeft DEF HasMessage
    <2>6. (AwaitsList(p)' <=> AwaitsList(p)) /\ Lost' = Lost
      BY <1>1, <2>1 DEF AwaitsList, Lost
    <2>7. QED
      BY <1>1, <1>2, <2>1, <2>3, <2>5, <2>6, SessionKept
  <1>4. CASE answer_peers
    <2>1. /\ Command_is("peers") /\ UNCHANGED <<status, connected>>
          /\ reply' = {Ok(connected)} \/ reply' = {Err}
      BY <1>4 DEF answer_peers, sessionVars
    <2>2. HasMessage(p)' <=> HasMessage(p)
      BY <2>1, MessagesLeft
    <2>3. 1 \in DOMAIN commands /\ Is(1, "peers")
      BY <2>1, NextCommand DEF ChannelInv
    <2>4. reply = {}
      BY <2>3 DEF ChannelInv, PeersPending
    <2>5. Lost = failed
      BY <2>4, Zenon DEF Lost
    <2>6. p \in connected /\ AwaitsList(p) => AwaitsList(p)' \/ task.n \in Lost'
      <3>1. CASE reply' = {Ok(connected)}
        BY <1>1, <3>1 DEF AwaitsList, Ok
      <3>2. CASE reply' = {Err}
        BY <1>1, <3>2 DEF Lost
      <3>3. QED
        BY <2>1, <3>1, <3>2
    <2>7. Lost \subseteq Lost'
      BY <1>1, <2>5 DEF Lost
    <2>8. QED
      BY <1>1, <1>2, <2>1, <2>2, <2>6, <2>7, SessionKept
  <1>5. CASE disconnect_all
    <2>1. Command_is("shutdown") /\ UNCHANGED <<status, reply>> /\ connected' = {}
      BY <1>5 DEF disconnect_all
    <2>2. HasMessage(p)' <=> HasMessage(p)
      BY <2>1, MessagesLeft
    <2>3. (AwaitsList(p)' <=> AwaitsList(p)) /\ Lost' = Lost
      BY <1>1, <2>1 DEF AwaitsList, Lost
    <2>4. QED
      BY <1>1, <1>2, <2>1, <2>2, <2>3, SessionKept
  <1>6. QED
    BY <1>3, <1>4, <1>5

\* The task's other steps: the block of a list that could not be had is lost.
LEMMA TaskKeepsSession ==
    ASSUME BacklogInv, ChannelInv, NEW p \in Peer, OrderInv(p), CompleteInv(p),
           get_all_peers_failed \/ task_stops
    PROVE  OrderInv(p)' /\ CompleteInv(p)'
  <1>1. UNCHANGED <<commands, status, connected, joined, delivered, announced>>
    BY DEF get_all_peers_failed, task_stops, sessionVars
  <1>2. Len(announced) \in Nat /\ status \in Nat /\ task.n \in Nat
    BY LenProperties DEF BacklogInv, ChannelInv
  <1>3. HasMessage(p)' <=> HasMessage(p)
    BY <1>1 DEF HasMessage, Is
  <1>4. task'.at # "peers" /\ task'.n = task.n
    BY DEF get_all_peers_failed, task_stops, after_error, BacklogInv
  <1>5. Lost \subseteq Lost' /\ ~AwaitsList(p)
    <2>1. CASE get_all_peers_failed
      <3>1. reply = {Err} /\ failed' = failed \cup {task.n}
        BY <2>1 DEF get_all_peers_failed
      <3>2. Lost \subseteq Lost'
        BY <3>1 DEF Lost
      <3>3. ~AwaitsList(p)
        BY <3>1 DEF AwaitsList, Err
      <3>4. QED
        BY <3>2, <3>3
    <2>2. CASE task_stops
      <3>1. task.at = "recv" /\ UNCHANGED <<reply, failed>>
        BY <2>2 DEF task_stops, TaskAt
      <3>2. Lost' = Lost
        BY <1>4, <3>1 DEF Lost
      <3>3. ~AwaitsList(p)
        BY <3>1 DEF AwaitsList
      <3>4. QED
        BY <3>2, <3>3
    <2>3. QED
      BY <2>1, <2>2
  <1>6. QED
    BY <1>1, <1>2, <1>3, <1>4, <1>5, SessionKept

\* Announcements, disconnects and the shutdown: nothing on its way is touched.
LEMMA OthersKeepSession ==
    ASSUME BacklogInv, ChannelInv, NEW p \in Peer, OrderInv(p), CompleteInv(p),
           \/ \E q \in Peer : Disconnect(q)
           \/ \E block \in Block : ImportBlock(block)
           \/ handle_request \/ Main \/ ctrl_c \/ UNCHANGED vars
    PROVE  OrderInv(p)' /\ CompleteInv(p)'
  <1>1. UNCHANGED <<task, reply, status, joined, delivered, failed>> /\ connected' \subseteq connected
    BY DEF Disconnect, ImportBlock, handle_request, Main, stop_network, main_returns, ctrl_c, vars, sessionVars
  <1>2. Len(announced) \in Nat /\ status \in Nat
    BY LenProperties DEF BacklogInv, ChannelInv
  <1>3. Len(announced') \in Nat /\ Len(announced) <= Len(announced')
    <2>1. CASE \E block \in Block : ImportBlock(block)
      <3>1. PICK block \in Block : announced' = Append(announced, block)
        BY <2>1 DEF ImportBlock
      <3>2. Len(announced') = Len(announced) + 1
        BY <3>1, AppendProperties DEF BacklogInv
      <3>3. QED
        BY <1>2, <3>2
    <2>2. CASE ~(\E block \in Block : ImportBlock(block))
      <3>1. announced' = announced
        BY <2>2 DEF Disconnect, handle_request, Main, stop_network, main_returns, ctrl_c, vars
      <3>2. QED
        BY <1>2, <3>1
    <2>3. QED
      BY <2>1, <2>2
  <1>4. commands' = commands \/ commands' = Append(commands, ShutdownCommand)
    BY DEF Disconnect, ImportBlock, handle_request, Main, stop_network, main_returns, ctrl_c, vars
  <1>5. HasMessage(p)' <=> HasMessage(p)
    <2>1. CASE commands' = commands
      BY <2>1 DEF HasMessage, Is
    <2>2. CASE commands' = Append(commands, ShutdownCommand)
      <3>1. PICK L \in Nat : L = Len(commands) /\ DOMAIN commands = 1 .. L
        BY LenProperties DEF ChannelInv
      <3>2. ShutdownCommand \in AnyCommand
        BY DEF AnyCommand
      <3>3. /\ commands' \in Seq(AnyCommand) /\ Len(commands') = L + 1
            /\ \A i \in 1 .. L : commands'[i] = commands[i]
            /\ commands'[L + 1] = ShutdownCommand
        BY <2>2, <3>1, <3>2, AppendProperties DEF ChannelInv
      <3>4. DOMAIN commands' = 1 .. L + 1
        BY <3>3, LenProperties
      <3>5. \A i \in 1 .. L + 1 : i \in 1 .. L \/ i = L + 1
        OBVIOUS
      <3>6. \A i \in 1 .. L : i \in 1 .. L + 1
        OBVIOUS
      <3>7. QED
        BY <3>1, <3>3, <3>4, <3>5, <3>6 DEF HasMessage, Is, ShutdownCommand
    <2>3. QED
      BY <1>4, <2>1, <2>2
  <1>6. (AwaitsList(p)' <=> AwaitsList(p)) /\ Lost' = Lost
    BY <1>1 DEF AwaitsList, Lost
  <1>7. QED
    BY <1>1, <1>2, <1>3, <1>5, <1>6, SessionKept

\* Every step keeps every session in order and complete.
LEMMA NextKeepsSession == BacklogInv /\ ChannelInv /\ SessionInv /\ [Next]_vars => SessionInv'
  <1> SUFFICES ASSUME BacklogInv, ChannelInv, SessionInv, [Next]_vars PROVE SessionInv'
    OBVIOUS
  <1>1. ASSUME NEW p \in Peer PROVE OrderInv(p)' /\ CompleteInv(p)'
    <2>1. OrderInv(p) /\ CompleteInv(p)
      BY DEF SessionInv
    <2>2. CASE Manager
      BY <2>1, <2>2, ManagerKeepsSession, DeliveryKeepsSession DEF Manager
    <2>3. CASE Task
      BY <2>1, <2>3, RecvKeepsSession, SendKeepsSession, TaskKeepsSession DEF Task
    <2>4. CASE \E q \in Peer : Connect(q)
      BY <2>4, ConnectKeepsSession
    <2>5. CASE \/ \E q \in Peer : Disconnect(q)
               \/ \E block \in Block : ImportBlock(block)
               \/ handle_request \/ Main \/ ctrl_c \/ UNCHANGED vars
      BY <2>1, <2>5, OthersKeepSession
    <2>6. QED
      BY <2>2, <2>3, <2>4, <2>5 DEF Next
  <1>2. /\ \/ delivered' = delivered
           \/ \E q \in Peer, s \in Seq(Nat) : delivered' = [delivered EXCEPT ![q] = s]
        /\ \/ joined' = joined
           \/ \E q \in Peer, m \in Nat : joined' = [joined EXCEPT ![q] = m]
    <2>1. CASE \E q \in Peer : Connect(q)
      <3>1. PICK q \in Peer : /\ joined' = [joined EXCEPT ![q] = Len(announced)]
                              /\ delivered' = [delivered EXCEPT ![q] = <<>>]
        BY <2>1 DEF Connect
      <3>2. Len(announced) \in Nat /\ <<>> \in Seq(Nat)
        BY LenProperties DEF BacklogInv
      <3>3. QED
        BY <3>1, <3>2
    <2>2. CASE send_to_session
      <3>1. PICK msg \in AnyCommand : msg = Head(commands) /\ msg = commands[1] /\ Is(1, "block")
                                         /\ 1 \in DOMAIN commands
        BY <2>2, NextCommand DEF send_to_session, ChannelInv
      <3>2. msg.peer \in Peer /\ msg.n \in Nat
        BY <3>1, CommandTypes DEF Is
      <3>3. Append(delivered[msg.peer], msg.n) \in Seq(Nat)
        <4>1. PICK d \in Seq(Nat), m \in Nat : d = delivered[msg.peer] /\ m = msg.n
          BY <3>2 DEF SessionInv
        <4>2. Append(d, m) \in Seq(Nat)
          BY <4>1, AppendProperties
        <4>3. QED
          BY <4>1, <4>2
      <3>4. /\ joined' = joined
            /\ delivered' = delivered
               \/ delivered' = [delivered EXCEPT ![msg.peer] = Append(delivered[msg.peer], msg.n)]
        BY <2>2, <3>1 DEF send_to_session
      <3>5. QED
        BY <3>2, <3>3, <3>4
    <2>3. CASE ~send_to_session /\ ~\E q \in Peer : Connect(q)
      BY <2>3 DEF Next, Manager, Task, Main, Disconnect, ImportBlock, handle_request, apply_status, answer_peers,
                  disconnect_all, recv, send_eth_messages, get_all_peers_failed, task_stops,
                  stop_network, main_returns, ctrl_c, vars, sessionVars
    <2>4. QED
      BY <2>1, <2>2, <2>3
  <1>3. delivered' \in [Peer -> Seq(Nat)] /\ joined' \in [Peer -> Nat]
    BY <1>2 DEF SessionInv
  <1>4. QED
    BY <1>1, <1>3 DEF SessionInv

\* Backlog, channel and sessions at every step, from the start on.
LEMMA SessionHolds == Spec => [](BacklogInv /\ ChannelInv /\ SessionInv)
  <1>1. Init => SessionInv
    <2> SUFFICES ASSUME Init PROVE SessionInv
      OBVIOUS
    <2>1. /\ joined = [p \in Peer |-> 0] /\ delivered = [p \in Peer |-> <<>>]
          /\ connected = {} /\ announced = <<>>
      BY DEF Init
    <2>2. ASSUME NEW p \in Peer PROVE OrderInv(p) /\ CompleteInv(p)
      <3>1. delivered[p] = <<>> /\ joined[p] = 0
        BY <2>1
      <3>2. DOMAIN delivered[p] = {} /\ delivered[p] \in Seq(Nat) /\ Len(announced) = 0
        BY <2>1, <3>1
      <3>3. OrderInv(p)
        BY <3>2 DEF OrderInv, Increasing
      <3>4. CompleteInv(p)
        BY <2>1, <3>1, <3>2 DEF CompleteInv
      <3>5. QED
        BY <3>3, <3>4
    <2>3. delivered \in [Peer -> Seq(Nat)] /\ joined \in [Peer -> Nat]
      BY <2>1
    <2>4. QED
      BY <2>2, <2>3 DEF SessionInv
  <1>2. BacklogInv /\ ChannelInv /\ SessionInv /\ [Next]_vars => SessionInv'
    BY NextKeepsSession
  <1>3. QED
    BY <1>1, <1>2, ChannelHolds, PTL DEF Spec

(***************************************************************************)
(* Every peer gets every announcement once and in order, whatever the      *)
(* number of peers, announcements and disconnects: none is repeated,       *)
(* overtaken or missing in a session, except those whose peer list could   *)
(* not be had. A block announced twice is two announcements, and sent      *)
(* twice (rebroadcast_new_blocks of network.rs).                           *)
(***************************************************************************)
THEOREM AnnouncementsOnceInOrder == Spec => []EachAnnouncementOnceInOrder
  <1>1. BacklogInv /\ ChannelInv /\ SessionInv => EachAnnouncementOnceInOrder
    <2> SUFFICES ASSUME BacklogInv, ChannelInv, SessionInv, NEW p \in connected
                 PROVE  /\ Increasing(delivered[p], DOMAIN delivered[p])
                        /\ Increasing([i \in MessagesTo(p) |-> commands[i].n], MessagesTo(p))
                        /\ Before(ToSet(delivered[p]), InChannel(p) \cup HeldFor(p) \cup Queued)
                        /\ Before(InChannel(p), HeldFor(p) \cup Queued)
                        /\ Before(HeldFor(p), Queued)
                        /\ (joined[p] + 1) .. Len(announced)
                              \subseteq ToSet(delivered[p]) \cup InChannel(p) \cup HeldFor(p)
                                          \cup Queued \cup Lost
      BY DEF EachAnnouncementOnceInOrder, Lost
    <2>1. p \in Peer /\ OrderInv(p) /\ CompleteInv(p)
      BY DEF ChannelInv, SessionInv
    <2>2. PICK t \in Nat, N \in Nat : t = task.n /\ N = Len(announced) /\ t <= N
      BY LenProperties DEF BacklogInv
    <2>3. status \in Nat /\ status <= t
      BY <2>2 DEF ChannelInv
    <2>4. /\ \A n \in InChannel(p) : HasMessage(p) /\ n = status
          /\ HasMessage(p) => status \in InChannel(p)
      BY DEF InChannel, MessagesTo, HasMessage, Is, ChannelInv, BlocksCarryStatus
    <2>5. /\ \A n \in HeldFor(p) : AwaitsList(p) /\ n = t
          /\ AwaitsList(p) => t \in HeldFor(p)
      BY <2>2 DEF HeldFor, AwaitsList
    <2>6. DOMAIN rebroadcast_rx = 1 .. N - t
      <3>1. /\ rebroadcast_rx \in Seq(Block) /\ Len(rebroadcast_rx) = N - t
        BY <2>2, RestOfSeq DEF BacklogInv
      <3>2. QED
        BY <3>1, LenProperties
    <2>7. \A n \in Queued : n \in Nat /\ n > t
      BY <2>2, <2>6 DEF Queued
    <2>8. \A n \in t + 1 .. N : n \in Queued
      <3> SUFFICES ASSUME NEW n \in t + 1 .. N PROVE n \in Queued
        OBVIOUS
      <3>1. n - t \in 1 .. N - t /\ n = t + (n - t)
        BY <2>2
      <3>2. QED
        BY <2>2, <2>6, <3>1 DEF Queued
    <2>9. \A m \in ToSet(delivered[p]) :
             /\ m \in Nat /\ m <= status
             /\ HasMessage(p) => m < status
             /\ AwaitsList(p) => m < t
      <3>1. \A k \in DOMAIN delivered[p] : delivered[p][k] \in Nat
        BY <2>1, LenProperties, ElementOfSeq DEF OrderInv
      <3>2. QED
        BY <2>1, <2>2, <3>1 DEF OrderInv, ToSet, AwaitsList
    <2>10. HasMessage(p) /\ AwaitsList(p) => status < t
      BY <2>2 DEF ChannelInv, BlocksOfBefore, HasMessage, AwaitsList
    <2>11. Increasing(delivered[p], DOMAIN delivered[p])
      BY <2>1 DEF OrderInv
    <2>12. Increasing([i \in MessagesTo(p) |-> commands[i].n], MessagesTo(p))
      <3> SUFFICES ASSUME NEW i \in MessagesTo(p), NEW j \in MessagesTo(p), i < j PROVE FALSE
        BY DEF Increasing
      <3>1. i = j
        BY DEF MessagesTo, ChannelInv, OnePerPeer, Is
      <3>2. i \in Nat
        BY LenProperties DEF MessagesTo, ChannelInv
      <3>3. QED
        BY <3>1, <3>2
    <2>13. Before(ToSet(delivered[p]), InChannel(p) \cup HeldFor(p) \cup Queued)
      BY <2>2, <2>3, <2>4, <2>5, <2>7, <2>9 DEF Before
    <2>14. Before(InChannel(p), HeldFor(p) \cup Queued)
      BY <2>2, <2>3, <2>4, <2>5, <2>7, <2>10 DEF Before
    <2>15. Before(HeldFor(p), Queued)
      BY <2>2, <2>5, <2>7 DEF Before
    <2>16. ASSUME NEW n \in (joined[p] + 1) .. N
           PROVE  n \in ToSet(delivered[p]) \cup InChannel(p) \cup HeldFor(p) \cup Queued \cup Lost
      <3>1. CASE n <= t
        <4>1. n \in joined[p] + 1 .. task.n
          BY <2>1, <2>2, <3>1 DEF CompleteInv
        <4>2. \/ WasSent(p, n) \/ n \in Lost
              \/ HasMessage(p) /\ n = status
              \/ AwaitsList(p) /\ n = task.n
          BY <2>1, <4>1 DEF CompleteInv
        <4>3. WasSent(p, n) => n \in ToSet(delivered[p])
          BY DEF WasSent, ToSet
        <4>4. QED
          BY <2>2, <2>4, <2>5, <4>2, <4>3
      <3>2. CASE ~(n <= t)
        <4>1. joined[p] \in Nat
          BY <2>1 DEF SessionInv
        <4>2. n \in t + 1 .. N
          BY <2>2, <3>2, <4>1
        <4>3. QED
          BY <2>8, <4>2
      <3>3. QED
        BY <3>1, <3>2
    <2>17. QED
      BY <2>2, <2>11, <2>12, <2>13, <2>14, <2>15, <2>16
  <1>2. QED
    BY <1>1, SessionHolds, PTL

(***************************************************************************)
(* A peer is sent a block only while the status shows that block, whatever *)
(* the number of announcements queued: update_status goes into the channel *)
(* before the list is awaited (rebroadcast_new_blocks of network.rs).      *)
(***************************************************************************)
THEOREM OwnStatusShown == Spec => SentUnderItsOwnStatus
  <1>1. BacklogInv /\ ChannelInv /\ SessionInv /\ [Next]_vars =>
          [\A p \in Peer : Len(delivered'[p]) > Len(delivered[p]) => status = Last(delivered'[p])]_vars
    <2> SUFFICES ASSUME BacklogInv, ChannelInv, SessionInv, Next, NEW p \in Peer,
                        Len(delivered'[p]) > Len(delivered[p])
                 PROVE  status = Last(delivered'[p])
      OBVIOUS
    <2>1. delivered[p] \in Seq(Nat) /\ Len(delivered[p]) \in Nat
      BY LenProperties DEF SessionInv
    <2>2. delivered'[p] # delivered[p]
      BY <2>1
    <2>3. ASSUME NEW q \in Peer, Connect(q) PROVE FALSE
      <3>1. delivered' = [delivered EXCEPT ![q] = <<>>]
        BY <2>3 DEF Connect
      <3>2. delivered'[p] = <<>>
        BY <2>2, <3>1 DEF SessionInv
      <3>3. Len(delivered'[p]) = 0
        BY <3>2
      <3>4. QED
        BY <2>1, <3>3
    <2>4. send_to_session
      BY <2>2, <2>3
         DEF Next, Manager, Task, Main, Disconnect, ImportBlock, handle_request, apply_status, answer_peers,
             disconnect_all, recv, send_eth_messages, get_all_peers_failed, task_stops,
             stop_network, main_returns, ctrl_c, sessionVars
    <2>5. PICK msg \in AnyCommand : msg = Head(commands) /\ msg = commands[1] /\ Is(1, "block")
                                       /\ 1 \in DOMAIN commands
      BY <2>4, NextCommand DEF send_to_session, ChannelInv
    <2>6. msg.peer \in Peer /\ msg.n = status /\ status \in Nat
      BY <2>5, CommandTypes DEF Is, ChannelInv, BlocksCarryStatus
    <2>7. delivered' = [delivered EXCEPT ![msg.peer] = Append(delivered[msg.peer], msg.n)]
      BY <2>2, <2>4, <2>5 DEF send_to_session
    <2>8. delivered'[p] = Append(delivered[p], status)
      BY <2>2, <2>6, <2>7 DEF SessionInv
    <2>9. PICK d \in Seq(Nat), st \in Nat : d = delivered[p] /\ st = status
      BY <2>1, <2>6
    <2>10. Append(d, st)[Len(Append(d, st))] = st
      BY <2>9, AppendProperties
    <2>11. QED
      BY <2>8, <2>9, <2>10, Zenon DEF Last
  <1>2. QED
    BY <1>1, SessionHolds, PTL DEF Spec, SentUnderItsOwnStatus

-----------------------------------------------------------------------------
(***************************************************************************)
(* The cache.                                                              *)
(***************************************************************************)

\* A new cache.
LEMMA NewIsBlockCache ==
    ASSUME NEW n \in Nat
    PROVE  IsBlockCache(new(n))
  <1>1. PICK d : d = new(n)
    OBVIOUS
  <1>2. /\ d.capacity = n /\ d.headers_by_hash = LruEmpty /\ d.headers_by_number = LruEmpty
        /\ d.hash_by_number = LruEmpty /\ d.bodies_by_hash = LruEmpty
        /\ IsCacheRecord(d)
    BY <1>1 DEF new, IsCacheRecord
  <1>3. QED
    BY <1>1, <1>2, EmptyIsLru DEF IsBlockCache

\* The shared cache.
CacheInv == IsBlockCache(cache) /\ uses \in 0 .. MaxUses

\* The import and the request handler keep the shared cache a cache.
LEMMA CacheHolds == Spec => []CacheInv
  <1>1. Init => CacheInv
    BY NewIsBlockCache DEF Init, CacheInv
  <1>2. CacheInv /\ [Next]_vars => CacheInv'
    <2> SUFFICES ASSUME IsBlockCache(cache), uses \in 0 .. MaxUses, [Next]_vars
                 PROVE  IsBlockCache(cache') /\ uses' \in 0 .. MaxUses
      BY DEF CacheInv
    <2>1. ASSUME NEW b \in Block, ImportBlock(b)
          PROVE  IsBlockCache(cache') /\ uses' \in 0 .. MaxUses
      <3>1. PICK c : c = insert_header(cache, b, b)
        OBVIOUS
      <3>2. IsBlockCache(c)
        BY <3>1, UpdateKeepsTypes DEF Updated
      <3>3. cache' = insert_body(c, b, b)
        BY <2>1, <3>1 DEF ImportBlock, on_new_block, insert
      <3>4. uses' = uses
        BY <2>1 DEF ImportBlock
      <3>5. QED
        BY <3>2, <3>3, <3>4, UpdateKeepsTypes DEF Updated
    <2>2. CASE handle_request
      <3>1. \A b \in Block : NumberOf[b] \in Nat
        OBVIOUS
      <3>2. cache' \in Updated(cache)
        BY <2>2, <3>1 DEF handle_request, Updated
      <3>3. uses' \in 0 .. MaxUses
        BY <2>2 DEF handle_request
      <3>4. QED
        BY <3>2, <3>3, UpdateKeepsTypes
    <2>3. CASE UNCHANGED cacheVars
      BY <2>3 DEF cacheVars
    <2>4. QED
      BY <2>1, <2>2, <2>3
         DEF Next, Connect, Disconnect, Manager, Task, Main, apply_status, answer_peers,
             send_to_session, disconnect_all, recv, send_eth_messages, get_all_peers_failed,
             task_stops, stop_network, main_returns, ctrl_c, vars
  <1>3. QED
    BY <1>1, <1>2, PTL DEF Spec

(***************************************************************************)
(* Types, for any constants: in particular the task never counts past what *)
(* was announced, and the backlog is the end of the announcements.         *)
(***************************************************************************)
THEOREM RebroadcastTypeCorrect == Spec => []TypeOK
  <1>1. BacklogInv /\ ChannelInv /\ SessionInv /\ CacheInv => TypeOK
    <2> SUFFICES ASSUME BacklogInv, ChannelInv, SessionInv, CacheInv PROVE TypeOK
      OBVIOUS
    <2>1. PICK N \in Nat : N = Len(announced) /\ Announcements = 1 .. N
      BY LenProperties DEF BacklogInv, Announcements
    <2>2. task.n \in 0 .. N /\ status \in 0 .. N
      BY <2>1 DEF BacklogInv, ChannelInv
    <2>3. commands \in Seq(Command)
      <3>1. PICK L \in Nat : L = Len(commands) /\ DOMAIN commands = 1 .. L
                                /\ commands \in [1 .. L -> AnyCommand]
        BY LenProperties DEF ChannelInv
      <3>2. ASSUME NEW i \in 1 .. L PROVE commands[i] \in Command
        <4>1. commands[i] \in AnyCommand
          BY <3>1
        <4>2. CASE commands[i] \in [command : {"status"}, n : Nat]
          <5>1. Is(i, "status")
            BY <4>2 DEF Is
          <5>2. commands[i].n = task.n /\ task.at = "peers"
            BY <3>1, <5>1 DEF ChannelInv, StatusPending
          <5>3. task.n \in 1 .. N
            BY <2>2, <5>2 DEF BacklogInv
          <5>4. commands[i] = StatusUpdate(task.n)
            BY <4>2, <5>2 DEF StatusUpdate
          <5>5. QED
            BY <2>1, <5>3, <5>4 DEF Command
        <4>3. CASE commands[i] \in [command : {"block"}, peer : Peer, n : Nat]
          <5>1. Is(i, "block")
            BY <4>3 DEF Is
          <5>2. commands[i].n = status /\ status > 0
            BY <3>1, <5>1 DEF ChannelInv, BlocksCarryStatus
          <5>3. commands[i] = EthMessage(commands[i].peer, status) /\ commands[i].peer \in Peer
            BY <4>3, <5>2 DEF EthMessage
          <5>4. status \in 1 .. N
            BY <2>2, <5>2
          <5>5. QED
            BY <2>1, <5>3, <5>4 DEF Command
        <4>4. CASE commands[i] \in {GetPeers, ShutdownCommand}
          BY <4>4 DEF Command
        <4>5. QED
          BY <4>1, <4>2, <4>3, <4>4 DEF AnyCommand
      <3>3. commands \in [1 .. L -> Command]
        BY <3>1, <3>2
      <3>4. QED
        BY <3>3, SeqDef
    <2>4. reply \subseteq {Err} \cup {Ok(peers) : peers \in SUBSET Peer}
      BY DEF ChannelInv
    <2>5. joined \in [Peer -> 0 .. Len(announced)]
      BY DEF SessionInv, CompleteInv
    <2>6. ASSUME NEW p \in Peer PROVE delivered[p] \in Seq(Announcements)
      <3>1. OrderInv(p)
        BY DEF SessionInv
      <3>2. PICK L \in Nat : L = Len(delivered[p]) /\ DOMAIN delivered[p] = 1 .. L
                                /\ delivered[p] \in [1 .. L -> Nat]
        BY <3>1, LenProperties DEF OrderInv
      <3>3. ASSUME NEW k \in 1 .. L PROVE delivered[p][k] \in 1 .. N
        <4>1. delivered[p][k] \in Nat /\ delivered[p][k] > 0 /\ delivered[p][k] <= status
          BY <3>1, <3>2 DEF OrderInv
        <4>2. QED
          BY <2>2, <4>1
      <3>4. delivered[p] \in [1 .. L -> 1 .. N]
        BY <3>2, <3>3
      <3>5. QED
        BY <2>1, <3>4, SeqDef
    <2>7. delivered \in [Peer -> Seq(Announcements)]
      BY <2>6 DEF SessionInv
    <2>8. failed \subseteq Announcements /\ announced \in Seq(Block)
      BY DEF BacklogInv, Announcements
    <2>9. QED
      BY <2>1, <2>2, <2>3, <2>4, <2>5, <2>7, <2>8 DEF TypeOK, BacklogInv, ChannelInv, CacheInv
  <1>2. QED
    BY <1>1, SessionHolds, CacheHolds, PTL

=============================================================================
