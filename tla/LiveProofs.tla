------------------------------ MODULE LiveProofs ------------------------------
(***************************************************************************)
(* What a process keeps alive: the realtime hub, the shared clients and the *)
(* turns of a call, for any number of calls, connections, tokens, adapters, *)
(* tasks and turns, and any replies.                                       *)
(*                                                                         *)
(* The hub.  A connection that is open has a place in the log for each     *)
(* frame it got, buffers or has not read (Joins), and what the log says  *)
(* of a call since the subscription, or else the snapshot, is what the     *)
(* call is at, once nothing of it waits to be published (Current).  Before *)
(* it subscribed a connection holds pings only.                            *)
(*                                                                         *)
(* The clients.  That no second client is made follows from what the       *)
(* double check looks at: an open client is the one its adapter keeps, and *)
(* one being made is made under its adapter's lock while the adapter keeps *)
(* none.  A close resets the adapter after an await, so it matters too     *)
(* that meanwhile there is nothing alive that the reset could lose.        *)
(*                                                                         *)
(* The turns.  What a turn has said, and what the scanner's buffer and the *)
(* rest of the reply still say when they are read from where the scanner   *)
(* stands (ToCome), make the reply read at one go: however a token cuts the *)
(* reply and whatever the tools to come return.                            *)
(***************************************************************************)
EXTENDS RealtimeHub, Clients, TurnStream, FiniteSetTheorems, SequenceTheorems, WellFoundedInduction, TLAPS

(* The frames a call's handlers have yet to publish end where it is. *)
PendingFits ==
  \A k \in Calls :
    /\ \A i \in 1..Len(pending[k]) : pending[k][i].call = k
    /\ pending[k] # <<>> => (pending[k][Len(pending[k])].kind = "started" <=> status[k] = "in_progress")

(* How far into the log l what a connection got, its buffer and its inbox   *)
(* reach, from where it subscribed.                                         *)
Joins(from, got, buffer, inbox, l, at) ==
  /\ at \in [0..Len(buffer) -> from..Len(l)]
  /\ at[0] = from + Len(got)
  /\ at[Len(buffer)] + Len(inbox) = Len(l)
  /\ \A i \in 1..Len(got) : got[i] = l[from + i]
  /\ \A j \in 1..Len(buffer) :
       \/ buffer[j] = Ping /\ at[j] = at[j - 1]
       \/ at[j] = at[j - 1] + 1 /\ buffer[j] = l[at[j]]
  /\ \A i \in 1..Len(inbox) : inbox[i] = l[at[Len(buffer)] + i]

Delivered(conn) ==
  conn.pc = "open" /\ conn.dropped = 0 =>
    \E at : Joins(conn.from, conn.got, conn.buffer, conn.inbox, log, at)

PingsBefore(conn) ==
  conn.pc \notin {"open", "stopping", "closed"} =>
    conn.got = <<>> /\ conn.inbox = <<>> /\ \A j \in 1..Len(conn.buffer) : conn.buffer[j] = Ping

FromTheLog(conn) == conn.pc = "open" => conn.from <= Len(log)

(* The frames of the log about a call, after the subscription. *)
News(conn, k) == {i \in 1..Len(log) : i > conn.from /\ log[i].call = k}

Current(conn, k) ==
  pending[k] = <<>> =>
    /\ conn.pc = "snapshot" \/ (conn.pc = "open" /\ News(conn, k) = {}) =>
         (k \in conn.snap <=> status[k] = "in_progress")
    /\ conn.pc = "open" =>
         \A i \in News(conn, k) : (\A j \in News(conn, k) : j <= i) =>
           (log[i].kind = "started" <=> status[k] = "in_progress")

Follows(conn, miss) ==
  /\ Delivered(conn) /\ PingsBefore(conn) /\ FromTheLog(conn)
  /\ \A k \in Calls \ miss : Current(conn, k)

HubInv == TypeOK /\ PendingFits /\ \A c \in Conns : Follows(conns[c], missed[c])

-----------------------------------------------------------------------------
(* A message between the bus and the viewer keeps its place in the log.     *)

(* Published: it is the log's last and the inbox's last. *)
LEMMA JoinsPublished ==
  ASSUME NEW l \in Seq(Frame), NEW from \in Nat, NEW got \in Seq(Frame), NEW buf \in Seq(Frame \cup {Ping}),
         NEW inb \in Seq(Frame), NEW at, Joins(from, got, buf, inb, l, at), NEW f \in Frame
  PROVE  Joins(from, got, buf, Append(inb, f), Append(l, f), at)
<1>1. PICK m : m = Append(l, f)
  OBVIOUS
<1>2. PICK e : e = Append(inb, f)
  OBVIOUS
<1>3. PICK n \in Nat : n = Len(buf)
  OBVIOUS
<1>4. Len(m) = Len(l) + 1 /\ m[Len(l) + 1] = f /\ \A i \in 1..Len(l) : m[i] = l[i]
  BY <1>1
<1>5. Len(e) = Len(inb) + 1 /\ e[Len(inb) + 1] = f /\ \A i \in 1..Len(inb) : e[i] = inb[i]
  BY <1>2
<1>6. /\ at \in [0..n -> from..Len(l)] /\ at[0] = from + Len(got) /\ at[n] + Len(inb) = Len(l)
      /\ \A i \in 1..Len(got) : got[i] = l[from + i]
      /\ \A i \in 1..Len(inb) : inb[i] = l[at[n] + i]
  BY <1>3 DEF Joins
<1>7. Len(l) \in Nat /\ Len(got) \in Nat /\ Len(inb) \in Nat /\ at[0] \in from..Len(l) /\ at[n] \in from..Len(l)
  <2>1. 0 \in 0..n /\ n \in 0..n
    OBVIOUS
  <2>2. QED
    BY <1>6, <2>1
<1>8. at \in [0..n -> from..Len(m)]
  BY <1>4, <1>6, <1>7
<1>9. \A i \in 1..Len(got) : got[i] = m[from + i]
  <2> SUFFICES ASSUME NEW i \in 1..Len(got) PROVE got[i] = m[from + i]
    OBVIOUS
  <2>1. from + i \in 1..Len(l)
    BY <1>6, <1>7
  <2>2. QED
    BY <1>4, <1>6, <2>1
<1>10. \A j \in 1..n : \/ buf[j] = Ping /\ at[j] = at[j - 1]
                       \/ at[j] = at[j - 1] + 1 /\ buf[j] = m[at[j]]
  <2> SUFFICES ASSUME NEW j \in 1..n PROVE \/ buf[j] = Ping /\ at[j] = at[j - 1]
                                           \/ at[j] = at[j - 1] + 1 /\ buf[j] = m[at[j]]
    OBVIOUS
  <2>1. j \in 0..n /\ j - 1 \in 0..n
    OBVIOUS
  <2>2. at[j] \in from..Len(l) /\ at[j - 1] \in from..Len(l)
    BY <1>6, <2>1
  <2>3. CASE buf[j] = Ping /\ at[j] = at[j - 1]
    BY <2>3
  <2>4. CASE at[j] = at[j - 1] + 1 /\ buf[j] = l[at[j]]
    BY <1>4, <2>2, <2>4
  <2>5. QED
    BY <1>3, <2>3, <2>4 DEF Joins
<1>11. \A i \in 1..Len(e) : e[i] = m[at[n] + i]
  <2> SUFFICES ASSUME NEW i \in 1..Len(e) PROVE e[i] = m[at[n] + i]
    OBVIOUS
  <2>2. CASE i = Len(inb) + 1
    BY <1>4, <1>5, <1>6, <1>7, <2>2
  <2>3. CASE i \in 1..Len(inb)
    <3>1. e[i] = l[at[n] + i] /\ at[n] + i \in 1..Len(l)
      BY <1>5, <1>6, <1>7, <2>3
    <3>2. QED
      BY <1>4, <3>1
  <2>4. QED
    BY <1>5, <1>7, <2>2, <2>3
<1>12. at[n] + Len(e) = Len(m)
  <2>1. Len(e) = Len(inb) + 1 /\ Len(m) = Len(l) + 1 /\ at[n] + Len(inb) = Len(l)
    BY <1>4, <1>5, <1>6
  <2>2. at[n] \in Nat /\ Len(inb) \in Nat
    BY <1>7
  <2>3. PICK x \in Nat, y \in Nat : x = at[n] /\ y = Len(inb)
    BY <2>2
  <2>4. x + (y + 1) = (x + y) + 1
    OBVIOUS
  <2>5. QED
    BY <2>1, <2>3, <2>4
<1>13. Joins(from, got, buf, e, m, at)
  BY <1>3, <1>6, <1>8, <1>9, <1>10, <1>11, <1>12 DEF Joins
<1>14. QED
  BY <1>1, <1>2, <1>13

(* A heartbeat takes a place in the buffer and none in the log. *)
LEMMA JoinsPinged ==
  ASSUME NEW l \in Seq(Frame), NEW from \in Nat, NEW got \in Seq(Frame), NEW buf \in Seq(Frame \cup {Ping}),
         NEW inb \in Seq(Frame), NEW at, Joins(from, got, buf, inb, l, at)
  PROVE  \E b : Joins(from, got, Append(buf, Ping), inb, l, b)
<1>1. PICK n \in Nat : n = Len(buf)
  OBVIOUS
<1>2. PICK d : d = Append(buf, Ping)
  OBVIOUS
<1>3. Len(d) = n + 1 /\ d[n + 1] = Ping /\ \A j \in 1..n : d[j] = buf[j]
  BY <1>1, <1>2
<1>4. at \in [0..n -> from..Len(l)] /\ at[0] = from + Len(got) /\ at[n] + Len(inb) = Len(l)
  BY <1>1 DEF Joins
<1>5. PICK b : b = [j \in 0..n + 1 |-> IF j <= n THEN at[j] ELSE at[n]]
  OBVIOUS
<1>6. b \in [0..n + 1 -> from..Len(l)] /\ b[n + 1] = at[n] /\ \A j \in 0..n : b[j] = at[j]
  BY <1>4, <1>5
<1>7. \A j \in 1..n + 1 : \/ d[j] = Ping /\ b[j] = b[j - 1]
                          \/ b[j] = b[j - 1] + 1 /\ d[j] = l[b[j]]
  <2> SUFFICES ASSUME NEW j \in 1..n + 1 PROVE \/ d[j] = Ping /\ b[j] = b[j - 1]
                                               \/ b[j] = b[j - 1] + 1 /\ d[j] = l[b[j]]
    OBVIOUS
  <2>1. CASE j = n + 1
    BY <1>3, <1>6, <2>1
  <2>2. CASE j \in 1..n
    <3>0. j \in 0..n /\ j - 1 \in 0..n
      BY <2>2
    <3>1. b[j] = at[j] /\ b[j - 1] = at[j - 1] /\ d[j] = buf[j]
      BY <1>3, <1>6, <2>2, <3>0
    <3>2. \/ buf[j] = Ping /\ at[j] = at[j - 1]
          \/ at[j] = at[j - 1] + 1 /\ buf[j] = l[at[j]]
      BY <1>1, <2>2 DEF Joins
    <3>3. QED
      BY <3>1, <3>2
  <2>3. QED
    BY <2>1, <2>2
<1>8. /\ b[0] = from + Len(got) /\ b[n + 1] + Len(inb) = Len(l)
      /\ \A i \in 1..Len(got) : got[i] = l[from + i]
      /\ \A i \in 1..Len(inb) : inb[i] = l[b[n + 1] + i]
  BY <1>1, <1>4, <1>6 DEF Joins
<1>9. Joins(from, got, d, inb, l, b)
  BY <1>3, <1>6, <1>7, <1>8 DEF Joins
<1>10. QED
  BY <1>2, <1>9

(* The bus loop takes the inbox's first to the end of the buffer. *)
LEMMA JoinsBuffered ==
  ASSUME NEW l \in Seq(Frame), NEW from \in Nat, NEW got \in Seq(Frame), NEW buf \in Seq(Frame \cup {Ping}),
         NEW inb \in Seq(Frame), NEW at, Joins(from, got, buf, inb, l, at), inb # <<>>
  PROVE  \E b : Joins(from, got, Append(buf, Head(inb)), Tail(inb), l, b)
<1>1. PICK n \in Nat : n = Len(buf)
  OBVIOUS
<1>2. PICK d : d = Append(buf, Head(inb))
  OBVIOUS
<1>3. PICK e : e = Tail(inb)
  OBVIOUS
<1>4. Len(d) = n + 1 /\ d[n + 1] = inb[1] /\ \A j \in 1..n : d[j] = buf[j]
  BY <1>1, <1>2
<1>5. Len(inb) \in Nat \ {0} /\ Len(e) = Len(inb) - 1 /\ \A i \in 1..Len(e) : e[i] = inb[i + 1]
  BY <1>3
<1>6. at \in [0..n -> from..Len(l)] /\ at[0] = from + Len(got) /\ at[n] + Len(inb) = Len(l)
  BY <1>1 DEF Joins
<1>7. \A i \in 1..Len(inb) : inb[i] = l[at[n] + i]
  BY <1>1 DEF Joins
<1>8. Len(l) \in Nat /\ at[n] \in from..Len(l) /\ at[n] + 1 \in from..Len(l) /\ inb[1] = l[at[n] + 1]
  <2>1. n \in 0..n /\ 1 \in 1..Len(inb) /\ Len(l) \in Nat
    BY <1>5
  <2>2. QED
    BY <1>5, <1>6, <1>7, <2>1
<1>9. PICK b : b = [j \in 0..n + 1 |-> IF j <= n THEN at[j] ELSE at[n] + 1]
  OBVIOUS
<1>10. b \in [0..n + 1 -> from..Len(l)] /\ b[n + 1] = at[n] + 1 /\ \A j \in 0..n : b[j] = at[j]
  BY <1>6, <1>8, <1>9
<1>11. \A j \in 1..n + 1 : \/ d[j] = Ping /\ b[j] = b[j - 1]
                           \/ b[j] = b[j - 1] + 1 /\ d[j] = l[b[j]]
  <2> SUFFICES ASSUME NEW j \in 1..n + 1 PROVE \/ d[j] = Ping /\ b[j] = b[j - 1]
                                               \/ b[j] = b[j - 1] + 1 /\ d[j] = l[b[j]]
    OBVIOUS
  <2>1. CASE j = n + 1
    BY <1>4, <1>8, <1>10, <2>1
  <2>2. CASE j \in 1..n
    <3>0. j \in 0..n /\ j - 1 \in 0..n
      BY <2>2
    <3>1. b[j] = at[j] /\ b[j - 1] = at[j - 1] /\ d[j] = buf[j]
      BY <1>4, <1>10, <2>2, <3>0
    <3>2. \/ buf[j] = Ping /\ at[j] = at[j - 1]
          \/ at[j] = at[j - 1] + 1 /\ buf[j] = l[at[j]]
      BY <1>1, <2>2 DEF Joins
    <3>3. QED
      BY <3>1, <3>2
  <2>3. QED
    BY <2>1, <2>2
<1>12. \A i \in 1..Len(e) : e[i] = l[b[n + 1] + i]
  <2> SUFFICES ASSUME NEW i \in 1..Len(e) PROVE e[i] = l[b[n + 1] + i]
    OBVIOUS
  <2>0. Len(e) \in Nat /\ i \in Nat /\ at[n] \in Nat
    BY <1>5, <1>8
  <2>1. i + 1 \in 1..Len(inb) /\ e[i] = inb[i + 1]
    BY <1>5, <2>0
  <2>4. (at[n] + 1) + i = at[n] + (i + 1)
    <3>1. PICK x \in Nat : x = at[n]
      BY <2>0
    <3>2. (x + 1) + i = x + (i + 1)
      BY <2>0
    <3>3. QED
      BY <3>1, <3>2
  <2>2. inb[i + 1] = l[at[n] + (i + 1)]
    BY <1>7, <2>1
  <2>3. QED
    BY <1>10, <2>1, <2>2, <2>4
<1>13. /\ b[0] = from + Len(got) /\ b[n + 1] + Len(e) = Len(l)
       /\ \A i \in 1..Len(got) : got[i] = l[from + i]
  <2>1. \A i \in 1..Len(got) : got[i] = l[from + i]
    BY DEF Joins
  <2>2. QED
    BY <1>5, <1>6, <1>8, <1>10, <2>1
<1>14. Joins(from, got, d, e, l, b)
  BY <1>4, <1>10, <1>11, <1>12, <1>13 DEF Joins
<1>15. QED
  BY <1>2, <1>3, <1>14

(* The sender takes the buffer's first: a ping, or the next the client gets. *)
LEMMA JoinsSent ==
  ASSUME NEW l \in Seq(Frame), NEW from \in Nat, NEW got \in Seq(Frame), NEW buf \in Seq(Frame \cup {Ping}),
         NEW inb \in Seq(Frame), NEW at, Joins(from, got, buf, inb, l, at), buf # <<>>
  PROVE  \E b : Joins(from, IF Head(buf) = Ping THEN got ELSE Append(got, Head(buf)), Tail(buf), inb, l, b)
<1>1. PICK n \in Nat \ {0} : n = Len(buf)
  OBVIOUS
<1>2. PICK d : d = Tail(buf)
  OBVIOUS
<1>3. Len(d) = n - 1 /\ \A j \in 1..n - 1 : d[j] = buf[j + 1]
  BY <1>1, <1>2
<1>4. at \in [0..n -> from..Len(l)] /\ at[0] = from + Len(got) /\ at[n] + Len(inb) = Len(l)
  BY <1>1 DEF Joins
<1>5. \A j \in 1..n : \/ buf[j] = Ping /\ at[j] = at[j - 1]
                      \/ at[j] = at[j - 1] + 1 /\ buf[j] = l[at[j]]
  BY <1>1 DEF Joins
<1>6. PICK b : b = [j \in 0..n - 1 |-> at[j + 1]]
  OBVIOUS
<1>7. b \in [0..n - 1 -> from..Len(l)] /\ \A j \in 0..n - 1 : b[j] = at[j + 1]
  <2>1. \A j \in 0..n - 1 : j + 1 \in 0..n
    OBVIOUS
  <2>2. QED
    BY <1>4, <1>6, <2>1
<1>8. b[n - 1] = at[n] /\ b[0] = at[1] /\ at[1] \in from..Len(l) /\ Len(l) \in Nat /\ 1 \in 1..n
  <2>1. n - 1 \in 0..n - 1 /\ 0 \in 0..n - 1 /\ (n - 1) + 1 = n /\ 0 + 1 = 1 /\ 1 \in 1..n /\ 1 \in 0..n
    OBVIOUS
  <2>2. QED
    BY <1>4, <1>7, <2>1
<1>9. \A j \in 1..n - 1 : \/ d[j] = Ping /\ b[j] = b[j - 1]
                          \/ b[j] = b[j - 1] + 1 /\ d[j] = l[b[j]]
  <2> SUFFICES ASSUME NEW j \in 1..n - 1 PROVE \/ d[j] = Ping /\ b[j] = b[j - 1]
                                               \/ b[j] = b[j - 1] + 1 /\ d[j] = l[b[j]]
    OBVIOUS
  <2>1. j + 1 \in 1..n /\ (j + 1) - 1 = j /\ (j - 1) + 1 = j /\ j \in 0..n - 1 /\ j - 1 \in 0..n - 1
    OBVIOUS
  <2>2. \/ buf[j + 1] = Ping /\ at[j + 1] = at[j]
        \/ at[j + 1] = at[j] + 1 /\ buf[j + 1] = l[at[j + 1]]
    BY <1>5, <2>1
  <2>3. b[j] = at[j + 1] /\ b[j - 1] = at[j] /\ d[j] = buf[j + 1]
    BY <1>3, <1>7, <2>1
  <2>4. QED
    BY <2>2, <2>3
<1>10. PICK g : g = IF Head(buf) = Ping THEN got ELSE Append(got, Head(buf))
  OBVIOUS
<1>11. b[0] = from + Len(g) /\ \A i \in 1..Len(g) : g[i] = l[from + i]
  <2>1. Head(buf) = buf[1] /\ buf[1] \in Frame \cup {Ping} /\ Len(got) \in Nat
    BY <1>1
  <2>2. \A i \in 1..Len(got) : got[i] = l[from + i]
    BY DEF Joins
  <2>3. \/ buf[1] = Ping /\ at[1] = at[0]
        \/ at[1] = at[0] + 1 /\ buf[1] = l[at[1]]
    <3>1. 1 - 1 = 0
      OBVIOUS
    <3>2. QED
      BY <1>5, <1>8, <3>1
  <2>4. CASE buf[1] = Ping
    <3>1. g = got
      BY <1>10, <2>1, <2>4
    <3>2. at[1] = at[0]
      <4> SUFFICES ASSUME at[1] = at[0] + 1, buf[1] = l[at[1]] PROVE FALSE
        BY <2>3
      <4>1. at[1] \in 1..Len(l)
        BY <1>4, <1>8, <2>1
      <4>2. l[at[1]] \in Frame
        BY <4>1
      <4>3. QED
        BY <2>4, <4>2 DEF Frame, Ping
    <3>3. QED
      BY <1>4, <1>8, <2>2, <3>1, <3>2
  <2>5. CASE buf[1] # Ping
    <3>1. g = Append(got, buf[1]) /\ buf[1] \in Frame
      BY <1>10, <2>1, <2>5
    <3>2. Len(g) = Len(got) + 1 /\ g[Len(got) + 1] = buf[1] /\ \A i \in 1..Len(got) : g[i] = got[i]
      BY <3>1
    <3>3. at[1] = from + (Len(got) + 1) /\ buf[1] = l[at[1]]
      BY <1>4, <2>1, <2>3, <2>5
    <3>4. ASSUME NEW i \in 1..Len(g) PROVE g[i] = l[from + i]
      <4>1. i = Len(got) + 1 \/ i \in 1..Len(got)
        BY <2>1, <3>2
      <4>2. QED
        BY <2>2, <3>2, <3>3, <4>1
    <3>5. QED
      BY <1>8, <3>2, <3>3, <3>4
  <2>6. QED
    BY <2>4, <2>5
<1>12. b[n - 1] + Len(inb) = Len(l) /\ \A i \in 1..Len(inb) : inb[i] = l[b[n - 1] + i]
  BY <1>1, <1>4, <1>8 DEF Joins
<1>13. Joins(from, g, d, inb, l, b)
  BY <1>3, <1>7, <1>9, <1>11, <1>12 DEF Joins
<1>14. QED
  BY <1>2, <1>10, <1>13

(* A connection that subscribes is where the log is. *)
LEMMA JoinsAtFirst ==
  ASSUME NEW l \in Seq(Frame), NEW buf \in Seq(Frame \cup {Ping}), \A j \in 1..Len(buf) : buf[j] = Ping
  PROVE  \E at : Joins(Len(l), <<>>, buf, <<>>, l, at)
<1>1. PICK m \in Nat, n \in Nat : m = Len(l) /\ n = Len(buf)
  OBVIOUS
<1>2. PICK at : at = [j \in 0..n |-> m]
  OBVIOUS
<1>3. at \in [0..n -> m..m] /\ \A j \in 0..n : at[j] = m
  BY <1>2
<1>4. \A j \in 1..n : j \in 0..n /\ j - 1 \in 0..n
  OBVIOUS
<1>5. at[0] = m + Len(<<>>) /\ at[n] + Len(<<>>) = m /\ \A j \in 1..n : buf[j] = Ping /\ at[j] = at[j - 1]
  BY <1>1, <1>3, <1>4
<1>6. Joins(m, <<>>, buf, <<>>, l, at)
  BY <1>1, <1>3, <1>5 DEF Joins
<1>7. QED
  BY <1>1, <1>6

-----------------------------------------------------------------------------
LEMMA HubTypes ==
  ASSUME TypeOK, NEW c \in Conns
  PROVE  /\ conns[c] \in Conn /\ conns[c].pc \in {"idle", "read", "refused", "claimed", "snapshot", "open", "stopping", "closed"}
         /\ conns[c].token \in WsTokens \cup {NoWsToken} /\ conns[c].snap \in SUBSET Calls
         /\ conns[c].from \in Nat /\ conns[c].inbox \in Seq(Frame) /\ conns[c].got \in Seq(Frame)
         /\ conns[c].buffer \in Seq(Frame \cup {Ping}) /\ Len(conns[c].buffer) <= SendBufferMax
         /\ conns[c].dropped \in Nat /\ conns[c].gone \in BOOLEAN
         /\ missed[c] \in SUBSET Calls /\ log \in Seq(Frame)
  BY DEF TypeOK, Conn

(* A step of one connection, which the publishers and the others do not see. *)
LEMMA OneConnection ==
  ASSUME HubInv, NEW c \in Conns, NEW d \in Conn, conns' = [conns EXCEPT ![c] = d],
         Len(d.buffer) <= SendBufferMax, UNCHANGED <<status, pending, log>>,
         tokens' \in [WsTokens -> {"none", "issued", "gone"}], raced' \subseteq WsTokens,
         faults' \in 0..MaxFaults, pings' \in 0..MaxPings,
         missed' \in [Conns -> SUBSET Calls], \A x \in Conns \ {c} : missed'[x] = missed[x],
         Follows(d, missed'[c])
  PROVE  HubInv'
<1>1. conns' \in [Conns -> Conn] /\ \A x \in Conns : conns'[x] = IF x = c THEN d ELSE conns[x]
  BY DEF HubInv, TypeOK
<1>2. TypeOK'
  BY <1>1 DEF HubInv, TypeOK
<1>3. PendingFits'
  BY DEF HubInv, PendingFits
<1>4. ASSUME NEW x \in Conns PROVE Follows(conns[x], missed[x])'
  <2>1. Follows(conns'[x], missed'[x])
    BY <1>1 DEF HubInv
  <2>2. QED
    BY <2>1 DEF Follows, Delivered, PingsBefore, FromTheLog, Current, News
<1>5. QED
  BY <1>2, <1>3, <1>4 DEF HubInv

(* Who has no subscription and no snapshot follows nothing. *)
LEMMA QuietFollows ==
  ASSUME NEW d, NEW miss, d.pc \notin {"snapshot", "open"},
         d.pc \notin {"stopping", "closed"} =>
           d.got = <<>> /\ d.inbox = <<>> /\ \A j \in 1..Len(d.buffer) : d.buffer[j] = Ping
  PROVE  Follows(d, miss)
BY DEF Follows, Delivered, PingsBefore, FromTheLog, Current

LEMMA ClaimGetKeeps == ASSUME HubInv, NEW c \in Conns, NEW t \in WsTokens, ClaimGet(c, t) PROVE HubInv'
<1>1. PICK p \in {"read", "refused"} : conns' = [conns EXCEPT ![c] = [conns[c] EXCEPT !.token = t, !.pc = p]]
  BY DEF ClaimGet, HubInv, TypeOK
<1>2. PICK d : d = [conns[c] EXCEPT !.token = t, !.pc = p]
  OBVIOUS
<1>3. d \in Conn /\ d.pc = p /\ d.got = conns[c].got /\ d.inbox = conns[c].inbox /\ d.buffer = conns[c].buffer
  BY <1>2, HubTypes DEF HubInv, Conn
<1>4. conns[c].pc = "idle"
  BY DEF ClaimGet
<1>5. Follows(d, missed'[c])
  BY <1>3, <1>4, QuietFollows DEF HubInv, Follows, PingsBefore
<1>6. QED
  BY <1>1, <1>2, <1>3, <1>5, OneConnection, HubTypes DEF ClaimGet, HubInv, TypeOK

LEMMA ClaimDelKeeps == ASSUME HubInv, NEW c \in Conns, ClaimDel(c) PROVE HubInv'
<1>1. PICK p \in {"claimed", "refused"} : conns' = [conns EXCEPT ![c] = [conns[c] EXCEPT !.pc = p]]
  BY DEF ClaimDel, HubInv, TypeOK
<1>2. PICK d : d = [conns[c] EXCEPT !.pc = p]
  OBVIOUS
<1>3. d \in Conn /\ d.pc = p /\ d.got = conns[c].got /\ d.inbox = conns[c].inbox /\ d.buffer = conns[c].buffer
  BY <1>2, HubTypes DEF HubInv, Conn
<1>4. conns[c].pc = "read" /\ UNCHANGED <<status, pending, log, raced, missed, faults, pings>>
  BY DEF ClaimDel
<1>5. Follows(d, missed'[c])
  BY <1>3, <1>4, QuietFollows DEF HubInv, Follows, PingsBefore
<1>6. tokens' \in [WsTokens -> {"none", "issued", "gone"}]
  BY DEF ClaimDel, HubInv, TypeOK
<1>7. QED
  BY <1>1, <1>2, <1>3, <1>4, <1>5, <1>6, OneConnection, HubTypes DEF HubInv, TypeOK

(* The snapshot says what is in progress when it is taken. *)
LEMMA SnapshotKeeps == ASSUME HubInv, NEW c \in Conns, Snapshot(c) PROVE HubInv'
<1>1. PICK d : d = [conns[c] EXCEPT !.pc = "snapshot", !.snap = InProgress]
  OBVIOUS
<1>2. conns' = [conns EXCEPT ![c] = d] /\ UNCHANGED <<status, pending, log, tokens, raced, missed, faults, pings>>
  BY <1>1 DEF Snapshot, HubInv, TypeOK
<1>3. /\ d \in Conn /\ d.pc = "snapshot" /\ d.snap = InProgress
      /\ d.got = conns[c].got /\ d.inbox = conns[c].inbox /\ d.buffer = conns[c].buffer
  BY <1>1, HubTypes DEF HubInv, Conn, InProgress
<1>4. conns[c].pc = "claimed"
  BY DEF Snapshot
<1>5. PingsBefore(d)
  BY <1>3, <1>4 DEF HubInv, Follows, PingsBefore
<1>6. Follows(d, missed'[c])
  BY <1>3, <1>5 DEF Follows, Delivered, FromTheLog, Current, InProgress
<1>7. QED
  BY <1>2, <1>3, <1>6, OneConnection, HubTypes DEF HubInv, TypeOK

(* The subscription begins with what is published next. *)
LEMMA SubscribeKeeps == ASSUME HubInv, NEW c \in Conns, Subscribe(c) PROVE HubInv'
<1>1. PICK d : d = [conns[c] EXCEPT !.pc = "open", !.from = Len(log)]
  OBVIOUS
<1>2. conns' = [conns EXCEPT ![c] = d] /\ UNCHANGED <<status, pending, log, tokens, raced, missed, faults, pings>>
  BY <1>1 DEF Subscribe, HubInv, TypeOK
<1>0. Len(log) \in Nat /\ log \in Seq(Frame) /\ conns[c] \in Conn /\ conns[c].buffer \in Seq(Frame \cup {Ping})
  <2>1. log \in Seq(Frame)
    BY DEF HubInv, TypeOK
  <2>2. QED
    BY <2>1, HubTypes DEF HubInv
<1>3. /\ d \in Conn /\ d.pc = "open" /\ d.from = Len(log) /\ Len(log) \in Nat /\ d.snap = conns[c].snap
      /\ d.got = conns[c].got /\ d.inbox = conns[c].inbox /\ d.buffer = conns[c].buffer
      /\ d.buffer \in Seq(Frame \cup {Ping})
  <2>1. PICK n \in Nat : n = Len(log)
    BY <1>0
  <2>2. d = [conns[c] EXCEPT !.pc = "open", !.from = n]
    BY <1>1, <2>1
  <2>3. d \in Conn
    BY ONLY <1>0, <2>2 DEF Conn
  <2>4. /\ d.pc = "open" /\ d.from = n /\ d.snap = conns[c].snap
        /\ d.got = conns[c].got /\ d.inbox = conns[c].inbox /\ d.buffer = conns[c].buffer
    BY ONLY <1>0, <2>2 DEF Conn
  <2>5. QED
    BY <1>0, <2>1, <2>3, <2>4
<1>4. /\ conns[c].pc = "snapshot" /\ d.got = <<>> /\ d.inbox = <<>>
      /\ \A j \in 1..Len(d.buffer) : d.buffer[j] = Ping
  BY <1>3 DEF Subscribe, HubInv, Follows, PingsBefore
<1>5. Delivered(d)
  BY <1>0, <1>3, <1>4, JoinsAtFirst DEF Delivered
<1>6. \A k \in Calls : News(d, k) = {}
  BY <1>3 DEF News
<1>7. \A k \in Calls \ missed[c] : Current(d, k)
  BY <1>3, <1>4, <1>6 DEF HubInv, Follows, Current
<1>8. PingsBefore(d) /\ FromTheLog(d)
  BY <1>3 DEF PingsBefore, FromTheLog
<1>9. Follows(d, missed'[c])
  BY <1>2, <1>5, <1>7, <1>8 DEF Follows
<1>10. QED
  BY <1>2, <1>3, <1>9, OneConnection, HubTypes DEF HubInv, TypeOK

(* What is current does not depend on what is on its way. *)
LEMMA CurrentAsBefore ==
  ASSUME NEW conn, NEW d, NEW k, d.pc = conn.pc, d.snap = conn.snap, d.from = conn.from, Current(conn, k)
  PROVE  Current(d, k)
BY DEF Current, News

LEMMA PutDoes ==
  ASSUME NEW conn \in Conn, NEW frame \in Frame \cup {Ping}, Len(conn.buffer) <= SendBufferMax
  PROVE  /\ Put(conn, frame) \in Conn /\ Len(Put(conn, frame).buffer) <= SendBufferMax
         /\ Put(conn, frame).pc = conn.pc /\ Put(conn, frame).snap = conn.snap
         /\ Put(conn, frame).from = conn.from /\ Put(conn, frame).got = conn.got
         /\ Put(conn, frame).inbox = conn.inbox
         /\ \/ Put(conn, frame).buffer = Append(conn.buffer, frame) /\ Put(conn, frame).dropped = conn.dropped
            \/ Put(conn, frame).buffer = conn.buffer /\ Put(conn, frame).dropped # 0
<1>1. /\ conn.buffer \in Seq(Frame \cup {Ping}) /\ Len(conn.buffer) \in Nat /\ conn.dropped \in Nat
      /\ SendBufferMax \in Nat
  BY HubAssumption DEF Conn
<1>2. CASE Len(conn.buffer) < SendBufferMax
  <2>1. PICK b : b = Append(conn.buffer, frame)
    OBVIOUS
  <2>2. b \in Seq(Frame \cup {Ping}) /\ Len(b) = Len(conn.buffer) + 1
    BY <1>1, <2>1
  <2>3. Put(conn, frame) = [conn EXCEPT !.buffer = b]
    BY <1>2, <2>1 DEF Put
  <2>4. PICK d : d = [conn EXCEPT !.buffer = b]
    OBVIOUS
  <2>5. d \in Conn
    BY ONLY <2>2, <2>4, conn \in Conn DEF Conn
  <2>6. d.pc = conn.pc /\ d.snap = conn.snap /\ d.from = conn.from /\ d.got = conn.got /\ d.inbox = conn.inbox
        /\ d.buffer = b /\ d.dropped = conn.dropped
    BY ONLY <2>4, conn \in Conn DEF Conn
  <2>7. Len(d.buffer) <= SendBufferMax
    BY <1>1, <1>2, <2>2, <2>6
  <2>8. QED
    BY <2>1, <2>3, <2>4, <2>5, <2>6, <2>7
<1>3. CASE ~(Len(conn.buffer) < SendBufferMax)
  <2>1. Put(conn, frame) = [conn EXCEPT !.dropped = conn.dropped + 1]
    BY <1>3 DEF Put
  <2>2. PICK d : d = [conn EXCEPT !.dropped = conn.dropped + 1]
    OBVIOUS
  <2>6. PICK n \in Nat \ {0} : n = conn.dropped + 1
    BY <1>1
  <2>7. d = [conn EXCEPT !.dropped = n]
    BY <2>2, <2>6
  <2>3. d \in Conn /\ d.dropped # 0
    BY ONLY <2>7, conn \in Conn DEF Conn
  <2>4. d.pc = conn.pc /\ d.snap = conn.snap /\ d.from = conn.from /\ d.got = conn.got /\ d.inbox = conn.inbox
        /\ d.buffer = conn.buffer
    BY ONLY <2>2, conn \in Conn DEF Conn
  <2>5. QED
    BY <2>1, <2>2, <2>3, <2>4
<1>4. QED
  BY <1>2, <1>3

(* The bus loop. *)
LEMMA BusLoopKeeps == ASSUME HubInv, NEW c \in Conns, BusLoop(c) PROVE HubInv'
<1>1. PICK conn \in Conn : conn = conns[c]
  BY HubTypes DEF HubInv
<1>2. conn.pc = "open" /\ conn.inbox # <<>> /\ UNCHANGED <<status, pending, log, tokens, raced, missed, faults, pings>>
  BY <1>1 DEF BusLoop
<1>3. /\ conn.inbox \in Seq(Frame) /\ conn.got \in Seq(Frame) /\ conn.from \in Nat /\ log \in Seq(Frame)
      /\ conn.buffer \in Seq(Frame \cup {Ping}) /\ Len(conn.buffer) <= SendBufferMax
      /\ Head(conn.inbox) \in Frame \cup {Ping} /\ Tail(conn.inbox) \in Seq(Frame)
  BY <1>1, <1>2, HubTypes DEF HubInv
<1>4. PICK e : e = Put(conn, Head(conn.inbox))
  OBVIOUS
<1>5. /\ e \in Conn /\ Len(e.buffer) <= SendBufferMax /\ e.pc = conn.pc /\ e.snap = conn.snap
      /\ e.from = conn.from /\ e.got = conn.got /\ e.inbox = conn.inbox
      /\ \/ e.buffer = Append(conn.buffer, Head(conn.inbox)) /\ e.dropped = conn.dropped
         \/ e.buffer = conn.buffer /\ e.dropped # 0
  BY <1>3, <1>4, PutDoes
<1>6. PICK d : d = [e EXCEPT !.inbox = Tail(conn.inbox)]
  OBVIOUS
<1>7. d \in Conn
  BY ONLY <1>3, <1>5, <1>6 DEF Conn
<1>8. d.pc = e.pc /\ d.snap = e.snap /\ d.from = e.from /\ d.got = e.got /\ d.buffer = e.buffer
      /\ d.dropped = e.dropped /\ d.inbox = Tail(conn.inbox)
  BY ONLY <1>5, <1>6 DEF Conn
<1>9. conns' = [conns EXCEPT ![c] = d]
  BY <1>1, <1>4, <1>6 DEF BusLoop
<1>10. Delivered(d)
  <2> SUFFICES ASSUME d.dropped = 0
               PROVE  \E at : Joins(d.from, d.got, d.buffer, d.inbox, log, at)
    BY DEF Delivered
  <2>1. d.buffer = Append(conn.buffer, Head(conn.inbox)) /\ conn.dropped = 0
    BY <1>5, <1>8
  <2>2. PICK at : Joins(conn.from, conn.got, conn.buffer, conn.inbox, log, at)
    BY <1>1, <1>2, <2>1 DEF HubInv, Follows, Delivered
  <2>3. \E b : Joins(conn.from, conn.got, Append(conn.buffer, Head(conn.inbox)), Tail(conn.inbox), log, b)
    BY <1>2, <1>3, <2>2, JoinsBuffered
  <2>4. QED
    BY <1>5, <1>8, <2>1, <2>3
<1>11. PingsBefore(d) /\ FromTheLog(d)
  BY <1>1, <1>2, <1>5, <1>8 DEF PingsBefore, FromTheLog, HubInv, Follows
<1>12. \A k \in Calls \ missed[c] : Current(d, k)
  BY <1>1, <1>5, <1>8, CurrentAsBefore DEF HubInv, Follows
<1>13. Follows(d, missed'[c])
  BY <1>2, <1>10, <1>11, <1>12 DEF Follows
<1>14. QED
  BY <1>2, <1>5, <1>7, <1>8, <1>9, <1>13, OneConnection DEF HubInv, TypeOK

(* A heartbeat. *)
LEMMA HeartbeatKeeps == ASSUME HubInv, NEW c \in Conns, Heartbeat(c) PROVE HubInv'
<1>1. PICK conn \in Conn : conn = conns[c]
  BY HubTypes DEF HubInv
<1>2. /\ conn.pc \in {"snapshot", "open"} /\ UNCHANGED <<status, pending, log, tokens, raced, missed, faults>>
      /\ pings' \in 0..MaxPings
  BY <1>1, HubAssumption DEF Heartbeat, HubInv, TypeOK
<1>3. /\ conn.inbox \in Seq(Frame) /\ conn.got \in Seq(Frame) /\ conn.from \in Nat /\ log \in Seq(Frame)
      /\ conn.buffer \in Seq(Frame \cup {Ping}) /\ Len(conn.buffer) <= SendBufferMax
  BY <1>1, HubTypes DEF HubInv
<1>4. PICK d : d = Put(conn, Ping)
  OBVIOUS
<1>5. /\ d \in Conn /\ Len(d.buffer) <= SendBufferMax /\ d.pc = conn.pc /\ d.snap = conn.snap
      /\ d.from = conn.from /\ d.got = conn.got /\ d.inbox = conn.inbox
      /\ \/ d.buffer = Append(conn.buffer, Ping) /\ d.dropped = conn.dropped
         \/ d.buffer = conn.buffer /\ d.dropped # 0
  BY <1>3, <1>4, PutDoes
<1>6. conns' = [conns EXCEPT ![c] = d]
  BY <1>1, <1>4 DEF Heartbeat
<1>7. Delivered(d)
  <2> SUFFICES ASSUME d.pc = "open", d.dropped = 0
               PROVE  \E at : Joins(d.from, d.got, d.buffer, d.inbox, log, at)
    BY DEF Delivered
  <2>1. d.buffer = Append(conn.buffer, Ping) /\ conn.dropped = 0
    BY <1>5
  <2>2. PICK at : Joins(conn.from, conn.got, conn.buffer, conn.inbox, log, at)
    BY <1>1, <1>5, <2>1 DEF HubInv, Follows, Delivered
  <2>3. \E b : Joins(conn.from, conn.got, Append(conn.buffer, Ping), conn.inbox, log, b)
    BY <1>3, <2>2, JoinsPinged
  <2>4. QED
    BY <1>5, <2>1, <2>3
<1>8. PingsBefore(d)
  <2> SUFFICES ASSUME d.pc = "snapshot"
               PROVE  d.got = <<>> /\ d.inbox = <<>> /\ \A j \in 1..Len(d.buffer) : d.buffer[j] = Ping
    BY <1>2, <1>5 DEF PingsBefore
  <2>1. conn.got = <<>> /\ conn.inbox = <<>> /\ \A j \in 1..Len(conn.buffer) : conn.buffer[j] = Ping
    BY <1>1, <1>5 DEF HubInv, Follows, PingsBefore
  <2>2. CASE d.buffer = Append(conn.buffer, Ping)
    BY <1>3, <1>5, <2>1, <2>2
  <2>3. QED
    BY <1>5, <2>1, <2>2
<1>9. FromTheLog(d) /\ \A k \in Calls \ missed[c] : Current(d, k)
  BY <1>1, <1>5, CurrentAsBefore DEF HubInv, Follows, FromTheLog
<1>10. Follows(d, missed'[c])
  BY <1>2, <1>7, <1>8, <1>9 DEF Follows
<1>11. QED
  BY <1>2, <1>5, <1>6, <1>10, OneConnection DEF HubInv, TypeOK

(* The sender. *)
LEMMA SenderLoopKeeps == ASSUME HubInv, NEW c \in Conns, SenderLoop(c) PROVE HubInv'
<1>1. PICK conn \in Conn : conn = conns[c]
  BY HubTypes DEF HubInv
<1>2. /\ conn.pc \in {"snapshot", "open"} /\ conn.buffer # <<>>
      /\ UNCHANGED <<status, pending, log, tokens, raced, missed, faults, pings>>
  BY <1>1 DEF SenderLoop
<1>3. /\ conn.inbox \in Seq(Frame) /\ conn.got \in Seq(Frame) /\ conn.from \in Nat /\ log \in Seq(Frame)
      /\ conn.buffer \in Seq(Frame \cup {Ping}) /\ Len(conn.buffer) <= SendBufferMax
  BY <1>1, HubTypes DEF HubInv
<1>4. PICK g, b : /\ g = IF Head(conn.buffer) = Ping THEN conn.got ELSE Append(conn.got, Head(conn.buffer))
                  /\ b = Tail(conn.buffer)
  OBVIOUS
<1>5. /\ Head(conn.buffer) = conn.buffer[1] /\ conn.buffer[1] \in Frame \cup {Ping}
      /\ b \in Seq(Frame \cup {Ping}) /\ Len(b) = Len(conn.buffer) - 1
      /\ \A j \in 1..Len(b) : b[j] = conn.buffer[j + 1] /\ j + 1 \in 1..Len(conn.buffer)
  BY <1>2, <1>3, <1>4
<1>6. g \in Seq(Frame) /\ (conn.buffer[1] = Ping => g = conn.got)
  BY <1>3, <1>4, <1>5
<1>7. PICK d : d = [conn EXCEPT !.buffer = b, !.got = g]
  OBVIOUS
<1>8. d \in Conn
  BY ONLY <1>5, <1>6, <1>7, conn \in Conn DEF Conn
<1>9. /\ d.pc = conn.pc /\ d.snap = conn.snap /\ d.from = conn.from /\ d.got = g /\ d.inbox = conn.inbox
      /\ d.buffer = b /\ d.dropped = conn.dropped
  BY ONLY <1>7, conn \in Conn DEF Conn
<1>10. conns' = [conns EXCEPT ![c] = d]
  BY <1>1, <1>4, <1>7 DEF SenderLoop, HubInv, TypeOK
<1>11. Delivered(d)
  <2> SUFFICES ASSUME d.pc = "open", d.dropped = 0
               PROVE  \E at : Joins(d.from, d.got, d.buffer, d.inbox, log, at)
    BY DEF Delivered
  <2>1. PICK at : Joins(conn.from, conn.got, conn.buffer, conn.inbox, log, at)
    BY <1>1, <1>9 DEF HubInv, Follows, Delivered
  <2>2. \E x : Joins(conn.from, g, b, conn.inbox, log, x)
    BY <1>2, <1>3, <1>4, <2>1, JoinsSent
  <2>3. QED
    BY <1>9, <2>2
<1>12. PingsBefore(d)
  <2> SUFFICES ASSUME d.pc = "snapshot"
               PROVE  d.got = <<>> /\ d.inbox = <<>> /\ \A j \in 1..Len(d.buffer) : d.buffer[j] = Ping
    BY <1>2, <1>9 DEF PingsBefore
  <2>1. conn.got = <<>> /\ conn.inbox = <<>> /\ \A j \in 1..Len(conn.buffer) : conn.buffer[j] = Ping
    BY <1>1, <1>9 DEF HubInv, Follows, PingsBefore
  <2>2. conn.buffer[1] = Ping
    BY <1>2, <1>3, <2>1
  <2>3. QED
    BY <1>5, <1>6, <1>9, <2>1, <2>2
<1>13. FromTheLog(d) /\ \A k \in Calls \ missed[c] : Current(d, k)
  BY <1>1, <1>9, CurrentAsBefore DEF HubInv, Follows, FromTheLog
<1>14. Follows(d, missed'[c])
  BY <1>2, <1>11, <1>12, <1>13 DEF Follows
<1>15. Len(d.buffer) <= SendBufferMax
  BY <1>3, <1>5, <1>9, HubAssumption
<1>16. QED
  BY <1>2, <1>8, <1>10, <1>14, <1>15, OneConnection DEF HubInv, TypeOK

(* The client goes. *)
LEMMA LeaveKeeps == ASSUME HubInv, NEW c \in Conns, Leave(c) PROVE HubInv'
<1>1. PICK conn \in Conn : conn = conns[c]
  BY HubTypes DEF HubInv
<1>2. PICK d : d = [conn EXCEPT !.gone = TRUE]
  OBVIOUS
<1>3. /\ d \in Conn /\ d.pc = conn.pc /\ d.snap = conn.snap /\ d.from = conn.from /\ d.got = conn.got
      /\ d.inbox = conn.inbox /\ d.buffer = conn.buffer /\ d.dropped = conn.dropped
  BY ONLY <1>2, conn \in Conn DEF Conn
<1>4. conns' = [conns EXCEPT ![c] = d] /\ UNCHANGED <<status, pending, log, tokens, raced, missed, faults, pings>>
  BY <1>1, <1>2 DEF Leave, HubInv, TypeOK
<1>5. Delivered(d) /\ PingsBefore(d) /\ FromTheLog(d)
  BY <1>1, <1>3 DEF HubInv, Follows, Delivered, PingsBefore, FromTheLog
<1>6. \A k \in Calls \ missed[c] : Current(d, k)
  BY <1>1, <1>3, CurrentAsBefore DEF HubInv, Follows
<1>7. Follows(d, missed'[c])
  BY <1>4, <1>5, <1>6 DEF Follows
<1>8. QED
  BY <1>1, <1>3, <1>4, <1>7, OneConnection DEF HubInv, TypeOK

(* The first of its tasks to end stops the others; or Redis fails. *)
LEMMA StopKeeps == ASSUME HubInv, NEW c \in Conns, Stop(c) \/ BusFails(c) PROVE HubInv'
<1>1. PICK conn \in Conn : conn = conns[c]
  BY HubTypes DEF HubInv
<1>2. PICK d : d = [conn EXCEPT !.pc = "stopping"]
  OBVIOUS
<1>3. d \in Conn /\ d.pc = "stopping" /\ d.buffer = conn.buffer
  BY ONLY <1>2, conn \in Conn DEF Conn
<1>4. conns' = [conns EXCEPT ![c] = d] /\ UNCHANGED <<status, pending, log, tokens, raced, missed, pings>>
  BY <1>1, <1>2 DEF Stop, BusFails, HubInv, TypeOK
<1>5. faults' \in 0..MaxFaults
  BY HubAssumption DEF Stop, BusFails, Fault, HubInv, TypeOK
<1>6. Follows(d, missed'[c])
  BY <1>3, QuietFollows
<1>7. QED
  BY <1>1, <1>3, <1>4, <1>5, <1>6, OneConnection DEF HubInv, TypeOK

LEMMA CloseConnKeeps == ASSUME HubInv, NEW c \in Conns, Close(c) PROVE HubInv'
<1>1. PICK conn \in Conn : conn = conns[c]
  BY HubTypes DEF HubInv
<1>2. PICK d : d = [NewConn EXCEPT !.pc = "closed", !.token = conn.token, !.gone = conn.gone]
  OBVIOUS
<1>3. d \in Conn /\ d.pc = "closed" /\ d.buffer = <<>>
  <2>1. d = [pc |-> "closed", token |-> conn.token, snap |-> {}, from |-> 0, inbox |-> <<>>,
             buffer |-> <<>>, got |-> <<>>, dropped |-> 0, gone |-> conn.gone]
    BY ONLY <1>2 DEF NewConn
  <2>2. <<>> \in Seq(Frame) /\ <<>> \in Seq(Frame \cup {Ping})
    OBVIOUS
  <2>3. conn.token \in WsTokens \cup {NoWsToken} /\ conn.gone \in BOOLEAN
    BY ONLY conn \in Conn DEF Conn
  <2>4. QED
    BY ONLY <2>1, <2>2, <2>3 DEF Conn
<1>4. conns' = [conns EXCEPT ![c] = d] /\ UNCHANGED <<status, pending, log, tokens, raced, faults, pings>>
      /\ missed' = [missed EXCEPT ![c] = {}]
  BY <1>1, <1>2 DEF Close
<1>5. Len(d.buffer) <= SendBufferMax
  BY <1>3, HubAssumption
<1>6. Follows(d, missed'[c])
  BY <1>3, QuietFollows
<1>7. missed' \in [Conns -> SUBSET Calls] /\ \A x \in Conns \ {c} : missed'[x] = missed[x]
  BY <1>4 DEF HubInv, TypeOK
<1>8. QED
  BY <1>3, <1>4, <1>5, <1>6, <1>7, OneConnection DEF HubInv, TypeOK

-----------------------------------------------------------------------------
(* The publishers.  What is about to be published is the call's own. *)
LEMMA PendingHead ==
  ASSUME HubInv, NEW k \in Calls, pending[k] # <<>>
  PROVE  /\ Head(pending[k]) \in Frame /\ Head(pending[k]).call = k /\ Tail(pending[k]) \in Seq(Frame)
         /\ Tail(pending[k]) = <<>> => (Head(pending[k]).kind = "started" <=> status[k] = "in_progress")
         /\ Len(Tail(pending[k])) = Len(pending[k]) - 1 /\ Len(pending[k]) \in Nat \ {0}
         /\ \A i \in 1..Len(Tail(pending[k])) : Tail(pending[k])[i] = pending[k][i + 1]
<1>1. PICK s \in Seq(Frame) : s = pending[k] /\ s # <<>>
  BY DEF HubInv, TypeOK
<1>2. /\ Head(s) \in Frame /\ Head(s) = s[1] /\ Tail(s) \in Seq(Frame) /\ Len(Tail(s)) = Len(s) - 1
      /\ Len(s) \in Nat \ {0} /\ (Tail(s) = <<>> => Len(s) = 1)
      /\ \A i \in 1..Len(Tail(s)) : Tail(s)[i] = s[i + 1]
  <2>1. Head(s) \in Frame /\ Head(s) = s[1] /\ Len(s) \in Nat \ {0}
    BY <1>1
  <2>2. Tail(s) \in Seq(Frame) /\ Len(Tail(s)) = Len(s) - 1 /\ \A i \in 1..Len(Tail(s)) : Tail(s)[i] = s[i + 1]
    BY <1>1
  <2>3. Tail(s) = <<>> => Len(s) = 1
    <3> SUFFICES ASSUME Tail(s) = <<>> PROVE Len(s) = 1
      OBVIOUS
    <3>1. PICK e : e = Tail(s)
      OBVIOUS
    <3>2. e = <<>> /\ Len(e) = Len(s) - 1
      BY <2>2, <3>1
    <3>3. Len(e) = 0
      BY ONLY <3>2
    <3>4. QED
      BY <2>1, <3>2, <3>3
  <2>4. QED
    BY <2>1, <2>2, <2>3
<1>3. 1 \in 1..Len(s)
  BY <1>2
<1>4. s[1].call = k /\ (s[Len(s)].kind = "started" <=> status[k] = "in_progress")
  BY <1>1, <1>3 DEF HubInv, PendingFits
<1>5. QED
  BY <1>1, <1>2, <1>4

(* What a handler published or failed to publish leaves of the pending. *)
LEMMA TailFits ==
  ASSUME HubInv, NEW k \in Calls, pending[k] # <<>>, pending' = [pending EXCEPT ![k] = Tail(@)],
         status' = status
  PROVE  PendingFits' /\ pending' \in [Calls -> Seq(Frame)]
         /\ \A x \in Calls : pending'[x] = IF x = k THEN Tail(pending[k]) ELSE pending[x]
<1>1. pending \in [Calls -> Seq(Frame)]
  BY DEF HubInv, TypeOK
<1>2. PICK s \in Seq(Frame) : s = pending[k] /\ s # <<>>
  BY <1>1
<1>3. PICK e \in Seq(Frame) : e = Tail(s)
  BY <1>2, PendingHead
<1>4. pending' = [pending EXCEPT ![k] = e]
  BY <1>2, <1>3
<1>5. pending' \in [Calls -> Seq(Frame)] /\ \A x \in Calls : pending'[x] = IF x = k THEN e ELSE pending[x]
  BY <1>1, <1>4
<1>6. Len(e) = Len(s) - 1 /\ Len(s) \in Nat \ {0} /\ \A i \in 1..Len(e) : e[i] = s[i + 1]
  BY <1>2, <1>3, PendingHead
<1>7. \A i \in 1..Len(e) : e[i].call = k
  <2> SUFFICES ASSUME NEW i \in 1..Len(e) PROVE e[i].call = k
    OBVIOUS
  <2>1. i + 1 \in 1..Len(s)
    BY <1>6
  <2>2. QED
    BY <1>2, <1>6, <2>1 DEF HubInv, PendingFits
<1>8. e # <<>> => (e[Len(e)].kind = "started" <=> status[k] = "in_progress")
  <2> SUFFICES ASSUME e # <<>> PROVE e[Len(e)].kind = "started" <=> status[k] = "in_progress"
    OBVIOUS
  <2>1. Len(e) \in 1..Len(e) /\ Len(e) + 1 = Len(s)
    BY <1>3, <1>6
  <2>2. e[Len(e)] = s[Len(s)]
    BY <1>6, <2>1
  <2>3. QED
    BY <1>2, <2>2 DEF HubInv, PendingFits
<1>9. PendingFits'
  <2> SUFFICES ASSUME NEW x \in Calls
               PROVE  /\ \A i \in 1..Len(pending'[x]) : pending'[x][i].call = x
                      /\ pending'[x] # <<>> => (pending'[x][Len(pending'[x])].kind = "started" <=> status[x] = "in_progress")
    BY DEF PendingFits
  <2>1. CASE x = k
    BY <1>5, <1>7, <1>8, <2>1
  <2>2. CASE x # k
    BY <1>5, <2>2 DEF HubInv, PendingFits
  <2>3. QED
    BY <2>1, <2>2
<1>10. QED
  BY <1>2, <1>3, <1>5, <1>9

(* A call's handler commits: its frame is last of what it has yet to publish. *)
LEMMA CommitKeeps ==
  ASSUME HubInv, NEW k \in Calls, StartCall(k) \/ EndCall(k)
  PROVE  HubInv'
<1>1. PICK p \in {"in_progress", "ended"}, q \in {"started", "ended"} :
        /\ p = "in_progress" <=> q = "started"
        /\ status' = [status EXCEPT ![k] = p]
        /\ pending' = [pending EXCEPT ![k] = Append(@, [kind |-> q, call |-> k])]
        /\ UNCHANGED <<log, tokens, conns, raced, missed, faults, pings>>
  BY DEF StartCall, EndCall
<1>2. PICK f \in Frame : f = [kind |-> q, call |-> k]
  BY DEF Frame
<1>3. pending \in [Calls -> Seq(Frame)] /\ status \in [Calls -> {"none", "in_progress", "ended"}]
  BY DEF HubInv, TypeOK
<1>4. PICK s \in Seq(Frame) : s = pending[k]
  BY <1>3
<1>5. PICK e : e = Append(s, f)
  OBVIOUS
<1>6. /\ e \in Seq(Frame) /\ e # <<>> /\ Len(s) \in Nat /\ Len(e) = Len(s) + 1 /\ e[Len(e)] = f
      /\ \A i \in 1..Len(s) : e[i] = s[i]
  BY <1>5
<1>7. pending' = [pending EXCEPT ![k] = e]
  BY <1>1, <1>2, <1>4, <1>5
<1>8. /\ pending' \in [Calls -> Seq(Frame)] /\ status' \in [Calls -> {"none", "in_progress", "ended"}]
      /\ \A x \in Calls : /\ pending'[x] = IF x = k THEN e ELSE pending[x]
                          /\ status'[x] = IF x = k THEN p ELSE status[x]
  BY <1>1, <1>3, <1>6, <1>7
<1>9. TypeOK'
  BY <1>1, <1>8 DEF HubInv, TypeOK
<1>10. \A i \in 1..Len(e) : e[i].call = k
  <2> SUFFICES ASSUME NEW i \in 1..Len(e) PROVE e[i].call = k
    OBVIOUS
  <2>1. CASE i = Len(e)
    BY <1>2, <1>6, <2>1
  <2>2. CASE i \in 1..Len(s)
    BY <1>4, <1>6, <2>2 DEF HubInv, PendingFits
  <2>3. QED
    BY <1>6, <2>1, <2>2
<1>11. PendingFits'
  <2> SUFFICES ASSUME NEW x \in Calls
               PROVE  /\ \A i \in 1..Len(pending'[x]) : pending'[x][i].call = x
                      /\ pending'[x] # <<>> => (pending'[x][Len(pending'[x])].kind = "started" <=> status'[x] = "in_progress")
    BY DEF PendingFits
  <2>1. CASE x = k
    <3>1. pending'[x] = e /\ status'[x] = p
      BY <1>8, <2>1
    <3>2. f.kind = q
      BY <1>2
    <3>3. e[Len(e)].kind = "started" <=> p = "in_progress"
      BY <1>1, <1>6, <3>2
    <3>4. QED
      BY <1>10, <2>1, <3>1, <3>3
  <2>2. CASE x # k
    BY <1>8, <2>2 DEF HubInv, PendingFits
  <2>3. QED
    BY <2>1, <2>2
<1>12. ASSUME NEW c \in Conns PROVE Follows(conns[c], missed[c])'
  <2>1. Follows(conns[c], missed[c])
    BY DEF HubInv
  <2>2. (Delivered(conns[c]) /\ PingsBefore(conns[c]) /\ FromTheLog(conns[c]))'
    BY <1>1, <2>1 DEF Follows, Delivered, PingsBefore, FromTheLog
  <2>3. ASSUME NEW x \in Calls \ missed[c] PROVE Current(conns[c], x)'
    <3>1. CASE x = k
      BY <1>6, <1>8, <3>1 DEF Current
    <3>2. CASE x # k
      <4>1. Current(conns[c], x) /\ pending'[x] = pending[x] /\ status'[x] = status[x]
        BY <1>8, <2>1, <2>3, <3>2 DEF Follows
      <4>2. QED
        BY <1>1, <4>1 DEF Current, News
    <3>3. QED
      BY <3>1, <3>2
  <2>4. QED
    BY <1>1, <2>2, <2>3 DEF Follows
<1>13. QED
  BY <1>9, <1>11, <1>12 DEF HubInv

(* Redis does not take a frame: those who follow the workspace miss it. *)
LEMMA PublishFailsKeeps == ASSUME HubInv, NEW k \in Calls, PublishFails(k) PROVE HubInv'
<1>1. /\ pending[k] # <<>> /\ pending' = [pending EXCEPT ![k] = Tail(@)] /\ faults' \in 0..MaxFaults
      /\ UNCHANGED <<status, log, tokens, conns, raced, pings>>
      /\ missed' \in [Conns -> SUBSET Calls]
      /\ \A c \in Conns : missed'[c] = IF conns[c].pc \in {"snapshot", "open"} THEN missed[c] \cup {k} ELSE missed[c]
  BY HubAssumption DEF PublishFails, Fault, Misses, HubInv, TypeOK
<1>2. /\ PendingFits' /\ pending' \in [Calls -> Seq(Frame)]
      /\ \A x \in Calls : pending'[x] = IF x = k THEN Tail(pending[k]) ELSE pending[x]
  BY <1>1, TailFits
<1>3. TypeOK'
  BY <1>1, <1>2 DEF HubInv, TypeOK
<1>4. ASSUME NEW c \in Conns PROVE Follows(conns[c], missed[c])'
  <2>1. Follows(conns[c], missed[c])
    BY DEF HubInv
  <2>2. (Delivered(conns[c]) /\ PingsBefore(conns[c]) /\ FromTheLog(conns[c]))'
    BY <1>1, <2>1 DEF Follows, Delivered, PingsBefore, FromTheLog
  <2>3. ASSUME NEW x \in Calls \ missed'[c] PROVE Current(conns[c], x)'
    <3>1. CASE conns[c].pc \notin {"snapshot", "open"}
      BY <1>1, <3>1 DEF Current
    <3>2. CASE conns[c].pc \in {"snapshot", "open"}
      <4>1. Current(conns[c], x) /\ pending'[x] = pending[x]
        BY <1>1, <1>2, <2>1, <2>3, <3>2 DEF Follows
      <4>2. QED
        BY <1>1, <4>1 DEF Current, News
    <3>3. QED
      BY <3>1, <3>2
  <2>4. QED
    BY <2>2, <2>3 DEF Follows
<1>5. QED
  BY <1>2, <1>3, <1>4 DEF HubInv

(* Redis takes it: every subscription has it, in the order of the log. *)
LEMMA PublishKeeps == ASSUME HubInv, NEW k \in Calls, publish_frame(k) PROVE HubInv'
<1>1. PICK f : f = Head(pending[k])
  OBVIOUS
<1>2. /\ pending[k] # <<>> /\ pending' = [pending EXCEPT ![k] = Tail(@)] /\ log' = Append(log, f)
      /\ UNCHANGED <<status, tokens, raced, faults, pings>>
      /\ conns' = [c \in Conns |-> IF conns[c].pc = "open" THEN [conns[c] EXCEPT !.inbox = Append(@, f)] ELSE conns[c]]
      /\ missed' \in [Conns -> SUBSET Calls]
      /\ \A c \in Conns : missed'[c] = IF conns[c].pc = "snapshot" THEN missed[c] \cup {k} ELSE missed[c]
  BY <1>1 DEF publish_frame, Misses, Subscribed, HubInv, TypeOK
<1>3. /\ PendingFits' /\ pending' \in [Calls -> Seq(Frame)]
      /\ \A x \in Calls : pending'[x] = IF x = k THEN Tail(pending[k]) ELSE pending[x]
  BY <1>2, TailFits
<1>4. f \in Frame /\ f.call = k /\ (Tail(pending[k]) = <<>> => (f.kind = "started" <=> status[k] = "in_progress"))
  BY <1>1, <1>2, PendingHead
<1>5. PICK l \in Seq(Frame) : l = log
  BY DEF HubInv, TypeOK
<1>6. PICK m : m = Append(l, f)
  OBVIOUS
<1>7. m \in Seq(Frame) /\ Len(l) \in Nat /\ Len(m) = Len(l) + 1 /\ m[Len(m)] = f /\ \A i \in 1..Len(l) : m[i] = l[i]
  BY <1>4, <1>6
<1>8. log' = m
  BY <1>2, <1>5, <1>6
<1>9. ASSUME NEW c \in Conns
      PROVE  /\ conns'[c] \in Conn /\ conns'[c].pc = conns[c].pc /\ conns'[c].from = conns[c].from
             /\ conns'[c].snap = conns[c].snap /\ conns'[c].got = conns[c].got
             /\ conns'[c].buffer = conns[c].buffer /\ conns'[c].dropped = conns[c].dropped
             /\ conns'[c].inbox = IF conns[c].pc = "open" THEN Append(conns[c].inbox, f) ELSE conns[c].inbox
  <2>1. PICK conn \in Conn : conn = conns[c]
    BY HubTypes DEF HubInv
  <2>2. PICK x : x = Append(conn.inbox, f)
    OBVIOUS
  <2>3. conn.inbox \in Seq(Frame)
    BY ONLY conn \in Conn DEF Conn
  <2>4. x \in Seq(Frame)
    BY <1>4, <2>2, <2>3
  <2>5. CASE conn.pc = "open"
    <3>1. conns'[c] = [conn EXCEPT !.inbox = x]
      BY <1>2, <2>1, <2>2, <2>5
    <3>2. PICK d : d = [conn EXCEPT !.inbox = x]
      OBVIOUS
    <3>3. d \in Conn
      BY ONLY <2>4, <3>2, conn \in Conn DEF Conn
    <3>4. /\ d.pc = conn.pc /\ d.from = conn.from /\ d.snap = conn.snap /\ d.got = conn.got
          /\ d.buffer = conn.buffer /\ d.dropped = conn.dropped /\ d.inbox = x
      BY ONLY <3>2, conn \in Conn DEF Conn
    <3>5. QED
      BY <2>1, <2>2, <2>5, <3>1, <3>2, <3>3, <3>4
  <2>6. CASE conn.pc # "open"
    BY <1>2, <2>1, <2>6
  <2>7. QED
    BY <2>5, <2>6
<1>10. TypeOK'
  <2>1. conns' \in [Conns -> Conn]
    BY <1>2, <1>9
  <2>2. QED
    BY <1>2, <1>3, <1>7, <1>8, <1>9, <2>1 DEF HubInv, TypeOK
<1>11. ASSUME NEW c \in Conns PROVE Follows(conns[c], missed[c])'
  <2>1. PICK conn \in Conn, d \in Conn : conn = conns[c] /\ d = conns'[c]
    BY <1>9, HubTypes DEF HubInv
  <2>2. Follows(conn, missed[c])
    BY <2>1 DEF HubInv
  <2>3. /\ d.pc = conn.pc /\ d.from = conn.from /\ d.snap = conn.snap /\ d.got = conn.got
        /\ d.buffer = conn.buffer /\ d.dropped = conn.dropped
        /\ d.inbox = IF conn.pc = "open" THEN Append(conn.inbox, f) ELSE conn.inbox
    BY <1>9, <2>1
  <2>4. Delivered(conns[c])'
    <3> SUFFICES ASSUME d.pc = "open", d.dropped = 0
                 PROVE  \E at : Joins(d.from, d.got, d.buffer, d.inbox, m, at)
      BY <1>8, <2>1 DEF Delivered
    <3>1. PICK at : Joins(conn.from, conn.got, conn.buffer, conn.inbox, l, at)
      BY <1>5, <2>2, <2>3 DEF Follows, Delivered
    <3>2. /\ conn.inbox \in Seq(Frame) /\ conn.got \in Seq(Frame) /\ conn.from \in Nat
          /\ conn.buffer \in Seq(Frame \cup {Ping})
      BY ONLY conn \in Conn DEF Conn
    <3>3. Joins(conn.from, conn.got, conn.buffer, Append(conn.inbox, f), Append(l, f), at)
      BY <1>4, <3>1, <3>2, JoinsPublished
    <3>4. QED
      BY <1>6, <2>3, <3>3
  <2>5. PingsBefore(conns[c])'
    <3>1. PingsBefore(conn)
      BY <2>2 DEF Follows
    <3>2. PingsBefore(d)
      BY <2>3, <3>1 DEF PingsBefore
    <3>3. QED
      BY <2>1, <3>2 DEF PingsBefore
  <2>6. FromTheLog(conns[c])'
    <3>1. conn.from \in Nat /\ (conn.pc = "open" => conn.from <= Len(l))
      BY <1>5, <2>2 DEF Follows, FromTheLog, Conn
    <3>2. d.pc = "open" => d.from <= Len(m)
      BY <1>7, <2>3, <3>1
    <3>3. QED
      BY <1>8, <2>1, <3>2 DEF FromTheLog
  <2>7. ASSUME NEW x \in Calls \ missed'[c] PROVE Current(conns[c], x)'
    <3> SUFFICES ASSUME pending'[x] = <<>>, conn.pc \in {"snapshot", "open"},
                        NEW N, N = {i \in 1..Len(m) : i > conn.from /\ m[i].call = x}
                 PROVE  /\ conn.pc = "snapshot" \/ (conn.pc = "open" /\ N = {}) =>
                             (x \in conn.snap <=> status[x] = "in_progress")
                        /\ conn.pc = "open" =>
                             \A i \in N : (\A j \in N : j <= i) => (m[i].kind = "started" <=> status[x] = "in_progress")
      BY <1>2, <1>8, <2>1, <2>3 DEF Current, News
    <3>1. x \notin missed[c] /\ (conn.pc = "snapshot" => x # k)
      BY <1>2, <2>1, <2>7
    <3>2. Current(conn, x) /\ FromTheLog(conn) /\ conn.from \in Nat
      BY <2>2, <3>1 DEF Follows, Conn
    <3>3. CASE x = k
      <4>1. conn.pc = "open" /\ Len(m) \in N
        BY <1>4, <1>5, <1>7, <3>1, <3>2, <3>3 DEF FromTheLog
      <4>2. \A i \in N : (\A j \in N : j <= i) => i = Len(m)
        BY <1>7, <4>1
      <4>3. m[Len(m)].kind = "started" <=> status[x] = "in_progress"
        BY <1>3, <1>4, <1>7, <3>3
      <4>4. QED
        BY <4>1, <4>2, <4>3
    <3>4. CASE x # k
      <4>1. pending[x] = <<>>
        BY <1>3, <3>4
      <4>2. News(conn, x) = {i \in 1..Len(l) : i > conn.from /\ l[i].call = x}
        BY <1>5 DEF News
      <4>3. \A i \in 1..Len(m) : m[i].call = x => i \in 1..Len(l)
        BY <1>4, <1>7, <3>4
      <4>4. N = News(conn, x)
        BY <1>7, <4>2, <4>3
      <4>5. \A i \in N : m[i] = log[i]
        BY <1>5, <1>7, <4>2, <4>4
      <4>6. QED
        BY <3>2, <4>1, <4>4, <4>5 DEF Current
    <3>5. QED
      BY <3>3, <3>4
  <2>8. QED
    BY <2>4, <2>5, <2>6, <2>7 DEF Follows
<1>12. QED
  BY <1>3, <1>10, <1>11 DEF HubInv

-----------------------------------------------------------------------------
LEMMA HubBegins == Init => HubInv
<1> SUFFICES ASSUME Init PROVE HubInv
  OBVIOUS
<1>1. <<>> \in Seq(Frame) /\ <<>> \in Seq(Frame \cup {Ping}) /\ Len(<<>>) = 0
  OBVIOUS
<1>2. NewConn \in Conn /\ NewConn.pc = "idle" /\ NewConn.got = <<>> /\ NewConn.inbox = <<>> /\ NewConn.buffer = <<>>
  BY <1>1 DEF NewConn, Conn
<1>3. TypeOK
  BY <1>1, <1>2, HubAssumption DEF Init, TypeOK
<1>4. PendingFits
  BY <1>1 DEF Init, PendingFits
<1>5. \A j \in 1..Len(NewConn.buffer) : NewConn.buffer[j] = Ping
  BY <1>1, <1>2
<1>6. \A c \in Conns : Follows(conns[c], missed[c])
  BY <1>2, <1>5, QuietFollows DEF Init
<1>7. QED
  BY <1>3, <1>4, <1>6 DEF HubInv

LEMMA HubStepKeeps == HubInv /\ [Next]_vars => HubInv'
<1> SUFFICES ASSUME HubInv, [Next]_vars PROVE HubInv'
  OBVIOUS
<1>1. CASE UNCHANGED <<status, pending, log, conns, raced, missed, faults, pings>>
           /\ tokens' \in [WsTokens -> {"none", "issued", "gone"}]
  BY <1>1 DEF HubInv, TypeOK, PendingFits, Follows, Delivered, PingsBefore, FromTheLog, Current, News
<1>2. CASE UNCHANGED vars
  BY <1>1, <1>2 DEF vars, HubInv, TypeOK
<1>3. CASE \E t \in WsTokens : issue_ws_token(t) \/ ExpireToken(t)
  BY <1>1, <1>3 DEF issue_ws_token, ExpireToken, HubInv, TypeOK
<1>4. CASE \E k \in Calls : StartCall(k) \/ EndCall(k) \/ publish_frame(k) \/ PublishFails(k)
  BY <1>4, CommitKeeps, PublishKeeps, PublishFailsKeeps
<1>5. CASE \E c \in Conns, t \in WsTokens : ClaimGet(c, t)
  BY <1>5, ClaimGetKeeps
<1>6. CASE \E c \in Conns : ConnStep(c) \/ BusFails(c) \/ Heartbeat(c) \/ Leave(c)
  BY <1>6, ClaimDelKeeps, SnapshotKeeps, SubscribeKeeps, BusLoopKeeps, SenderLoopKeeps, StopKeeps, CloseConnKeeps,
     HeartbeatKeeps, LeaveKeeps DEF ConnStep
<1>7. QED
  BY <1>2, <1>3, <1>4, <1>5, <1>6 DEF Next

THEOREM HubInvariance == Spec => []HubInv
  BY HubBegins, HubStepKeeps, PTL DEF Spec

(* The last of a set of positions. *)
LEMMA TopOf ==
  ASSUME NEW n \in Nat, NEW T \in SUBSET (1..n), T # {}
  PROVE  \E top \in T : \A j \in T : j <= top
<1> DEFINE Before == {pair \in Nat \X Nat : pair[1] < pair[2]}
           Left == {n - i : i \in T}
<1>1. IsWellFoundedOn(Before, Nat)
  BY NatLessThanWellFounded DEF OpToRel
<1>2. Left \subseteq Nat /\ Left # {}
  <2>1. \A i \in T : n - i \in Nat
    OBVIOUS
  <2>2. QED
    BY <2>1
<1>3. PICK m \in Left : \A k \in Left : ~(<<k, m>> \in Before)
  BY <1>1, <1>2, WFMin
<1>4. PICK top \in T : m = n - top
  OBVIOUS
<1>5. \A j \in T : n - j \in Left /\ n - j \in Nat /\ m \in Nat
  BY <1>2
<1>6. \A j \in T : ~(n - j < m)
  BY <1>3, <1>5
<1>7. \A j \in T : j <= top
  BY <1>4, <1>6
<1>8. QED
  BY <1>7

(* What a client received and what is on its way, read from the places the  *)
(* frames have in the log.                                                  *)
LEMMA InOrder == HubInv => DeliveredInOrder
<1> SUFFICES ASSUME HubInv, NEW c \in Subscribed, conns[c].dropped = 0
             PROVE  \E at \in [0..Len(conns[c].buffer) -> conns[c].from..Len(log)] :
                      /\ conns[c].got = SubSeq(log, conns[c].from + 1, at[0])
                      /\ \A j \in 1..Len(conns[c].buffer) :
                           \/ conns[c].buffer[j] = Ping /\ at[j] = at[j - 1]
                           \/ at[j] = at[j - 1] + 1 /\ conns[c].buffer[j] = log[at[j]]
                      /\ conns[c].inbox = SubSeq(log, at[Len(conns[c].buffer)] + 1, Len(log))
  BY Zenon DEF DeliveredInOrder
<1>0. PICK conn, n : conn = conns[c] /\ n = Len(conn.buffer)
  OBVIOUS
<1>1. /\ conn.pc = "open" /\ c \in Conns /\ conn.from \in Nat /\ conn.got \in Seq(Frame) /\ conn.inbox \in Seq(Frame)
      /\ log \in Seq(Frame) /\ n \in Nat
  BY <1>0, HubTypes DEF Subscribed, HubInv
<1>2. PICK at : Joins(conn.from, conn.got, conn.buffer, conn.inbox, log, at)
  BY <1>0, <1>1 DEF HubInv, Follows, Delivered
<1>3. /\ at \in [0..n -> conn.from..Len(log)] /\ at[0] = conn.from + Len(conn.got)
      /\ at[n] + Len(conn.inbox) = Len(log)
      /\ \A i \in 1..Len(conn.got) : conn.got[i] = log[conn.from + i]
      /\ \A j \in 1..n : \/ conn.buffer[j] = Ping /\ at[j] = at[j - 1]
                         \/ at[j] = at[j - 1] + 1 /\ conn.buffer[j] = log[at[j]]
      /\ \A i \in 1..Len(conn.inbox) : conn.inbox[i] = log[at[n] + i]
  BY <1>0, <1>2 DEF Joins
<1>4. PICK l \in Seq(Frame), from \in Nat, x \in Nat, y \in Nat, got \in Seq(Frame), inb \in Seq(Frame) :
        /\ l = log /\ from = conn.from /\ x = at[0] /\ y = at[n] /\ got = conn.got /\ inb = conn.inbox
  <2>1. 0 \in 0..n /\ n \in 0..n /\ Len(log) \in Nat
    BY <1>1
  <2>2. at[0] \in Nat /\ at[n] \in Nat
    BY <1>1, <1>3, <2>1
  <2>3. QED
    BY <1>1, <2>2
<1>5. /\ x = from + Len(got) /\ y + Len(inb) = Len(l) /\ x <= Len(l) /\ y <= Len(l)
      /\ Len(got) \in Nat /\ Len(inb) \in Nat /\ Len(l) \in Nat
      /\ \A i \in 1..Len(got) : got[i] = l[from + i]
      /\ \A i \in 1..Len(inb) : inb[i] = l[y + i]
  <2>1. Len(got) \in Nat /\ Len(inb) \in Nat /\ Len(l) \in Nat /\ 0 \in 0..n /\ n \in 0..n
    BY <1>1
  <2>2. x = from + Len(got) /\ y + Len(inb) = Len(l) /\ x \in from..Len(l)
    BY <1>3, <1>4, <2>1
  <2>3. x <= Len(l) /\ y <= Len(l)
    BY <2>1, <2>2
  <2>4. /\ \A i \in 1..Len(got) : got[i] = l[from + i]
        /\ \A i \in 1..Len(inb) : inb[i] = l[y + i]
    BY <1>3, <1>4
  <2>5. QED
    BY <2>1, <2>2, <2>3, <2>4
<1>6. got = SubSeq(l, from + 1, x)
  <2>1. \A i \in (from + 1)..x : i \in 1..Len(l)
    BY <1>5
  <2>2. /\ SubSeq(l, from + 1, x) \in Seq(Frame)
        /\ Len(SubSeq(l, from + 1, x)) = IF from + 1 <= x THEN x - (from + 1) + 1 ELSE 0
        /\ \A i \in 1..(x - (from + 1) + 1) : SubSeq(l, from + 1, x)[i] = l[(from + 1) + i - 1]
    BY <2>1, SubSeqProperties
  <2>3. Len(SubSeq(l, from + 1, x)) = Len(got)
    BY <1>5, <2>2
  <2>4. \A i \in 1..Len(got) : SubSeq(l, from + 1, x)[i] = got[i]
    <3> SUFFICES ASSUME NEW i \in 1..Len(got) PROVE SubSeq(l, from + 1, x)[i] = got[i]
      OBVIOUS
    <3>1. i \in 1..(x - (from + 1) + 1) /\ (from + 1) + i - 1 = from + i
      BY <1>5
    <3>2. QED
      BY <1>5, <2>2, <3>1
  <2>5. QED
    BY <2>2, <2>3, <2>4, SeqEqual
<1>7. inb = SubSeq(l, y + 1, Len(l))
  <2>1. \A i \in (y + 1)..Len(l) : i \in 1..Len(l)
    BY <1>5
  <2>2. /\ SubSeq(l, y + 1, Len(l)) \in Seq(Frame)
        /\ Len(SubSeq(l, y + 1, Len(l))) = IF y + 1 <= Len(l) THEN Len(l) - (y + 1) + 1 ELSE 0
        /\ \A i \in 1..(Len(l) - (y + 1) + 1) : SubSeq(l, y + 1, Len(l))[i] = l[(y + 1) + i - 1]
    BY <1>5, <2>1, SubSeqProperties
  <2>3. Len(SubSeq(l, y + 1, Len(l))) = Len(inb)
    BY <1>5, <2>2
  <2>4. \A i \in 1..Len(inb) : SubSeq(l, y + 1, Len(l))[i] = inb[i]
    <3> SUFFICES ASSUME NEW i \in 1..Len(inb) PROVE SubSeq(l, y + 1, Len(l))[i] = inb[i]
      OBVIOUS
    <3>1. i \in 1..(Len(l) - (y + 1) + 1) /\ (y + 1) + i - 1 = y + i
      BY <1>5
    <3>2. QED
      BY <1>5, <2>2, <3>1
  <2>5. QED
    BY <2>2, <2>3, <2>4, SeqEqual
<1>8. QED
  BY <1>0, <1>3, <1>4, <1>6, <1>7

(* A client that has caught up received all of the log since it subscribed. *)
LEMMA CaughtUp == HubInv => ShowsWhatIs
<1> SUFFICES ASSUME HubInv, NEW c \in Subscribed, NEW k \in Calls \ missed[c], pending[k] = <<>>,
                    conns[c].inbox = <<>>, conns[c].buffer = <<>>, conns[c].dropped = 0
             PROVE  k \in Shows(c) <=> k \in InProgress
  BY DEF ShowsWhatIs
<1>1. PICK conn \in Conn : conn = conns[c] /\ c \in Conns /\ conn.pc = "open"
  BY HubTypes DEF Subscribed, HubInv
<1>2. conn.from \in Nat /\ conn.got \in Seq(Frame) /\ Len(conn.got) \in Nat /\ log \in Seq(Frame) /\ Len(log) \in Nat
  BY <1>1, HubTypes DEF HubInv
<1>3. PICK at : Joins(conn.from, conn.got, <<>>, <<>>, log, at)
  BY <1>1 DEF HubInv, Follows, Delivered
<1>4. conn.from + Len(conn.got) = Len(log) /\ \A i \in 1..Len(conn.got) : conn.got[i] = log[conn.from + i]
  <2>1. Len(<<>>) = 0
    OBVIOUS
  <2>2. at \in [0..0 -> conn.from..Len(log)] /\ at[0] = conn.from + Len(conn.got) /\ at[0] + 0 = Len(log)
    BY <1>3, <2>1 DEF Joins
  <2>3. QED
    BY <1>2, <1>3, <2>2 DEF Joins
<1>5. PICK l \in Seq(Frame), g \in Seq(Frame), from \in Nat : l = log /\ g = conn.got /\ from = conn.from
  BY <1>2
<1>6. from + Len(g) = Len(l) /\ Len(g) \in Nat /\ Len(l) \in Nat /\ \A i \in 1..Len(g) : g[i] = l[from + i]
  BY <1>4, <1>5
<1>7. PICK about, news : /\ about = {i \in 1..Len(g) : g[i].call = k}
                         /\ news = {i \in 1..Len(l) : i > from /\ l[i].call = k}
  OBVIOUS
<1>8. k \in Shows(c) <=> IF about = {} THEN k \in conn.snap
                         ELSE \E i \in about : g[i].kind = "started" /\ \A j \in about : j <= i
  <2>1. DOMAIN g = 1..Len(g)
    OBVIOUS
  <2>2. QED
    BY <1>1, <1>5, <1>7, <2>1 DEF Shows
<1>9. Current(conn, k) /\ News(conn, k) = news
  BY <1>1, <1>5, <1>7 DEF HubInv, Follows, News
<1>10. /\ news = {} => (k \in conn.snap <=> status[k] = "in_progress")
       /\ \A i \in news : (\A j \in news : j <= i) => (l[i].kind = "started" <=> status[k] = "in_progress")
  BY <1>1, <1>5, <1>9 DEF Current
<1>11. \A i \in about : from + i \in news /\ l[from + i] = g[i] /\ i \in Nat
  BY <1>6, <1>7
<1>12. \A j \in news : j - from \in about
  <2> SUFFICES ASSUME NEW j \in news PROVE j - from \in about
    OBVIOUS
  <2>1. j - from \in 1..Len(g) /\ from + (j - from) = j
    BY <1>6, <1>7
  <2>2. QED
    BY <1>6, <1>7, <2>1
<1>13. CASE about = {}
  BY <1>8, <1>10, <1>12, <1>13 DEF InProgress
<1>14. CASE about # {}
  <2>1. PICK top \in about : \A j \in about : j <= top
    <3>1. about \in SUBSET (1..Len(g))
      BY <1>7
    <3>2. QED
      BY <1>6, <1>14, <3>1, TopOf
  <2>2. \A i \in about : (\A j \in about : j <= i) => i = top
    BY <1>7, <2>1
  <2>3. \A j \in news : j <= from + top
    <3> SUFFICES ASSUME NEW j \in news PROVE j <= from + top
      OBVIOUS
    <3>1. j - from <= top /\ j \in Nat /\ top \in Nat
      BY <1>7, <1>12, <2>1
    <3>2. QED
      BY <3>1
  <2>4. l[from + top].kind = "started" <=> status[k] = "in_progress"
    BY <1>10, <1>11, <2>1, <2>3
  <2>5. QED
    BY <1>8, <1>11, <1>14, <2>1, <2>2, <2>4 DEF InProgress
<1>15. QED
  BY <1>13, <1>14

(* A viewer is current, and what it is behind by is on its way and in order: *)
(* whatever the workspace's calls do, the tasks of its connection, its        *)
(* buffer, the heartbeats and Redis (ws_hub.py, workspaces/ws.py).           *)
THEOREM ViewersFollow == Spec => []ViewersAreCurrent
<1>1. HubInv => ViewersAreCurrent
  BY InOrder, CaughtUp DEF HubInv, ViewersAreCurrent
<1>2. QED
  BY <1>1, HubInvariance, PTL

-----------------------------------------------------------------------------
(* One-time tokens.  As long as no two connections read a token's key at    *)
(* once, the one that reads it is alone with it, and once a connection it   *)
(* opened is there its key is gone.                                         *)
TokenIsSpent(t) ==
  /\ \A c, e \in Reading(t) : c = e
  /\ Reading(t) # {} => Opened(t) = {}
  /\ Opened(t) # {} => tokens[t] = "gone"
  /\ \A c, e \in Opened(t) : c = e

TokensInv == \A t \in WsTokens \ raced : TokenIsSpent(t)

(* A step that leaves the keys to be read and the connections' tokens, and  *)
(* reads no key.                                                            *)
LEMMA TokenStays ==
  ASSUME TokensInv, NEW t \in WsTokens \ raced', raced \subseteq raced', Reading(t)' = Reading(t),
         Opened(t)' = Opened(t), tokens[t] = "gone" => tokens'[t] = "gone"
  PROVE  TokenIsSpent(t)'
BY DEF TokensInv, TokenIsSpent

LEMMA TokenStepKeeps == TypeOK /\ TokensInv /\ [Next]_vars => TokensInv'
<1> SUFFICES ASSUME TypeOK, TokensInv, [Next]_vars, NEW t \in WsTokens \ raced' PROVE TokenIsSpent(t)'
  BY DEF TokensInv
<1>1. conns \in [Conns -> Conn] /\ tokens \in [WsTokens -> {"none", "issued", "gone"}]
  BY DEF TypeOK
<1>2. ASSUME \A c \in Conns : \/ conns'[c].pc = conns[c].pc
                              \/ {conns'[c].pc, conns[c].pc} \cap {"read", "refused"} = {},
             \A c \in Conns : conns'[c].token = conns[c].token,
             raced' = raced, tokens[t] = "gone" => tokens'[t] = "gone"
      PROVE  TokenIsSpent(t)'
  <2>1. Reading(t)' = Reading(t) /\ Opened(t)' = Opened(t)
    BY <1>2 DEF Reading, Opened
  <2>2. QED
    BY <1>2, <2>1, TokenStays
<1>3. CASE UNCHANGED vars
  BY <1>2, <1>3 DEF vars
<1>4. CASE \E k \in Calls : StartCall(k) \/ EndCall(k) \/ publish_frame(k) \/ PublishFails(k)
  <2>1. raced' = raced /\ tokens' = tokens
    BY <1>4 DEF StartCall, EndCall, publish_frame, PublishFails
  <2>2. \A c \in Conns : conns'[c].pc = conns[c].pc /\ conns'[c].token = conns[c].token
    <3>1. CASE conns' = conns
      BY <3>1
    <3>2. ASSUME NEW k \in Calls, publish_frame(k), NEW c \in Conns
          PROVE  conns'[c].pc = conns[c].pc /\ conns'[c].token = conns[c].token
      <4>1. PICK f : conns' = [e \in Conns |-> IF e \in Subscribed
                                 THEN [conns[e] EXCEPT !.inbox = Append(@, f)] ELSE conns[e]]
        BY <3>2 DEF publish_frame
      <4>2. PICK conn \in Conn : conn = conns[c]
        BY <1>1
      <4>3. PICK x : x = Append(conn.inbox, f)
        OBVIOUS
      <4>4. conns'[c] = conn \/ conns'[c] = [conn EXCEPT !.inbox = x]
        BY <4>1, <4>2, <4>3
      <4>5. conns'[c].pc = conn.pc /\ conns'[c].token = conn.token
        BY ONLY <4>4, conn \in Conn DEF Conn
      <4>6. QED
        BY <4>2, <4>5
    <3>3. QED
      BY <1>4, <3>1, <3>2 DEF StartCall, EndCall, PublishFails
  <2>3. QED
    BY <1>2, <2>1, <2>2
<1>5. CASE \E u \in WsTokens : issue_ws_token(u) \/ ExpireToken(u)
  BY <1>1, <1>2, <1>5 DEF issue_ws_token, ExpireToken
<1>6. ASSUME NEW c \in Conns, NEW u \in WsTokens, ClaimGet(c, u) PROVE TokenIsSpent(t)'
  <2>1. PICK p : /\ conns' = [conns EXCEPT ![c].token = u, ![c].pc = p]
                 /\ p = IF tokens[u] = "issued" THEN "read" ELSE "refused"
    BY <1>6 DEF ClaimGet
  <2>2. /\ conns'[c].token = u /\ conns'[c].pc = p /\ conns[c].pc = "idle"
        /\ \A x \in Conns \ {c} : conns'[x] = conns[x]
        /\ tokens' = tokens /\ raced' = IF Reading(u) = {} THEN raced ELSE raced \cup {u}
    BY <1>1, <1>6, <2>1 DEF ClaimGet, Conn
  <2>3. conns[c].token = NoWsToken \/ conns[c].token \in WsTokens
    BY <1>1 DEF Conn
  <2>4. ASSUME t = u PROVE TokenIsSpent(t)'
    <3>1. Reading(t) = {} /\ t \in WsTokens \ raced
      BY <2>2, <2>4
    <3>2. TokenIsSpent(t)
      BY <3>1 DEF TokensInv
    <3>3. CASE p = "read"
      <4>1. Opened(t) = {}
        BY <2>1, <2>4, <3>2, <3>3 DEF TokenIsSpent
      <4>2. Reading(t)' = {c} /\ Opened(t)' = {}
        BY <2>2, <2>4, <3>1, <3>3, <4>1 DEF Reading, Opened
      <4>3. QED
        BY <4>2 DEF TokenIsSpent
    <3>4. CASE p = "refused"
      <4>1. Reading(t)' = {} /\ Opened(t)' \subseteq Opened(t)
        BY <2>2, <2>4, <3>1, <3>4 DEF Reading, Opened
      <4>2. QED
        BY <2>2, <3>2, <4>1 DEF TokenIsSpent
    <3>5. QED
      BY <2>1, <3>3, <3>4
  <2>5. ASSUME t # u PROVE TokenIsSpent(t)'
    <3>1. Reading(t)' = Reading(t) /\ Opened(t)' \subseteq Opened(t) /\ t \in WsTokens \ raced
      BY <2>2, <2>5 DEF Reading, Opened
    <3>2. TokenIsSpent(t)
      BY <3>1 DEF TokensInv
    <3>3. QED
      BY <2>2, <3>1, <3>2 DEF TokenIsSpent
  <2>6. QED
    BY <2>4, <2>5
<1>7. ASSUME NEW c \in Conns, ClaimDel(c) PROVE TokenIsSpent(t)'
  <2>1. PICK p \in {"refused", "claimed"} : conns' = [conns EXCEPT ![c].pc = p]
    BY <1>7 DEF ClaimDel
  <2>2. /\ conns'[c].pc = p /\ conns[c].pc = "read" /\ conns'[c].token = conns[c].token
        /\ \A x \in Conns \ {c} : conns'[x] = conns[x]
    BY <1>1, <1>7, <2>1 DEF ClaimDel, Conn
  <2>3. raced' = raced /\ tokens' = [tokens EXCEPT ![conns[c].token] = "gone"]
    BY <1>7 DEF ClaimDel
  <2>4. TokenIsSpent(t)
    BY <2>3 DEF TokensInv
  <2>5. CASE conns[c].token = t
    <3>1. Reading(t) = {c} /\ Opened(t) = {} /\ tokens'[t] = "gone"
      BY <1>1, <2>2, <2>3, <2>4, <2>5 DEF TokenIsSpent, Reading
    <3>2. Reading(t)' = {} /\ Opened(t)' \subseteq {c}
      BY <2>2, <3>1 DEF Reading, Opened
    <3>3. QED
      BY <3>1, <3>2 DEF TokenIsSpent
  <2>6. CASE conns[c].token # t
    <3>1. Reading(t)' = Reading(t) /\ Opened(t)' = Opened(t)
      BY <2>2, <2>6 DEF Reading, Opened
    <3>2. QED
      BY <1>1, <2>3, <2>4, <3>1 DEF TokenIsSpent
  <2>7. QED
    BY <2>5, <2>6
<1>8. ASSUME NEW c \in Conns, NEW d, conns' = [conns EXCEPT ![c] = d], d.token = conns[c].token,
             raced' = raced, tokens' = tokens,
             \/ d.pc = conns[c].pc
             \/ {d.pc, conns[c].pc} \cap {"read", "refused"} = {}
      PROVE  TokenIsSpent(t)'
  <2>1. \A x \in Conns : conns'[x] = IF x = c THEN d ELSE conns[x]
    BY <1>1, <1>8
  <2>2. QED
    BY <1>2, <1>8, <2>1
<1>9. ASSUME NEW c \in Conns, Snapshot(c) \/ Subscribe(c) \/ Stop(c) \/ BusFails(c) \/ Leave(c) \/ SenderLoop(c)
       PROVE  TokenIsSpent(t)'
  <2>1. raced' = raced /\ tokens' = tokens
    BY <1>9 DEF Snapshot, Subscribe, Stop, BusFails, Leave, SenderLoop
  <2>2. PICK conn \in Conn : conn = conns[c]
    BY <1>1
  <2>3. PICK d : /\ conns' = [conns EXCEPT ![c] = d] /\ d.token = conn.token
                 /\ d.pc = conn.pc \/ {d.pc, conn.pc} \cap {"read", "refused"} = {}
    <3>1. CASE Snapshot(c)
      <4>1. PICK d : d = [conn EXCEPT !.pc = "snapshot", !.snap = InProgress]
        OBVIOUS
      <4>2. conns' = [conns EXCEPT ![c] = d] /\ conn.pc = "claimed"
        BY <1>1, <2>2, <3>1, <4>1 DEF Snapshot
      <4>3. d.token = conn.token /\ d.pc = "snapshot"
        BY ONLY <4>1, conn \in Conn DEF Conn
      <4>4. QED
        BY <4>2, <4>3
    <3>2. CASE Subscribe(c)
      <4>1. PICK d, n : d = [conn EXCEPT !.pc = "open", !.from = n] /\ n = Len(log)
        OBVIOUS
      <4>2. conns' = [conns EXCEPT ![c] = d] /\ conn.pc = "snapshot"
        BY <1>1, <2>2, <3>2, <4>1 DEF Subscribe
      <4>3. d.token = conn.token /\ d.pc = "open"
        BY ONLY <4>1, conn \in Conn DEF Conn
      <4>4. QED
        BY <4>2, <4>3
    <3>3. CASE Stop(c) \/ BusFails(c)
      <4>1. PICK d : d = [conn EXCEPT !.pc = "stopping"]
        OBVIOUS
      <4>2. conns' = [conns EXCEPT ![c] = d] /\ conn.pc \in {"claimed", "snapshot", "open"}
        BY <1>1, <2>2, <3>3, <4>1 DEF Stop, BusFails
      <4>3. d.token = conn.token /\ d.pc = "stopping"
        BY ONLY <4>1, conn \in Conn DEF Conn
      <4>4. QED
        BY <4>2, <4>3
    <3>4. CASE Leave(c)
      <4>1. PICK d : d = [conn EXCEPT !.gone = TRUE]
        OBVIOUS
      <4>2. conns' = [conns EXCEPT ![c] = d]
        BY <1>1, <2>2, <3>4, <4>1 DEF Leave
      <4>3. d.token = conn.token /\ d.pc = conn.pc
        BY ONLY <4>1, conn \in Conn DEF Conn
      <4>4. QED
        BY <4>2, <4>3
    <3>5. CASE SenderLoop(c)
      <4>1. PICK d, b, g : /\ d = [conn EXCEPT !.buffer = b, !.got = g]
                           /\ conns' = [conns EXCEPT ![c] = d]
        BY <1>1, <2>2, <3>5 DEF SenderLoop
      <4>2. d.token = conn.token /\ d.pc = conn.pc
        BY ONLY <4>1, conn \in Conn DEF Conn
      <4>3. QED
        BY <4>1, <4>2
    <3>6. QED
      BY <1>9, <3>1, <3>2, <3>3, <3>4, <3>5
  <2>4. QED
    BY <1>8, <2>1, <2>2, <2>3
<1>10. ASSUME NEW c \in Conns, BusLoop(c) \/ Heartbeat(c) \/ Close(c) PROVE TokenIsSpent(t)'
  <2>1. raced' = raced /\ tokens' = tokens
    BY <1>10 DEF BusLoop, Heartbeat, Close
  <2>2. PICK conn \in Conn : conn = conns[c] /\ Len(conn.buffer) <= SendBufferMax
    BY <1>1 DEF TypeOK
  <2>3. ASSUME NEW frame
        PROVE  Put(conn, frame).pc = conn.pc /\ Put(conn, frame).token = conn.token
    BY <2>2 DEF Put, Conn
  <2>4. CASE BusLoop(c)
    <3>1. PICK e, x : /\ conns' = [conns EXCEPT ![c] = [e EXCEPT !.inbox = x]]
                      /\ e = Put(conn, Head(conn.inbox))
      BY <2>2, <2>4 DEF BusLoop
    <3>2. [e EXCEPT !.inbox = x].pc = conn.pc /\ [e EXCEPT !.inbox = x].token = conn.token
      BY <2>2, <3>1 DEF Put, Conn
    <3>3. QED
      BY <1>8, <2>1, <2>2, <3>1, <3>2
  <2>5. CASE Heartbeat(c)
    <3>1. conns' = [conns EXCEPT ![c] = Put(conn, Ping)]
      BY <2>2, <2>5 DEF Heartbeat
    <3>2. QED
      BY <1>8, <2>1, <2>2, <2>3, <3>1
  <2>6. CASE Close(c)
    <3>1. PICK d : /\ conns' = [conns EXCEPT ![c] = d]
                   /\ d = [NewConn EXCEPT !.pc = "closed", !.token = conn.token, !.gone = conn.gone]
      BY <2>2, <2>6 DEF Close
    <3>2. d.pc = "closed" /\ d.token = conn.token /\ conn.pc = "stopping"
      BY <2>2, <2>6, <3>1 DEF Close, NewConn
    <3>3. QED
      BY <1>8, <2>1, <2>2, <3>1, <3>2
  <2>7. QED
    BY <1>10, <2>4, <2>5, <2>6
<1>11. QED
  BY <1>3, <1>4, <1>5, <1>6, <1>7, <1>9, <1>10 DEF Next, ConnStep

(* A token opens one connection, whatever tokens and connections there are, *)
(* unless two had read its key before either deleted it: that GET and DEL   *)
(* are two commands is the only way around it (redis_client.py:147-150).    *)
THEOREM ATokenOpensOne == Spec => []TokenOpensOne
<1>1. Init => TokensInv
  <2> SUFFICES ASSUME Init, NEW t \in WsTokens PROVE TokenIsSpent(t)
    BY DEF TokensInv
  <2>1. Reading(t) = {} /\ Opened(t) = {}
    BY HubAssumption DEF Init, NewConn, Reading, Opened
  <2>2. QED
    BY <2>1 DEF TokenIsSpent
<1>2. TokensInv => TokenOpensOne
  <2> SUFFICES ASSUME TokensInv, NEW t \in WsTokens \ raced PROVE Cardinality(Opened(t)) <= 1
    BY DEF TokenOpensOne
  <2>1. \A c, e \in Opened(t) : c = e
    BY DEF TokensInv, TokenIsSpent
  <2>2. CASE Opened(t) = {}
    BY <2>2, FS_EmptySet
  <2>3. CASE Opened(t) # {}
    <3>1. PICK c : Opened(t) = {c}
      BY <2>1, <2>3
    <3>2. QED
      BY <3>1, FS_Singleton
  <2>4. QED
    BY <2>2, <2>3
<1>3. HubInv => TypeOK
  BY DEF HubInv
<1>4. QED
  BY <1>1, <1>2, <1>3, TokenStepKeeps, HubInvariance, PTL DEF Spec

-----------------------------------------------------------------------------
(* The shared clients.                                                      *)

(* A client being made is made by the holder of the lock, in the attempt    *)
(* that holder is at, and its adapter keeps none.                           *)
OpeningIsHeld ==
  \A id \in Ids : life[id] = "opening" =>
    /\ Uses[id[1]] \in Entered /\ holder[Uses[id[1]]] = id[1] /\ client[Uses[id[1]]] = None
    /\ id[2] = task[id[1]].n /\ task[id[1]].pc \in {"opening", "failed"}

OpenIsKept == \A id \in Ids : life[id] = "open" => client[Uses[id[1]]] = id

OpenersOpen ==
  \A t \in Tasks : Comes(t, "opening") => life[Attempt(t)] = "opening" /\ Uses[t] \in Entered

(* A task is at its first attempt or its second.                            *)
Attempts ==
  \A t \in Tasks :
    /\ Comes(t, "idle") => task[t].n = 0
    /\ Comes(t, "again") => task[t].n = 1
    /\ task[t].pc \in {"waiting", "opening", "calling"} => task[t].n \in {1, 2}

(* What an adapter keeps is its own.                                        *)
KeepsItsOwn ==
  /\ \A a \in Adapters : client[a] # None => Uses[client[a][1]] = a
  /\ \A a \in Entered : context[a] # None => Uses[context[a][1]] = a

(* While a close is awaited its adapter still keeps the client, unless it   *)
(* took it out before, and has no other.                                    *)
DrainingIsDead ==
  draining # None /\ draining \notin Pooled =>
    /\ client[draining] # None
    /\ \A id \in Ids : Uses[id[1]] = draining => life[id] \notin {"opening", "open"}

IInv ==
  /\ ClientsTypeOK
  /\ OpeningIsHeld
  /\ OpenIsKept
  /\ OpenersOpen
  /\ Attempts
  /\ KeepsItsOwn
  /\ DrainingIsDead

-----------------------------------------------------------------------------
(* What a step changes of a task, a client's life and an adapter.           *)
LEMMA Facts ==
  ASSUME IInv, NEW t \in Tasks
  PROVE  /\ Uses[t] \in Adapters
         /\ task[t].n \in 0..2 /\ task[t].pc \in TaskStages
         /\ task[t].pc \in {"waiting", "opening", "calling"} => Attempt(t) \in Ids
         /\ task[t].pc \in {"idle", "again"} => <<t, task[t].n + 1>> \in Ids
  BY ClientsAssumption DEF IInv, ClientsTypeOK, Task, Attempt, Attempts, Comes, Ids

(* Initially nothing is made and nothing has begun. *)
LEMMA InitEstablishes == ClientsInit => IInv
  BY ClientsAssumption DEF ClientsInit, IInv, ClientsTypeOK, Task, TaskStages, OpeningIsHeld,
     OpenIsKept, OpenersOpen, Attempts, KeepsItsOwn, DrainingIsDead, Comes

(* The steps of a task keep the types. *)
LEMMA TaskMoves ==
  ASSUME IInv, NEW t \in Tasks, NEW p \in TaskStages, NEW n \in 0..2, NEW id \in Ids \cup {None},
         Moves(t, p, n, id)
  PROVE  task' \in [Tasks -> Task]
  BY DEF IInv, ClientsTypeOK, Task, Moves

(* A task finds its adapter's client. *)
LEMMA FindKeeps ==
  ASSUME IInv, NEW t \in Tasks, NEW n \in {1, 2}, task[t].pc \in {"idle", "again", "waiting"},
         Find(t, n), UNCHANGED <<process, mishaps>>
  PROVE  IInv'
<1>1. client[Uses[t]] \in Ids
  BY Facts DEF Find, IInv, ClientsTypeOK
<1>2. ClientsTypeOK'
  BY <1>1, TaskMoves DEF Find, IInv, ClientsTypeOK, process, TaskStages
<1>3. QED
  BY <1>1, <1>2 DEF Find, Moves, IInv, OpeningIsHeld, OpenIsKept, OpenersOpen, Attempts, KeepsItsOwn,
     DrainingIsDead, process, Comes, Attempt, ClientsTypeOK, Task

(* It makes one, its adapter keeping none. *)
LEMMA MakeKeeps ==
  ASSUME IInv, NEW t \in Tasks, NEW n \in {1, 2}, task[t].pc \in {"idle", "again"},
         client[Uses[t]] = None, Make(t, n), UNCHANGED <<process, mishaps>>
  PROVE  IInv'
<1>1. <<t, n>> \in Ids /\ Uses[t] \in Adapters
  BY Facts DEF Ids
<1>2. ClientsTypeOK'
  BY <1>1, TaskMoves DEF Make, IInv, ClientsTypeOK, process, TaskStages
<1>3. OpeningIsHeld'
  BY <1>1 DEF Make, Moves, IInv, OpeningIsHeld, ClientsTypeOK, Task, Ids
<1>4. OpenIsKept'
  <2> SUFFICES ASSUME NEW id \in Ids, life'[id] = "open", id # <<t, n>>
               PROVE  client'[Uses[id[1]]] = id
    BY <1>1 DEF Make, OpenIsKept, IInv, ClientsTypeOK
  <2>1. life[id] = "open" /\ client[Uses[id[1]]] = id /\ id # None
    BY <1>1, ClientsAssumption DEF Make, IInv, ClientsTypeOK, OpenIsKept
  <2>2. QED
    BY <1>1, <2>1 DEF Make, IInv, ClientsTypeOK
<1>5. OpenersOpen' /\ Attempts' /\ KeepsItsOwn'
  BY <1>1 DEF Make, Moves, IInv, OpenersOpen, Attempts, KeepsItsOwn, ClientsTypeOK, Task, Comes, Attempt, Ids
<1>6. DrainingIsDead'
  BY <1>1 DEF Make, IInv, DrainingIsDead, process, ClientsTypeOK, Ids
<1>7. QED
  BY <1>2, <1>3, <1>4, <1>5, <1>6 DEF IInv

(* It begins to make one, under the lock, its adapter keeping none. *)
LEMMA EnterKeeps ==
  ASSUME IInv, NEW t \in Tasks, NEW n \in {1, 2}, task[t].pc \in {"idle", "again", "waiting"},
         client[Uses[t]] = None, holder[Uses[t]] = None, Enter(t, n), UNCHANGED <<process, mishaps>>
  PROVE  IInv'
<1>1. <<t, n>> \in Ids /\ Uses[t] \in Adapters /\ t # None
  BY Facts, ClientsAssumption DEF Ids
<1>2. ClientsTypeOK'
  BY <1>1, TaskMoves DEF Enter, IInv, ClientsTypeOK, process, TaskStages
<1>3. OpeningIsHeld'
  <2> SUFFICES ASSUME NEW id \in Ids, life'[id] = "opening"
               PROVE  /\ Uses[id[1]] \in Entered /\ holder'[Uses[id[1]]] = id[1]
                      /\ client'[Uses[id[1]]] = None /\ id[2] = task'[id[1]].n
                      /\ task'[id[1]].pc \in {"opening", "failed"}
    BY DEF OpeningIsHeld
  <2>1. CASE id = <<t, n>>
    BY <1>1, <2>1 DEF Enter, Moves, IInv, ClientsTypeOK, Task
  <2>2. CASE id # <<t, n>>
    <3>1. life[id] = "opening" /\ id[1] \in Tasks
      BY <1>1, <2>2 DEF Enter, IInv, ClientsTypeOK, Ids
    <3>2. id[1] # t /\ Uses[id[1]] # Uses[t]
      BY <1>1, <3>1, ClientsAssumption DEF IInv, OpeningIsHeld
    <3>3. QED
      BY <3>1, <3>2 DEF Enter, Moves, IInv, OpeningIsHeld, ClientsTypeOK
  <2>3. QED
    BY <2>1, <2>2
<1>4. OpenIsKept'
  BY <1>1 DEF Enter, IInv, OpenIsKept, ClientsTypeOK
<1>5. OpenersOpen' /\ Attempts' /\ KeepsItsOwn'
  BY <1>1 DEF Enter, Moves, IInv, OpenersOpen, Attempts, KeepsItsOwn, ClientsTypeOK, Task, Comes, Attempt, Ids
<1>6. DrainingIsDead'
  BY <1>1 DEF Enter, IInv, DrainingIsDead, process, ClientsTypeOK, Ids
<1>7. QED
  BY <1>2, <1>3, <1>4, <1>5, <1>6 DEF IInv

(* A call begins, or a skill asks again. *)
LEMMA GetClientKeeps == ASSUME IInv, NEW t \in Tasks, GetClient(t) PROVE IInv'
<1> DEFINE n == task[t].n + 1
<1>1. task[t].pc \in {"idle", "again"} /\ n \in {1, 2} /\ UNCHANGED <<process, mishaps>>
  BY DEF GetClient, IInv, Attempts, Comes
<1>2. CASE Find(t, n)
  BY <1>1, <1>2, FindKeeps
<1>3. CASE client[Uses[t]] = None /\ Make(t, n)
  BY <1>1, <1>3, MakeKeeps
<1>4. CASE client[Uses[t]] = None /\ Uses[t] \in Entered /\ holder[Uses[t]] = None /\ Enter(t, n)
  BY <1>1, <1>4, EnterKeeps
<1>5. CASE Moves(t, "waiting", n, None) /\ UNCHANGED <<client, context, holder, life>>
  <2>1. ClientsTypeOK'
    BY <1>1, <1>5, TaskMoves DEF IInv, ClientsTypeOK, process, TaskStages
  <2>2. QED
    BY <1>1, <1>5, <2>1 DEF Moves, IInv, OpeningIsHeld, OpenIsKept, OpenersOpen, Attempts, KeepsItsOwn,
       DrainingIsDead, process, Comes, Attempt, ClientsTypeOK, Task
<1>6. QED
  BY <1>2, <1>3, <1>4, <1>5 DEF GetClient

(* A waiting task has the lock. *)
LEMMA AcquireKeeps == ASSUME IInv, NEW t \in Tasks, Acquire(t) PROVE IInv'
<1>1. task[t].pc = "waiting" /\ task[t].n \in {1, 2} /\ UNCHANGED <<process, mishaps>>
  BY DEF Acquire, IInv, Attempts, Comes
<1>2. CASE Find(t, task[t].n)
  BY <1>1, <1>2, FindKeeps
<1>3. CASE client[Uses[t]] = None /\ Enter(t, task[t].n)
  BY <1>1, <1>3, EnterKeeps DEF Acquire
<1>4. QED
  BY <1>2, <1>3 DEF Acquire

(* The client it made is open. *)
LEMMA ClientOpensKeeps == ASSUME IInv, NEW t \in Tasks, ClientOpens(t) PROVE IInv'
<1> DEFINE a == Uses[t]
           id0 == Attempt(t)
<1>1. /\ task[t].pc = "opening" /\ task[t].n \in {1, 2} /\ id0 \in Ids /\ a \in Entered /\ a \in Adapters
      /\ life[id0] = "opening" /\ client[a] = None /\ holder[a] = t
      /\ id0[1] = t /\ id0 # None /\ t # None
  BY Facts, ClientsAssumption DEF ClientOpens, IInv, OpenersOpen, OpeningIsHeld, Attempts, Comes, Attempt
<1>2. ClientsTypeOK'
  BY <1>1, TaskMoves DEF ClientOpens, IInv, ClientsTypeOK, process, TaskStages
<1>3. OpeningIsHeld'
  <2> SUFFICES ASSUME NEW id \in Ids, life'[id] = "opening"
               PROVE  /\ Uses[id[1]] \in Entered /\ holder'[Uses[id[1]]] = id[1]
                      /\ client'[Uses[id[1]]] = None /\ id[2] = task'[id[1]].n
                      /\ task'[id[1]].pc \in {"opening", "failed"}
    BY DEF OpeningIsHeld
  <2>1. id # id0 /\ life[id] = "opening" /\ id[1] \in Tasks
    BY <1>1 DEF ClientOpens, IInv, ClientsTypeOK, Ids
  <2>2. id[1] # t
    BY <1>1, <2>1 DEF IInv, OpeningIsHeld, Attempt, Ids
  <2>3. Uses[id[1]] # a
    BY <1>1, <2>1, <2>2 DEF IInv, OpeningIsHeld
  <2>4. QED
    BY <1>1, <2>1, <2>2, <2>3 DEF ClientOpens, Moves, IInv, OpeningIsHeld, ClientsTypeOK
<1>4. OpenIsKept'
  <2> SUFFICES ASSUME NEW id \in Ids, life'[id] = "open", id # id0
               PROVE  client'[Uses[id[1]]] = id
    BY <1>1 DEF ClientOpens, OpenIsKept, IInv, ClientsTypeOK
  <2>1. life[id] = "open" /\ client[Uses[id[1]]] = id /\ id # None
    BY <1>1, ClientsAssumption DEF ClientOpens, IInv, ClientsTypeOK, OpenIsKept
  <2>2. QED
    BY <1>1, <2>1 DEF ClientOpens, IInv, ClientsTypeOK
<1>5. OpenersOpen' /\ Attempts' /\ KeepsItsOwn'
  BY <1>1 DEF ClientOpens, Moves, IInv, OpenersOpen, Attempts, KeepsItsOwn, ClientsTypeOK, Task, Comes, Attempt
<1>6. DrainingIsDead'
  BY <1>1 DEF ClientOpens, IInv, DrainingIsDead, process, ClientsTypeOK
<1>7. QED
  BY <1>2, <1>3, <1>4, <1>5, <1>6 DEF IInv

(* It did not open. *)
LEMMA OpenFailsKeeps == ASSUME IInv, NEW t \in Tasks, OpenFails(t) PROVE IInv'
<1> DEFINE a == Uses[t]
           id0 == Attempt(t)
<1>1. /\ task[t].pc = "opening" /\ task[t].n \in {1, 2} /\ id0 \in Ids /\ a \in Entered /\ a \in Adapters
      /\ life[id0] = "opening" /\ client[a] = None /\ holder[a] = t
      /\ id0[1] = t /\ t # None
  BY Facts, ClientsAssumption DEF OpenFails, IInv, OpenersOpen, OpeningIsHeld, Attempts, Comes, Attempt
<1>2. ClientsTypeOK'
  BY <1>1, TaskMoves, ClientsAssumption DEF OpenFails, Mishap, Ends, IInv, ClientsTypeOK, process, TaskStages
<1>3. OpeningIsHeld'
  <2> SUFFICES ASSUME NEW id \in Ids, life'[id] = "opening"
               PROVE  /\ Uses[id[1]] \in Entered /\ holder'[Uses[id[1]]] = id[1]
                      /\ client'[Uses[id[1]]] = None /\ id[2] = task'[id[1]].n
                      /\ task'[id[1]].pc \in {"opening", "failed"}
    BY DEF OpeningIsHeld
  <2>1. id # id0 /\ life[id] = "opening" /\ id[1] \in Tasks
    BY <1>1 DEF OpenFails, IInv, ClientsTypeOK, Ids
  <2>2. id[1] # t
    BY <1>1, <2>1 DEF IInv, OpeningIsHeld, Attempt, Ids
  <2>3. Uses[id[1]] # a
    BY <1>1, <2>1, <2>2 DEF IInv, OpeningIsHeld
  <2>4. QED
    BY <1>1, <2>1, <2>2, <2>3 DEF OpenFails, Ends, Moves, IInv, OpeningIsHeld, ClientsTypeOK
<1>4. OpenIsKept' /\ KeepsItsOwn' /\ DrainingIsDead'
  BY <1>1 DEF OpenFails, IInv, OpenIsKept, KeepsItsOwn, DrainingIsDead, process, ClientsTypeOK
<1>5. OpenersOpen' /\ Attempts'
  BY <1>1 DEF OpenFails, Ends, Moves, IInv, OpenersOpen, Attempts, ClientsTypeOK, Task, Comes, Attempt
<1>6. QED
  BY <1>2, <1>3, <1>4, <1>5 DEF IInv

(* A call is answered or fails. *)
LEMMA CallsKeep ==
  ASSUME IInv, NEW t \in Tasks, Answered(t) \/ Misanswered(t) \/ CallFails(t)
  PROVE  IInv'
<1>1. /\ task[t].pc = "calling" /\ task[t].n \in {1, 2}
      /\ UNCHANGED <<process, client, context, holder, life>> /\ mishaps' \in 0..MaxMishaps
  BY ClientsAssumption
     DEF Answered, Misanswered, CallFails, Mishap, IInv, ClientsTypeOK, Attempts, Comes
<1>2. PICK p \in {"done", "failed", "again"} : Moves(t, p, task[t].n, None) /\ (p = "again" => task[t].n = 1)
  BY <1>1 DEF Answered, Misanswered, CallFails, Ends
<1>3. ClientsTypeOK'
  BY <1>1, <1>2, TaskMoves DEF IInv, ClientsTypeOK, process, TaskStages
<1>4. QED
  BY <1>1, <1>2, <1>3 DEF Moves, IInv, OpeningIsHeld, OpenIsKept, OpenersOpen, Attempts, KeepsItsOwn,
     DrainingIsDead, process, Comes, Attempt, ClientsTypeOK, Task

-----------------------------------------------------------------------------
(* A close begins. *)
LEMMA CloseKeeps == ASSUME IInv, NEW a \in Adapters, CloseClient(a) PROVE IInv'
<1>1. CASE Passed(a) /\ UNCHANGED <<server, client, context, holder, task, mishaps>>
  BY <1>1 DEF Passed, IInv, ClientsTypeOK, OpeningIsHeld, OpenIsKept, OpenersOpen, Attempts, KeepsItsOwn,
     DrainingIsDead, Comes, Attempt
<1>2. CASE /\ a \in Entered /\ context[a] # None /\ life[context[a]] = "open"
           /\ Closing(a, context[a]) /\ UNCHANGED <<server, client, context, holder, task, mishaps>>
  <2>1. context[a] \in Ids /\ client[a] = context[a] /\ client[a] # None /\ a # None
    BY <1>2, ClientsAssumption DEF IInv, ClientsTypeOK, KeepsItsOwn, OpenIsKept
  <2>2. \A id \in Ids : Uses[id[1]] = a => life'[id] \notin {"opening", "open"}
    BY <1>2, <2>1 DEF Closing, IInv, ClientsTypeOK, OpenIsKept, OpeningIsHeld
  <2>3. QED
    BY <1>2, <2>1, <2>2 DEF Closing, IInv, ClientsTypeOK, OpeningIsHeld, OpenIsKept, OpenersOpen, Attempts,
       KeepsItsOwn, DrainingIsDead, Comes, Attempt
<1>3. CASE /\ a \notin Entered /\ client[a] # None /\ Closing(a, client[a])
           /\ IF a \in Pooled THEN client' = [client EXCEPT ![a] = None] ELSE UNCHANGED client
           /\ UNCHANGED <<server, context, holder, task, mishaps>>
  <2>1. client[a] \in Ids /\ Uses[client[a][1]] = a /\ a # None
    BY <1>3, ClientsAssumption DEF IInv, ClientsTypeOK, KeepsItsOwn
  <2>2. \A id \in Ids : Uses[id[1]] = a => life'[id] \notin {"opening", "open"}
    BY <1>3, <2>1 DEF Closing, IInv, ClientsTypeOK, OpenIsKept, OpeningIsHeld
  <2>3. ClientsTypeOK' /\ Attempts' /\ KeepsItsOwn'
    BY <1>3, <2>1 DEF Closing, IInv, ClientsTypeOK, Attempts, KeepsItsOwn, Comes
  <2>4. OpeningIsHeld' /\ OpenIsKept' /\ DrainingIsDead'
    <3>1. \A id \in Ids : /\ life'[id] \in {"opening", "open"} => life'[id] = life[id] /\ Uses[id[1]] # a
      BY <1>3, <2>1, <2>2 DEF Closing, IInv, ClientsTypeOK
    <3>2. /\ \A b \in Adapters : b # a \/ a \notin Pooled => client'[b] = client[b]
          /\ \A id \in Ids : Uses[id[1]] \in Adapters
      BY <1>3, ClientsAssumption DEF IInv, ClientsTypeOK, Ids
    <3>3. OpeningIsHeld'
      BY <1>3, <3>1, <3>2 DEF IInv, OpeningIsHeld
    <3>4. OpenIsKept'
      BY <1>3, <3>1, <3>2 DEF IInv, OpenIsKept
    <3>5. DrainingIsDead'
      BY <1>3, <2>2, <3>2 DEF Closing, DrainingIsDead
    <3>6. QED
      BY <3>3, <3>4, <3>5
  <2>5. OpenersOpen'
    BY <1>3, <2>1, Facts DEF Closing, IInv, ClientsTypeOK, OpenersOpen, Comes, Attempt
  <2>6. QED
    BY <2>3, <2>4, <2>5 DEF IInv
<1>4. CASE /\ a \notin Entered /\ client[a] = None /\ Passed(a)
           /\ IF a \in Pooled THEN client' = [client EXCEPT ![a] = None] ELSE UNCHANGED client
           /\ UNCHANGED <<server, context, holder, task, mishaps>>
  <2>1. client' = client
    BY <1>4 DEF IInv, ClientsTypeOK
  <2>2. QED
    BY <1>1, <1>4, <2>1
<1>5. QED
  BY <1>1, <1>2, <1>3, <1>4 DEF CloseClient

(* What an awaited close leaves: nothing of the adapter is alive, or it was *)
(* taken out before.                                                        *)
LEMMA ClosedKeeps ==
  ASSUME IInv, NEW a \in Adapters, Closed(a)
  PROVE  /\ \A id \in Ids : /\ life'[id] = "open" <=> life[id] = "open"
                            /\ life'[id] = "opening" <=> life[id] = "opening"
         /\ life' \in [Ids -> {"none", "opening", "open", "closing", "closed", "broken"}]
  BY DEF Closed, IInv, ClientsTypeOK

(* A close ends, or raises. *)
LEMMA CloseEndsKeeps ==
  ASSUME IInv, NEW a \in Adapters, CloseEnds(a) \/ CloseRaises(a)
  PROVE  IInv'
<1>1. /\ draining = a /\ draining' = None /\ drained' = drained \cup {a} /\ Closed(a)
      /\ UNCHANGED <<server, holder, task>> /\ mishaps' \in 0..MaxMishaps
  BY ClientsAssumption DEF CloseEnds, CloseRaises, Mishap, IInv, ClientsTypeOK
<1>2. /\ client' \in [Adapters -> Ids \cup {None}] /\ context' \in [Entered -> Ids \cup {None}]
      /\ \A b \in Adapters : client'[b] \in {client[b], None}
      /\ \A b \in Adapters : b # a \/ a \in Pooled => client'[b] = client[b]
      /\ \A b \in Entered : context'[b] \in {context[b], None}
  BY DEF CloseEnds, CloseRaises, IInv, ClientsTypeOK
<1>3. a \notin Pooled => \A id \in Ids : Uses[id[1]] = a => life[id] \notin {"opening", "open"}
  BY <1>1, ClientsAssumption DEF IInv, DrainingIsDead
<1>4. \A id \in Ids : Uses[id[1]] \in Adapters
  BY ClientsAssumption DEF Ids
<1>5. ClientsTypeOK'
  BY <1>1, <1>2, ClosedKeeps DEF IInv, ClientsTypeOK
<1>6. OpeningIsHeld'
  BY <1>1, <1>2, <1>4, ClosedKeeps DEF IInv, OpeningIsHeld
<1>7. OpenIsKept'
  BY <1>1, <1>2, <1>3, <1>4, ClosedKeeps DEF IInv, OpenIsKept
<1>8. OpenersOpen' /\ Attempts'
  BY <1>1, ClosedKeeps, Facts DEF IInv, OpenersOpen, Attempts, Comes, Attempt
<1>9. KeepsItsOwn' /\ DrainingIsDead'
  BY <1>1, <1>2 DEF IInv, KeepsItsOwn, DrainingIsDead
<1>10. QED
  BY <1>5, <1>6, <1>7, <1>8, <1>9 DEF IInv

(* The loop ends. *)
LEMMA ExitKeeps == ASSUME IInv, Exit PROVE IInv'
<1>2. \A t \in Tasks : task'[t].pc # "failed" => task'[t] = task[t]
  BY DEF Exit
<1>3. \A t \in Tasks : task'[t].n = task[t].n /\ task'[t].pc \in {task[t].pc, "failed"}
  BY DEF Exit
<1>4. task' \in [Tasks -> Task]
  BY DEF Exit, IInv, ClientsTypeOK, Task, TaskStages
<1>5. ClientsTypeOK'
  BY <1>4 DEF Exit, IInv, ClientsTypeOK
<1>6. OpeningIsHeld'
  BY <1>3 DEF Exit, IInv, OpeningIsHeld, Ids
<1>7. OpenersOpen' /\ Attempts'
  BY <1>2, <1>3 DEF Exit, IInv, OpenersOpen, Attempts, Comes, Attempt
<1>8. QED
  BY <1>5, <1>6, <1>7 DEF Exit, IInv, OpenIsKept, KeepsItsOwn, DrainingIsDead

-----------------------------------------------------------------------------
LEMMA StepKeeps == IInv /\ [ClientsNext]_clientVars => IInv'
<1> SUFFICES ASSUME IInv, [ClientsNext]_clientVars PROVE IInv'
  OBVIOUS
<1>1. CASE Boot \/ StartUp \/ ShutDown \/ UNCHANGED clientVars
  BY <1>1 DEF Boot, StartUp, ShutDown, clientVars, IInv, ClientsTypeOK, OpeningIsHeld, OpenIsKept,
     OpenersOpen, Attempts, KeepsItsOwn, DrainingIsDead, Comes, Attempt
<1>2. CASE Drain
  BY <1>2, ExitKeeps, CloseKeeps, CloseEndsKeeps DEF Drain
<1>3. CASE \E t \in Tasks : CallGoesOn(t)
  BY <1>3, GetClientKeeps, AcquireKeeps, ClientOpensKeeps, OpenFailsKeeps, CallsKeep DEF CallGoesOn
<1>4. QED
  BY <1>1, <1>2, <1>3 DEF ClientsNext, GoesOn

(* The inductive invariant holds in every reachable state. *)
THEOREM Invariance == ClientsSpec => []IInv
  BY InitEstablishes, StepKeeps, PTL DEF ClientsSpec

(* Type correctness of the clients, their locks and the tasks that call     *)
(* them; in particular no skill asks a third time (skills/base.py:90).      *)
THEOREM TypeCorrect == ClientsSpec => []ClientsTypeOK
<1>1. IInv => ClientsTypeOK
  BY DEF IInv
<1>2. QED
  BY <1>1, Invariance, PTL

LEMMA OneOfAKind == IInv => OneClient
<1> SUFFICES ASSUME IInv, NEW a \in Adapters, NEW x \in Alive(a), NEW y \in Alive(a) PROVE x = y
  BY DEF OneClient
<1>1. x \in Ids /\ y \in Ids /\ Uses[x[1]] = a /\ Uses[y[1]] = a
  BY DEF Alive
<1>2. CASE life[x] = "open" /\ life[y] = "open"
  BY <1>1, <1>2 DEF IInv, OpenIsKept
<1>3. CASE life[x] = "opening" /\ life[y] = "opening"
  BY <1>1, <1>3 DEF IInv, OpeningIsHeld, Ids
<1>4. x # None /\ y # None
  BY <1>1, ClientsAssumption
<1>5. QED
  BY <1>1, <1>2, <1>3, <1>4 DEF Alive, IInv, OpenIsKept, OpeningIsHeld

(* However calls, the startup and the shutdown interleave, and whatever     *)
(* fails, no client is made beside another of its kind that is open or      *)
(* being made: the double check under _init_lock does what it is for.       *)
THEOREM NeverTwoClients == ClientsSpec => []OneClient
  BY OneOfAKind, Invariance, PTL

-----------------------------------------------------------------------------
(* Why a failure stays with the task it befell.  Until the shutdown no      *)
(* close is under way, so a client stays open once it is: every call under  *)
(* way is on an open one, and can fail only at the cost of a mishap.        *)
Failures   == {t \in Tasks : Comes(t, "failed") /\ (Uses[t] \in Skilled => task[t].n < 2)}
NotStopped == server \in {"off", "starting", "up"}

(* What is counted, beside the mishaps met so far. *)
Counted == IsFiniteSet(Failures) /\ Cardinality(Failures) <= mishaps

(* No adapter is being closed, and each keeps an open client or none. *)
KeptAreOpen ==
  /\ draining = None
  /\ \A a \in Adapters : client[a] # None => life[client[a]] = "open"

CallsAreOpen == \A t \in Tasks : Comes(t, "calling") => task[t].using \in Ids /\ life[task[t].using] = "open"

Alone == NotStopped => KeptAreOpen /\ CallsAreOpen /\ Counted

(* A step of a task that had not failed adds that task to the failures, or  *)
(* nothing; and only what it met then may have added it.                    *)
LEMMA TaskIsCounted ==
  ASSUME IInv, Counted, NEW t \in Tasks, NEW p, NEW n, NEW id, Moves(t, p, n, id), ~Comes(t, "failed"),
         \/ mishaps' = mishaps /\ (p = "failed" => Uses[t] \in Skilled /\ ~(n < 2))
         \/ mishaps' = mishaps + 1
  PROVE  Counted'
<1>1. /\ task'[t] = [pc |-> p, n |-> n, using |-> id]
      /\ \A u \in Tasks : u # t => task'[u] = task[u]
  BY DEF Moves, IInv, ClientsTypeOK
<1>2. t \notin Failures
  BY DEF Failures
<1>3. \A u \in Tasks : u # t => (u \in Failures <=> u \in Failures')
  BY <1>1 DEF Failures, Comes
<1>4. mishaps \in Nat
  BY ClientsAssumption DEF IInv, ClientsTypeOK
<1>5. /\ IsFiniteSet(Failures \cup {t}) /\ Cardinality(Failures \cup {t}) = Cardinality(Failures) + 1
      /\ Cardinality(Failures) \in Nat
  BY <1>2, FS_AddElement, FS_CardinalityType DEF Counted
<1>6. CASE Failures' = Failures
  BY <1>4, <1>5, <1>6 DEF Counted
<1>7. CASE Failures' # Failures
  <2>1. t \in Failures'
    BY <1>2, <1>3, <1>7 DEF Failures
  <2>2. Failures' = Failures \cup {t}
    BY <1>3, <2>1 DEF Failures
  <2>3. p = "failed" /\ (Uses[t] \in Skilled => n < 2)
    BY <1>1, <2>1 DEF Failures, Comes
  <2>4. QED
    BY <1>4, <1>5, <2>2, <2>3 DEF Counted
<1>8. QED
  BY <1>6, <1>7

(* What is open stays so, and what opens is what its adapter keeps. *)
LEMMA OpenStays ==
  ASSUME IInv, Alone, NotStopped, NEW t \in Tasks, CallGoesOn(t)
  PROVE  /\ \A id \in Ids : life[id] = "open" => life'[id] = "open"
         /\ \A a \in Adapters : client'[a] # client[a] => life'[client'[a]] = "open"
         /\ UNCHANGED <<process>>
<1>1. /\ Uses[t] \in Adapters /\ task[t].n \in 0..2
      /\ task[t].pc \in {"waiting", "opening", "calling"} => Attempt(t) \in Ids
      /\ task[t].pc \in {"idle", "again"} => <<t, task[t].n + 1>> \in Ids
  BY Facts
<1>2. CASE UNCHANGED <<process, client, life>>
  BY <1>2
<1>3. ASSUME NEW n \in {1, 2}, <<t, n>> \in Ids, client[Uses[t]] = None, Make(t, n) \/ Enter(t, n),
             UNCHANGED process
      PROVE  /\ \A id \in Ids : life[id] = "open" => life'[id] = "open"
             /\ \A a \in Adapters : client'[a] # client[a] => life'[client'[a]] = "open"
  <2>1. life[<<t, n>>] # "open"
    BY <1>3, ClientsAssumption DEF IInv, OpenIsKept
  <2>2. QED
    BY <1>1, <1>3, <2>1 DEF Make, Enter, IInv, ClientsTypeOK
<1>4. CASE GetClient(t)
  <2>1. task[t].pc \in {"idle", "again"} /\ task[t].n + 1 \in {1, 2} /\ UNCHANGED process
    BY <1>4 DEF GetClient, IInv, Attempts, Comes
  <2>2. CASE UNCHANGED <<client, life>>
    BY <1>2, <2>1, <2>2
  <2>3. CASE client[Uses[t]] = None /\ (Make(t, task[t].n + 1) \/ Enter(t, task[t].n + 1))
    BY <1>1, <1>3, <2>1, <2>3
  <2>4. QED
    BY <1>4, <2>2, <2>3 DEF GetClient, Find
<1>5. CASE Acquire(t)
  <2>1. task[t].pc = "waiting" /\ task[t].n \in {1, 2} /\ UNCHANGED process
    BY <1>5 DEF Acquire, IInv, Attempts, Comes
  <2>2. CASE UNCHANGED <<client, life>>
    BY <1>2, <2>1, <2>2
  <2>3. CASE client[Uses[t]] = None /\ Enter(t, task[t].n)
    BY <1>1, <1>3, <2>1, <2>3 DEF Attempt
  <2>4. QED
    BY <1>5, <2>2, <2>3 DEF Acquire, Find
<1>6. CASE ClientOpens(t)
  BY <1>1, <1>6 DEF ClientOpens, IInv, ClientsTypeOK, Comes
<1>7. CASE OpenFails(t)
  <2>1. life[Attempt(t)] = "opening" /\ Attempt(t) \in Ids
    BY <1>1, <1>7 DEF OpenFails, IInv, OpenersOpen, Comes
  <2>2. QED
    BY <1>7, <2>1 DEF OpenFails, IInv, ClientsTypeOK
<1>8. CASE Answered(t) \/ Misanswered(t) \/ CallFails(t)
  BY <1>2, <1>8 DEF Answered, Misanswered, CallFails
<1>9. QED
  BY <1>4, <1>5, <1>6, <1>7, <1>8 DEF CallGoesOn

(* Where a step takes a task, and what it costs. *)
LEMMA TaskGoesOn ==
  ASSUME IInv, Alone, NotStopped, NEW t \in Tasks, CallGoesOn(t)
  PROVE  \E p \in TaskStages, n \in 0..2, id \in Ids \cup {None} :
           /\ Moves(t, p, n, id) /\ ~Comes(t, "failed")
           /\ p = "calling" => id \in Ids /\ life'[id] = "open"
           /\ \/ mishaps' = mishaps /\ (p = "failed" => Uses[t] \in Skilled /\ ~(n < 2))
              \/ mishaps' = mishaps + 1
<1>1. /\ Uses[t] \in Adapters /\ task[t].n \in 0..2
      /\ task[t].pc \in {"waiting", "opening", "calling"} => Attempt(t) \in Ids
      /\ task[t].pc \in {"idle", "again"} => <<t, task[t].n + 1>> \in Ids /\ task[t].n + 1 \in 0..2
  BY Facts DEF IInv, Attempts, Comes
<1>2. client[Uses[t]] # None => client[Uses[t]] \in Ids /\ life[client[Uses[t]]] = "open"
  BY <1>1 DEF Alone, KeptAreOpen, IInv, ClientsTypeOK
<1>3. task[t].pc = "calling" => life[task[t].using] = "open"
  BY DEF Alone, CallsAreOpen, Comes
<1>4. \A p \in {"idle", "waiting", "opening", "calling", "again", "done", "failed"} : p \in TaskStages
  BY DEF TaskStages
<1>5. CASE GetClient(t)
  <2>1. ~Comes(t, "failed") /\ mishaps' = mishaps /\ <<t, task[t].n + 1>> \in Ids /\ task[t].n + 1 \in 0..2
    BY <1>1, <1>5 DEF GetClient, Comes
  <2>2. CASE Find(t, task[t].n + 1)
    BY <1>2, <1>4, <2>1, <2>2 DEF Find
  <2>3. CASE Make(t, task[t].n + 1)
    <3>1. life'[<<t, task[t].n + 1>>] = "open"
      BY <2>1, <2>3 DEF Make, IInv, ClientsTypeOK
    <3>2. QED
      BY <1>4, <2>1, <2>3, <3>1 DEF Make
  <2>4. CASE Enter(t, task[t].n + 1)
    BY <1>4, <2>1, <2>4 DEF Enter
  <2>5. CASE Moves(t, "waiting", task[t].n + 1, None)
    BY <1>4, <2>1, <2>5
  <2>6. QED
    BY <1>5, <2>2, <2>3, <2>4, <2>5 DEF GetClient
<1>6. CASE Acquire(t)
  <2>1. ~Comes(t, "failed") /\ mishaps' = mishaps /\ Attempt(t) \in Ids
    BY <1>1, <1>6 DEF Acquire, Comes
  <2>2. CASE Find(t, task[t].n)
    BY <1>1, <1>2, <1>4, <2>1, <2>2 DEF Find
  <2>3. CASE Enter(t, task[t].n)
    BY <1>1, <1>4, <2>1, <2>3 DEF Enter, Attempt
  <2>4. QED
    BY <1>6, <2>2, <2>3 DEF Acquire
<1>7. CASE ClientOpens(t)
  <2>1. ~Comes(t, "failed") /\ mishaps' = mishaps /\ Attempt(t) \in Ids /\ life'[Attempt(t)] = "open"
        /\ Moves(t, "calling", task[t].n, Attempt(t))
    BY <1>1, <1>7 DEF ClientOpens, Comes, IInv, ClientsTypeOK
  <2>2. QED
    BY <1>1, <1>4, <2>1
<1>8. CASE OpenFails(t) \/ CallFails(t)
  <2>1. ~Comes(t, "failed") /\ mishaps' = mishaps + 1 /\ Moves(t, "failed", task[t].n, None)
    BY <1>3, <1>8 DEF OpenFails, CallFails, Comes, Mishap, Ends
  <2>2. QED
    BY <1>1, <1>4, <2>1
<1>9. CASE Answered(t)
  <2>1. ~Comes(t, "failed") /\ mishaps' = mishaps /\ Moves(t, "done", task[t].n, None)
    BY <1>9 DEF Answered, Comes, Ends
  <2>2. QED
    BY <1>1, <1>4, <2>1
<1>10. CASE Misanswered(t)
  <2>1. ~Comes(t, "failed") /\ mishaps' = mishaps /\ Uses[t] \in Skilled
    BY <1>10 DEF Misanswered, Comes
  <2>2. CASE task[t].n < 2
    <3>1. Moves(t, "again", task[t].n, None)
      BY <1>10, <2>2 DEF Misanswered, Ends
    <3>2. QED
      BY <1>1, <1>4, <2>1, <3>1
  <2>3. CASE ~(task[t].n < 2)
    <3>1. Moves(t, "failed", task[t].n, None)
      BY <1>10, <2>3 DEF Misanswered, Ends
    <3>2. QED
      BY <1>1, <1>4, <2>1, <2>3, <3>1
  <2>4. QED
    BY <2>2, <2>3
<1>11. QED
  BY <1>5, <1>6, <1>7, <1>8, <1>9, <1>10 DEF CallGoesOn

(* So a task's step keeps every failure a task's own. *)
LEMMA TaskKeepsAlone ==
  ASSUME IInv, Alone, NEW t \in Tasks, CallGoesOn(t)
  PROVE  Alone'
<1> SUFFICES ASSUME NotStopped' PROVE (KeptAreOpen /\ CallsAreOpen /\ Counted)'
  BY DEF Alone
<1>1. UNCHANGED process
  BY DEF CallGoesOn, GetClient, Acquire, ClientOpens, OpenFails, Answered, Misanswered, CallFails
<1>2. NotStopped /\ UNCHANGED <<process>>
  BY <1>1 DEF NotStopped, process
<1>3. /\ \A id \in Ids : life[id] = "open" => life'[id] = "open"
      /\ \A a \in Adapters : client'[a] # client[a] => life'[client'[a]] = "open"
  BY <1>2, OpenStays
<1>4. KeptAreOpen'
  BY <1>2, <1>3 DEF Alone, KeptAreOpen, process, IInv, ClientsTypeOK
<1>5. PICK p \in TaskStages, n \in 0..2, id \in Ids \cup {None} :
           /\ Moves(t, p, n, id) /\ ~Comes(t, "failed")
           /\ p = "calling" => id \in Ids /\ life'[id] = "open"
           /\ \/ mishaps' = mishaps /\ (p = "failed" => Uses[t] \in Skilled /\ ~(n < 2))
              \/ mishaps' = mishaps + 1
  BY <1>2, TaskGoesOn
<1>6. Counted'
  BY <1>2, <1>5, TaskIsCounted DEF Alone
<1>7. /\ task'[t].pc = p /\ task'[t].using = id
      /\ \A u \in Tasks : u # t => task'[u] = task[u]
  BY <1>5 DEF Moves, IInv, ClientsTypeOK
<1>8. CallsAreOpen'
  BY <1>2, <1>3, <1>5, <1>7 DEF Alone, CallsAreOpen, Comes
<1>9. QED
  BY <1>4, <1>6, <1>8

(* Before the shutdown, the process itself fails nobody. *)
LEMMA StepKeepsAlone == IInv /\ Alone /\ [ClientsNext]_clientVars => Alone'
<1> SUFFICES ASSUME IInv, Alone, [ClientsNext]_clientVars PROVE Alone'
  OBVIOUS
<1>1. CASE Boot \/ StartUp \/ ShutDown \/ UNCHANGED clientVars
  BY <1>1 DEF Boot, StartUp, ShutDown, clientVars, Alone, NotStopped, KeptAreOpen, CallsAreOpen, Counted,
     Failures, Comes
<1>2. CASE Exit
  BY <1>2 DEF Exit, Alone, NotStopped
<1>3. ASSUME NEW a \in Adapters, CloseClient(a) \/ CloseEnds(a) \/ CloseRaises(a)
      PROVE  Alone'
  <2>1. server' = server /\ (server = "stopping" \/ draining # None)
    BY <1>3, ClientsAssumption DEF CloseClient, CloseEnds, CloseRaises
  <2>2. QED
    BY <2>1 DEF Alone, NotStopped, KeptAreOpen
<1>4. CASE \E t \in Tasks : CallGoesOn(t)
  BY <1>4, TaskKeepsAlone
<1>5. QED
  BY <1>1, <1>2, <1>3, <1>4 DEF ClientsNext, GoesOn, Drain

(* Until the process stops, a call fails for a failure of its own, or for   *)
(* two answers that did not fit its skill: a client that did not open gives *)
(* back its lock, and one that is kept stays open for those that share it.  *)
THEOREM AFailureStaysAlone == ClientsSpec => []FailsAlone
<1>1. ClientsInit => Alone
  <2>1. ClientsInit => Failures = {}
    BY DEF ClientsInit, Failures, Comes
  <2>2. QED
    BY <2>1, FS_EmptySet DEF ClientsInit, Alone, KeptAreOpen, CallsAreOpen, Counted, Comes
<1>2. Alone => FailsAlone
  BY DEF Alone, NotStopped, Counted, Failures, FailsAlone
<1>3. QED
  BY <1>1, <1>2, StepKeepsAlone, Invariance, PTL DEF ClientsSpec

-----------------------------------------------------------------------------
(* The turns. *)

(* Places of marks *)

LEMMA LeastOf ==
  ASSUME NEW T \in SUBSET Nat, T # {}
  PROVE  \E m \in T : \A k \in T : m <= k
<1> DEFINE R == {ss \in Nat \X Nat : ss[1] < ss[2]}
<1>1. IsWellFoundedOn(R, Nat)
  BY NatLessThanWellFounded DEF OpToRel
<1>2. PICK m \in T : \A k \in T : ~ (<<k, m>> \in R)
  BY <1>1, WFMin
<1>3. \A k \in T : k \in Nat /\ m \in Nat /\ ~ (k < m)
  BY <1>2
<1> HIDE DEF R
<1> QED
  BY <1>3

Marks == {OpenMark, CloseMark}

(* A mark has two letters.                                                  *)
LEMMA MarkStands ==
  ASSUME NEW S, NEW s \in Seq(S), NEW i \in Nat, NEW mark \in Marks
  PROVE  Stands(s, i, mark) <=> i + 1 <= Len(s) /\ s[i] = mark[1] /\ s[i + 1] = mark[2]
<1>1. Len(mark) = 2
  BY DEF Marks, OpenMark, CloseMark
<1>2. Len(s) \in Nat
  OBVIOUS
<1>3. i + Len(mark) <= Len(s) + 1 <=> i + 1 <= Len(s)
  BY <1>1, <1>2
<1>4. (\A k \in 1..Len(mark) : s[i + k - 1] = mark[k]) <=> s[i + 1 - 1] = mark[1] /\ s[i + 2 - 1] = mark[2]
  <2>1. 1..Len(mark) = {1, 2}
    BY <1>1
  <2> QED
    BY <2>1
<1>5. i + 1 - 1 = i /\ i + 2 - 1 = i + 1
  OBVIOUS
<1> QED
  BY <1>3, <1>4, <1>5 DEF Stands

(* Place(s, p, mark) is where the mark first stands beyond p, or 0.         *)
LEMMA PlaceIs ==
  ASSUME NEW S, NEW s \in Seq(S), NEW p \in Nat, NEW mark \in Marks
  PROVE  \/ /\ Place(s, p, mark) = 0
            /\ \A i \in (p + 1)..Len(s) : ~Stands(s, i, mark)
         \/ /\ Place(s, p, mark) \in (p + 1)..Len(s)
            /\ Place(s, p, mark) + 1 <= Len(s)
            /\ Stands(s, Place(s, p, mark), mark)
            /\ \A i \in (p + 1)..Len(s) : Stands(s, i, mark) => Place(s, p, mark) <= i
<1> DEFINE P == {i \in (p + 1)..Len(s) : Stands(s, i, mark)}
<1>0. Len(s) \in Nat /\ P \in SUBSET Nat
  OBVIOUS
<1>1. CASE P = {}
  BY <1>1 DEF Place
<1>2. CASE P # {}
  <2>1. \E i \in P : \A j \in P : i <= j
    BY <1>0, <1>2, LeastOf
  <2>2. Place(s, p, mark) = CHOOSE i \in P : \A j \in P : i <= j
    BY <1>2 DEF Place
  <2>3. Place(s, p, mark) \in P /\ \A j \in P : Place(s, p, mark) <= j
    BY <2>1, <2>2
  <2>4. Place(s, p, mark) + 1 <= Len(s)
    BY <2>3, MarkStands
  <2> QED
    BY <2>3, <2>4
<1> QED
  BY <1>1, <1>2

(* What first stands there is the place.                                    *)
LEMMA PlaceFound ==
  ASSUME NEW S, NEW s \in Seq(S), NEW p \in Nat, NEW mark \in Marks, NEW i \in (p + 1)..Len(s),
         Stands(s, i, mark), \A j \in (p + 1)..Len(s) : Stands(s, j, mark) => i <= j
  PROVE  Place(s, p, mark) = i
<1>1. Place(s, p, mark) \in (p + 1)..Len(s) /\ Stands(s, Place(s, p, mark), mark) /\ Place(s, p, mark) <= i
  BY PlaceIs
<1> QED
  BY <1>1

(* s is what r has from b on, up to c.                                      *)
IsPart(s, r, b, c) == Len(s) = c - b /\ \A j \in 1..(c - b) : s[j] = r[b + j]

(* A mark in the scanner's buffer is one in the reply.                      *)
LEMMA StandsInBuffer ==
  ASSUME NEW S, NEW r \in Seq(S), NEW b \in Nat, NEW c \in b..Len(r), NEW s \in Seq(S), IsPart(s, r, b, c),
         NEW mark \in Marks, NEW i \in 1..(c - b)
  PROVE  Stands(s, i, mark) <=> Stands(r, b + i, mark) /\ b + i + 1 <= c
<1>1. Len(r) \in Nat /\ Len(s) = c - b /\ \A j \in 1..(c - b) : s[j] = r[b + j]
  BY DEF IsPart
<1>2. Stands(s, i, mark) <=> i + 1 <= Len(s) /\ s[i] = mark[1] /\ s[i + 1] = mark[2]
  BY MarkStands
<1>3. Stands(r, b + i, mark) <=> b + i + 1 <= Len(r) /\ r[b + i] = mark[1] /\ r[b + i + 1] = mark[2]
  BY MarkStands
<1>4. i + 1 <= c - b <=> b + i + 1 <= c
  OBVIOUS
<1>5. i + 1 <= c - b => s[i + 1] = r[b + (i + 1)] /\ b + (i + 1) = b + i + 1
  BY <1>1
<1> QED
  BY <1>1, <1>2, <1>3, <1>4, <1>5

LEMMA PlaceInBuffer ==
  ASSUME NEW S, NEW r \in Seq(S), NEW b \in Nat, NEW c \in b..Len(r), NEW s \in Seq(S), IsPart(s, r, b, c),
         NEW mark \in Marks
  PROVE  /\ Place(s, 0, mark) # 0 =>
              Place(s, 0, mark) \in 1..(c - b) /\ b + Place(s, 0, mark) + 1 <= c
                /\ Place(r, b, mark) = b + Place(s, 0, mark)
         /\ Place(s, 0, mark) = 0 => \A i \in (b + 1)..Len(r) : Stands(r, i, mark) => c <= i
<1>0. Len(r) \in Nat
  OBVIOUS
<1>1. Len(s) = c - b
  BY DEF IsPart
<1>2. \A i \in 1..(c - b) : Stands(s, i, mark) <=> Stands(r, b + i, mark) /\ b + i + 1 <= c
  BY StandsInBuffer
<1>3. ASSUME Place(s, 0, mark) # 0
      PROVE  Place(s, 0, mark) \in 1..(c - b) /\ b + Place(s, 0, mark) + 1 <= c
                /\ Place(r, b, mark) = b + Place(s, 0, mark)
  <2> DEFINE n == Place(s, 0, mark)
  <2>1. n \in 1..(c - b) /\ Stands(s, n, mark) /\ \A i \in 1..(c - b) : Stands(s, i, mark) => n <= i
    BY <1>1, <1>3, PlaceIs
  <2>2. Stands(r, b + n, mark) /\ b + n + 1 <= c
    BY <1>2, <2>1
  <2>3. ASSUME NEW j \in (b + 1)..Len(r), Stands(r, j, mark) PROVE b + n <= j
    <3> HIDE DEF n
    <3>1. CASE j + 1 <= c
      <4>1. j - b \in 1..(c - b) /\ b + (j - b) = j
        BY <3>1
      <4>2. Stands(s, j - b, mark)
        BY <1>2, <2>3, <3>1, <4>1
      <4>3. n <= j - b
        BY <2>1, <4>1, <4>2
      <4> QED
        BY <2>1, <4>3
    <3>2. CASE j + 1 > c
      BY <2>1, <2>2, <3>2
    <3> QED
      BY <3>1, <3>2
  <2>4. b + n \in (b + 1)..Len(r)
    BY <1>0, <2>1
  <2> HIDE DEF n
  <2>5. Place(r, b, mark) = b + n
    BY <2>2, <2>3, <2>4, PlaceFound
  <2> QED
    BY <2>1, <2>2, <2>5 DEF n
<1>4. ASSUME Place(s, 0, mark) = 0, NEW i \in (b + 1)..Len(r), Stands(r, i, mark) PROVE c <= i
  <2>1. \A j \in 1..(c - b) : ~Stands(s, j, mark)
    BY <1>1, <1>4, PlaceIs
  <2>2. CASE i < c
    <3>1. i - b \in 1..(c - b) /\ b + (i - b) = i
      BY <2>2
    <3> QED
      BY <1>2, <1>4, <2>1, <2>2, <3>1
  <2> QED
    BY <2>2
<1> QED
  BY <1>1, <1>3, <1>4

(* A place does not depend on where one begins before it.                   *)
LEMMA PlaceBeyond ==
  ASSUME NEW S, NEW r \in Seq(S), NEW b \in Nat, NEW d \in b..Len(r), NEW mark \in Marks,
         \A i \in (b + 1)..d : ~Stands(r, i, mark)
  PROVE  Place(r, b, mark) = Place(r, d, mark)
<1>0. Len(r) \in Nat
  OBVIOUS
<1>1. CASE Place(r, d, mark) = 0
  <2>1. \A i \in (d + 1)..Len(r) : ~Stands(r, i, mark)
    BY <1>1, PlaceIs
  <2>2. \A i \in (b + 1)..Len(r) : ~Stands(r, i, mark)
    <3> SUFFICES ASSUME NEW i \in (b + 1)..Len(r) PROVE ~Stands(r, i, mark)
      OBVIOUS
    <3>1. i \in (b + 1)..d \/ i \in (d + 1)..Len(r)
      BY <1>0
    <3> QED
      BY <2>1, <3>1
  <2> QED
    BY <1>1, <2>2, PlaceIs
<1>2. CASE Place(r, d, mark) # 0
  <2> DEFINE n == Place(r, d, mark)
  <2>1. n \in (d + 1)..Len(r) /\ Stands(r, n, mark) /\ \A i \in (d + 1)..Len(r) : Stands(r, i, mark) => n <= i
    BY <1>2, PlaceIs
  <2> HIDE DEF n
  <2>2. ASSUME NEW i \in (b + 1)..Len(r), Stands(r, i, mark) PROVE n <= i
    <3>1. i \in (d + 1)..Len(r)
      BY <1>0, <2>2
    <3> QED
      BY <2>1, <2>2, <3>1
  <2>3. n \in (b + 1)..Len(r)
    BY <2>1
  <2> QED
    BY <2>1, <2>2, <2>3, PlaceFound DEF n
<1> QED
  BY <1>1, <1>2

-----------------------------------------------------------------------------
(* The reply read at one go *)

Sayable  == Words \cup {"not run"}
Answers  == [says : Seq(Words), ends : BOOLEAN, hangs : BOOLEAN]

(* What is said of a marker and, from q on, after it; f tells the rest.     *)
Told(rs, f, k, raw, q) ==
  IF ~Parsed(raw) THEN f[q][k]
  ELSE IF k = Len(rs) THEN <<"not run">>
  ELSE IF rs[k + 1].ends THEN rs[k + 1].says
  ELSE rs[k + 1].says \o f[q][k + 1]

(* What is said from within a marker on.                                    *)
Within(r, rs, f, b, k) ==
  LET j == Place(r, b, CloseMark) IN
  IF j = 0 THEN <<>> ELSE Told(rs, f, k, SubSeq(r, b + 1, j - 1), j + 1)

From(r, rs, f, p, k) ==
  LET i == Place(r, p, OpenMark) IN
  IF i = 0 THEN After(r, p) ELSE SubSeq(r, p + 1, i - 1) \o Within(r, rs, f, i + 1, k)

Recites(r, rs, f) == f = [p \in 0..Len(r) |-> [k \in 0..Len(rs) |-> From(r, rs, f, p, k)]]

LEMMA ReadFromIsChosen ==
  ASSUME NEW r, NEW rs
  PROVE  ReadFrom(r, rs) = CHOOSE f : Recites(r, rs, f)
BY DEF ReadFrom, Recites, From, Within, Told

Readings(r, rs) == [0..Len(r) -> [0..Len(rs) -> Seq(Sayable)]]

LEMMA ReplyIsSayable ==
  ASSUME NEW r \in Seq(Letters), NEW m \in Nat, NEW n \in Int, n <= Len(r), m >= 1
  PROVE  SubSeq(r, m, n) \in Seq(Sayable)
<1>1. \A i \in m..n : r[i] \in Sayable
  <2>1. \A i \in 1..Len(r) : r[i] \in Letters
    BY ElementOfSeq
  <2>2. \A i \in m..n : i \in 1..Len(r)
    OBVIOUS
  <2> QED
    BY <2>1, <2>2 DEF Sayable, Words
<1> QED
  BY <1>1, SubSeqProperties

(* A marker's ends lie within the reply.                                    *)
LEMMA MarksAreWithin ==
  ASSUME NEW r \in Seq(Letters), NEW p \in Nat, NEW mark \in Marks, Place(r, p, mark) # 0
  PROVE  Place(r, p, mark) \in (p + 1)..Len(r) /\ Place(r, p, mark) + 1 \in (p + 2)..Len(r)
BY PlaceIs

LEMMA WithinIsSayable ==
  ASSUME NEW r \in Seq(Letters), NEW rs \in Seq(Answers), NEW f \in Readings(r, rs),
         NEW b \in Nat, NEW k \in 0..Len(rs)
  PROVE  Within(r, rs, f, b, k) \in Seq(Sayable)
<1> DEFINE j == Place(r, b, CloseMark)
<1>1. CASE j = 0
  BY <1>1 DEF Within
<1>2. CASE j # 0
  <2>1. j + 1 \in 0..Len(r)
    BY <1>2, MarksAreWithin DEF Marks
  <2>2. f[j + 1][k] \in Seq(Sayable)
    BY <2>1 DEF Readings
  <2>3. k # Len(rs) => k + 1 \in 0..Len(rs) /\ f[j + 1][k + 1] \in Seq(Sayable) /\ rs[k + 1].says \in Seq(Sayable)
    <3> SUFFICES ASSUME k # Len(rs)
                 PROVE  k + 1 \in 0..Len(rs) /\ f[j + 1][k + 1] \in Seq(Sayable) /\ rs[k + 1].says \in Seq(Sayable)
      OBVIOUS
    <3>1. k + 1 \in 1..Len(rs)
      OBVIOUS
    <3>2. rs[k + 1] \in Answers
      BY <3>1, ElementOfSeq
    <3>3. rs[k + 1].says \in Seq(Words) /\ Words \subseteq Sayable
      BY <3>2 DEF Answers, Sayable
    <3>4. rs[k + 1].says \in Seq(Sayable)
      BY <3>3, SeqMonotonic
    <3>5. f[j + 1][k + 1] \in Seq(Sayable)
      BY <2>1, <3>1 DEF Readings
    <3> QED
      BY <3>1, <3>4, <3>5
  <2>4. <<"not run">> \in Seq(Sayable)
    BY DEF Sayable
  <2>5. k # Len(rs) => rs[k + 1].says \o f[j + 1][k + 1] \in Seq(Sayable)
    BY <2>3, ConcatProperties
  <2> HIDE DEF j
  <2> QED
    BY <1>2, <2>2, <2>3, <2>4, <2>5 DEF Within, Told, j
<1> QED
  BY <1>1, <1>2

LEMMA FromIsSayable ==
  ASSUME NEW r \in Seq(Letters), NEW rs \in Seq(Answers), NEW f \in Readings(r, rs),
         NEW p \in 0..Len(r), NEW k \in 0..Len(rs)
  PROVE  From(r, rs, f, p, k) \in Seq(Sayable)
<1> DEFINE i == Place(r, p, OpenMark)
<1>1. CASE i = 0
  <2>1. After(r, p) \in Seq(Sayable)
    BY ReplyIsSayable DEF After
  <2> QED
    BY <1>1, <2>1 DEF From
<1>2. CASE i # 0
  <2>1. i \in (p + 1)..Len(r)
    BY <1>2, MarksAreWithin DEF Marks
  <2>2. SubSeq(r, p + 1, i - 1) \in Seq(Sayable)
    BY <2>1, ReplyIsSayable
  <2>3. Within(r, rs, f, i + 1, k) \in Seq(Sayable)
    BY <2>1, WithinIsSayable
  <2>4. From(r, rs, f, p, k) = SubSeq(r, p + 1, i - 1) \o Within(r, rs, f, i + 1, k)
    BY <1>2 DEF From
  <2> HIDE DEF i
  <2> QED
    BY <2>2, <2>3, <2>4, ConcatProperties
<1> QED
  BY <1>1, <1>2

(* What is said from p on is told by what is said from beyond p.            *)
LEMMA FromLooksAhead ==
  ASSUME NEW r \in Seq(Letters), NEW rs, NEW f, NEW g, NEW p \in 0..Len(r), NEW k,
         \A q \in 0..Len(r) : p < q => g[q] = f[q]
  PROVE  From(r, rs, g, p, k) = From(r, rs, f, p, k)
<1> DEFINE i == Place(r, p, OpenMark)
           j == Place(r, i + 1, CloseMark)
<1>1. CASE i = 0
  BY <1>1 DEF From
<1>2. CASE i # 0
  <2>1. i \in (p + 1)..Len(r)
    BY <1>2, MarksAreWithin DEF Marks
  <2>2. j # 0 => j + 1 \in 0..Len(r) /\ p < j + 1
    BY <2>1, MarksAreWithin DEF Marks
  <2>3. j # 0 => g[j + 1] = f[j + 1]
    BY <2>2
  <2>4. Within(r, rs, g, i + 1, k) = Within(r, rs, f, i + 1, k)
    BY <2>3 DEF Within, Told
  <2> QED
    BY <1>2, <2>4 DEF From
<1> QED
  BY <1>1, <1>2

LEMMA RecitalExists ==
  ASSUME NEW r \in Seq(Letters), NEW rs \in Seq(Answers)
  PROVE  \E f \in Readings(r, rs) : Recites(r, rs, f)
<1> DEFINE n == Len(r)
           Holds(f, m) == \A p \in 0..n : m <= p => f[p] = [k \in 0..Len(rs) |-> From(r, rs, f, p, k)]
           T == {d \in 0..(n + 1) : ~\E f \in Readings(r, rs) : Holds(f, n + 1 - d)}
<1>0. n \in Nat /\ T \in SUBSET Nat /\ \A d \in T : d <= n + 1
  OBVIOUS
<1>1. 0 \notin T
  <2> DEFINE f == [p \in 0..n |-> [k \in 0..Len(rs) |-> <<>>]]
  <2>1. f \in Readings(r, rs)
    BY DEF Readings
  <2>2. Holds(f, n + 1 - 0)
    BY <1>0
  <2> QED
    BY <2>1, <2>2
<1>2. ASSUME NEW d \in 0..n, d \notin T PROVE d + 1 \notin T
  <2>1. PICK f \in Readings(r, rs) : Holds(f, n + 1 - d)
    BY <1>0, <1>2
  <2> DEFINE m == n - d
             row == [k \in 0..Len(rs) |-> From(r, rs, f, m, k)]
             g == [f EXCEPT ![m] = row]
  <2>2. m \in 0..n /\ n + 1 - (d + 1) = m /\ n + 1 - d = m + 1
    BY <1>0
  <2>3. row \in [0..Len(rs) -> Seq(Sayable)]
    BY <2>2, FromIsSayable
  <2>4. g \in Readings(r, rs) /\ g[m] = row /\ \A q \in 0..n : q # m => g[q] = f[q]
    BY <2>2, <2>3 DEF Readings
  <2> HIDE DEF m, row, g
  <2>5. ASSUME NEW p \in 0..n, m <= p PROVE g[p] = [k \in 0..Len(rs) |-> From(r, rs, g, p, k)]
    <3>1. \A q \in 0..n : p < q => g[q] = f[q]
      BY <2>2, <2>4, <2>5
    <3>2. \A k \in 0..Len(rs) : From(r, rs, g, p, k) = From(r, rs, f, p, k)
      BY <3>1, FromLooksAhead
    <3>3. CASE p = m
      BY <2>4, <3>2, <3>3 DEF row
    <3>4. CASE p # m
      <4>1. m + 1 <= p
        BY <2>2, <2>5, <3>4
      <4>2. f[p] = [k \in 0..Len(rs) |-> From(r, rs, f, p, k)]
        BY <2>1, <2>2, <4>1
      <4> QED
        BY <2>4, <3>2, <3>4, <4>2
    <3> QED
      BY <3>3, <3>4
  <2>6. Holds(g, n + 1 - (d + 1))
    BY <2>2, <2>5
  <2> QED
    BY <2>4, <2>6
<1> HIDE DEF T, Holds, n
<1>3. T = {}
  <2> SUFFICES ASSUME T # {} PROVE FALSE
    OBVIOUS
  <2>1. PICK d \in T : \A e \in T : d <= e
    BY <1>0, LeastOf
  <2>2. d \in Nat /\ d # 0 /\ d - 1 \in 0..n /\ ~(d <= d - 1)
    BY <1>0, <1>1, <2>1
  <2>3. d - 1 \notin T
    BY <2>1, <2>2, Zenon
  <2>4. (d - 1) + 1 \notin T
    BY <1>2, <2>2, <2>3
  <2> QED
    BY <2>1, <2>2, <2>4
<1>4. n + 1 \notin T /\ n + 1 \in 0..(n + 1) /\ n + 1 - (n + 1) = 0
  BY <1>0, <1>3
<1>5. PICK f \in Readings(r, rs) : Holds(f, 0)
  BY <1>4 DEF T
<1> USE DEF n
<1>6. \A p \in 0..n : f[p] = [k \in 0..Len(rs) |-> From(r, rs, f, p, k)]
  BY <1>0, <1>5 DEF Holds
<1>7. f = [p \in 0..n |-> [k \in 0..Len(rs) |-> From(r, rs, f, p, k)]]
  BY <1>6 DEF Readings
<1> QED
  BY <1>5, <1>7 DEF Recites

(* The rule has one reading.                                                *)
LEMMA RecitalIsOne ==
  ASSUME NEW r \in Seq(Letters), NEW rs, NEW f, NEW g, Recites(r, rs, f), Recites(r, rs, g)
  PROVE  f = g
<1> DEFINE n == Len(r)
           T == {d \in 0..n : f[n - d] # g[n - d]}
<1>0. n \in Nat /\ T \in SUBSET Nat
  OBVIOUS
<1>1. \A p \in 0..n : /\ f[p] = [k \in 0..Len(rs) |-> From(r, rs, f, p, k)]
                      /\ g[p] = [k \in 0..Len(rs) |-> From(r, rs, g, p, k)]
  BY Zenon DEF Recites
<1>2. T = {}
  <2> SUFFICES ASSUME T # {} PROVE FALSE
    OBVIOUS
  <2>1. PICK d \in T : \A e \in T : d <= e
    BY <1>0, LeastOf
  <2> DEFINE p == n - d
  <2>2. p \in 0..n /\ f[p] # g[p]
    BY <1>0, <2>1
  <2>3. ASSUME NEW q \in 0..n, p < q PROVE g[q] = f[q]
    <3>1. n - q \in 0..n /\ n - (n - q) = q /\ ~(d <= n - q)
      BY <1>0, <2>1, <2>3
    <3> QED
      BY <2>1, <3>1
  <2> HIDE DEF p
  <2>4. \A k \in 0..Len(rs) : From(r, rs, g, p, k) = From(r, rs, f, p, k)
    BY <2>2, <2>3, FromLooksAhead
  <2> QED
    BY <1>1, <2>2, <2>4
<1>3. \A p \in 0..n : f[p] = g[p]
  <2> SUFFICES ASSUME NEW p \in 0..n PROVE f[p] = g[p]
    OBVIOUS
  <2>1. n - p \in 0..n /\ n - (n - p) = p
    BY <1>0
  <2> QED
    BY <1>2, <2>1
<1>4. f = [p \in 0..n |-> f[p]] /\ g = [p \in 0..n |-> g[p]]
  BY DEF Recites
<1> QED
  BY <1>3, <1>4

(* The rule of the reading.                                                 *)
LEMMA ReadRecites ==
  ASSUME NEW r \in Seq(Letters), NEW rs \in Seq(Answers)
  PROVE  ReadFrom(r, rs) \in Readings(r, rs) /\ Recites(r, rs, ReadFrom(r, rs))
<1>1. PICK f \in Readings(r, rs) : Recites(r, rs, f)
  BY RecitalExists
<1>2. Recites(r, rs, ReadFrom(r, rs))
  BY <1>1, ReadFromIsChosen
<1> QED
  BY <1>1, <1>2, RecitalIsOne

LEMMA ReadUnfolds ==
  ASSUME NEW r \in Seq(Letters), NEW rs \in Seq(Answers), NEW p \in 0..Len(r), NEW k \in 0..Len(rs)
  PROVE  /\ ReadFrom(r, rs)[p][k] = From(r, rs, ReadFrom(r, rs), p, k)
         /\ ReadFrom(r, rs)[p][k] \in Seq(Sayable)
<1>1. PICK f : f = ReadFrom(r, rs)
  OBVIOUS
<1>2. f \in Readings(r, rs) /\ Recites(r, rs, f)
  BY <1>1, ReadRecites
<1>3. f[p] = [l \in 0..Len(rs) |-> From(r, rs, f, p, l)]
  BY <1>2, Zenon DEF Recites
<1>4. f[p][k] = From(r, rs, f, p, k)
  BY <1>3
<1> QED
  BY <1>1, <1>2, <1>4 DEF Readings

-----------------------------------------------------------------------------
(* Parts of the reply, and what is said of them *)

LEMMA PartOfPart ==
  ASSUME NEW r \in Seq(Letters), NEW b \in Nat, NEW c \in b..Len(r), NEW s \in Seq(Letters), IsPart(s, r, b, c),
         NEW n \in 0..(c - b)
  PROVE  /\ SubSeq(s, 1, n) = SubSeq(r, b + 1, b + n)
         /\ SubSeq(s, 1, n) \in Seq(Letters)
         /\ After(s, n) \in Seq(Letters)
         /\ IsPart(After(s, n), r, b + n, c)
<1>0. Len(r) \in Nat /\ Len(s) = c - b /\ \A j \in 1..(c - b) : s[j] = r[b + j] /\ s[j] \in Letters
  BY ElementOfSeq DEF IsPart
<1>1. /\ SubSeq(s, 1, n) \in Seq(Letters) /\ Len(SubSeq(s, 1, n)) = n
      /\ \A i \in 1..n : SubSeq(s, 1, n)[i] = s[i]
  <2>1. \A i \in 1..n : s[i] \in Letters
    BY <1>0
  <2>2. /\ SubSeq(s, 1, n) \in Seq(Letters)
        /\ Len(SubSeq(s, 1, n)) = IF 1 <= n THEN n - 1 + 1 ELSE 0
        /\ \A i \in 1..(n - 1 + 1) : SubSeq(s, 1, n)[i] = s[1 + i - 1]
    BY <2>1, SubSeqProperties
  <2> QED
    BY <2>2
<1>2. /\ SubSeq(r, b + 1, b + n) \in Seq(Letters) /\ Len(SubSeq(r, b + 1, b + n)) = n
      /\ \A i \in 1..n : SubSeq(r, b + 1, b + n)[i] = r[b + i]
  <2>1. \A i \in (b + 1)..(b + n) : r[i] \in Letters
    <3>1. \A i \in (b + 1)..(b + n) : i \in 1..Len(r)
      BY <1>0
    <3> QED
      BY <3>1, ElementOfSeq
  <2>2. /\ SubSeq(r, b + 1, b + n) \in Seq(Letters)
        /\ Len(SubSeq(r, b + 1, b + n)) = IF b + 1 <= b + n THEN (b + n) - (b + 1) + 1 ELSE 0
        /\ \A i \in 1..((b + n) - (b + 1) + 1) : SubSeq(r, b + 1, b + n)[i] = r[(b + 1) + i - 1]
    BY <2>1, SubSeqProperties
  <2> QED
    BY <2>2
<1>3. SubSeq(s, 1, n) = SubSeq(r, b + 1, b + n)
  <2>1. \A i \in 1..n : SubSeq(s, 1, n)[i] = SubSeq(r, b + 1, b + n)[i]
    BY <1>0, <1>1, <1>2
  <2> QED
    BY <1>1, <1>2, <2>1, SeqEqual
<1>4. /\ After(s, n) \in Seq(Letters) /\ Len(After(s, n)) = c - b - n
      /\ \A i \in 1..(c - b - n) : After(s, n)[i] = s[n + i]
  <2>1. \A i \in (n + 1)..Len(s) : s[i] \in Letters
    BY <1>0
  <2>2. /\ After(s, n) \in Seq(Letters)
        /\ Len(After(s, n)) = IF n + 1 <= Len(s) THEN Len(s) - (n + 1) + 1 ELSE 0
        /\ \A i \in 1..(Len(s) - (n + 1) + 1) : After(s, n)[i] = s[(n + 1) + i - 1]
    BY <1>0, <2>1, SubSeqProperties DEF After
  <2> QED
    BY <1>0, <2>2
<1>5. IsPart(After(s, n), r, b + n, c)
  BY <1>0, <1>4 DEF IsPart
<1> QED
  BY <1>1, <1>3, <1>4, <1>5

(* A token moves from the rest to the buffer.                               *)
LEMMA PartsJoin ==
  ASSUME NEW r \in Seq(Letters), NEW b \in Nat, NEW c \in b..Len(r), NEW d \in c..Len(r),
         NEW s \in Seq(Letters), IsPart(s, r, b, c), NEW u \in Seq(Letters), IsPart(u, r, c, d)
  PROVE  s \o u \in Seq(Letters) /\ IsPart(s \o u, r, b, d)
<1>0. /\ Len(r) \in Nat /\ Len(s) = c - b /\ \A j \in 1..(c - b) : s[j] = r[b + j]
      /\ Len(u) = d - c /\ \A j \in 1..(d - c) : u[j] = r[c + j]
  BY DEF IsPart
<1>1. /\ s \o u \in Seq(Letters) /\ Len(s \o u) = d - b
      /\ \A j \in 1..(d - b) : (s \o u)[j] = IF j <= Len(s) THEN s[j] ELSE u[j - Len(s)]
  <2>1. /\ s \o u \in Seq(Letters) /\ Len(s \o u) = Len(s) + Len(u)
        /\ \A j \in 1..(Len(s) + Len(u)) : (s \o u)[j] = IF j <= Len(s) THEN s[j] ELSE u[j - Len(s)]
    BY ConcatProperties
  <2>2. Len(s) + Len(u) = d - b
    BY <1>0
  <2> QED
    BY <2>1, <2>2
<1>2. ASSUME NEW j \in 1..(d - b) PROVE (s \o u)[j] = r[b + j]
  <2>1. CASE j <= c - b
    BY <1>0, <1>1, <2>1
  <2>2. CASE ~(j <= c - b)
    <3>1. j - (c - b) \in 1..(d - c) /\ c + (j - (c - b)) = b + j
      BY <2>2
    <3> QED
      BY <1>0, <1>1, <2>2, <3>1
  <2> QED
    BY <2>1, <2>2
<1> QED
  BY <1>1, <1>2 DEF IsPart

(* Text is said as it is.                                                   *)
LEMMA TextIsSaid ==
  ASSUME NEW r \in Seq(Letters), NEW rs \in Seq(Answers), NEW b \in Nat, NEW d \in b..Len(r), NEW k \in 0..Len(rs),
         \A i \in (b + 1)..d : ~Stands(r, i, OpenMark)
  PROVE  ReadFrom(r, rs)[b][k] = SubSeq(r, b + 1, d) \o ReadFrom(r, rs)[d][k]
<1> DEFINE i == Place(r, b, OpenMark)
           f == ReadFrom(r, rs)
<1>0. Len(r) \in Nat /\ b \in 0..Len(r) /\ d \in 0..Len(r)
  OBVIOUS
<1>1. Place(r, d, OpenMark) = i
  BY PlaceBeyond DEF Marks
<1>2. f[b][k] = From(r, rs, f, b, k) /\ f[d][k] = From(r, rs, f, d, k)
  BY <1>0, ReadUnfolds
<1>3. CASE i = 0
  <2>1. f[b][k] = SubSeq(r, b + 1, Len(r)) /\ f[d][k] = SubSeq(r, d + 1, Len(r))
    BY <1>1, <1>2, <1>3 DEF From, After
  <2>2. SubSeq(r, b + 1, Len(r)) = SubSeq(r, b + 1, d) \o SubSeq(r, d + 1, Len(r))
    <3>1. b + 1 \in 1..(Len(r) + 1) /\ d \in ((b + 1) - 1)..Len(r) /\ Len(r) \in d..Len(r)
      BY <1>0
    <3> QED
      BY <3>1, ConcatAdjacentSubSeq
  <2> QED
    BY <2>1, <2>2
<1>4. CASE i # 0
  <2> DEFINE w == Within(r, rs, f, i + 1, k)
             u == SubSeq(r, b + 1, d)
             v == SubSeq(r, d + 1, i - 1)
  <2>1. i \in (b + 1)..Len(r) /\ i \in (d + 1)..Len(r)
    BY <1>0, <1>1, <1>4, MarksAreWithin DEF Marks
  <2>2. f[b][k] = SubSeq(r, b + 1, i - 1) \o w /\ f[d][k] = v \o w
    BY <1>1, <1>2, <1>4 DEF From
  <2>3. w \in Seq(Sayable)
    BY <2>1, ReadRecites, WithinIsSayable
  <2>4. u \in Seq(Sayable) /\ v \in Seq(Sayable)
    <3>1. /\ b + 1 \in Nat /\ d + 1 \in Nat /\ d \in Int /\ i - 1 \in Int
          /\ b + 1 >= 1 /\ d + 1 >= 1 /\ d <= Len(r) /\ i - 1 <= Len(r)
      BY <1>0, <2>1
    <3> QED
      BY <3>1, ReplyIsSayable
  <2>5. SubSeq(r, b + 1, i - 1) = u \o v
    <3>1. b + 1 \in 1..(Len(r) + 1) /\ d \in ((b + 1) - 1)..Len(r) /\ i - 1 \in d..Len(r)
      BY <1>0, <2>1
    <3> QED
      BY <3>1, ConcatAdjacentSubSeq
  <2> HIDE DEF w, u, v, f, i
  <2>6. (u \o v) \o w = u \o (v \o w)
    BY <2>3, <2>4, ConcatAssociative
  <2>7. f[b][k] = u \o f[d][k]
    BY <2>2, <2>5, <2>6
  <2> QED
    BY <2>7 DEF f, u
<1> QED
  BY <1>3, <1>4

(* The scanner emits text.                                                  *)
LEMMA EmitReads ==
  ASSUME NEW r \in Seq(Letters), NEW rs \in Seq(Answers), NEW k \in 0..Len(rs), NEW b \in Nat, NEW c \in b..Len(r),
         NEW s \in Seq(Letters), IsPart(s, r, b, c), Place(s, 0, OpenMark) = 0, NEW n \in 0..(c - b), n < c - b
  PROVE  ReadFrom(r, rs)[b][k] = SubSeq(s, 1, n) \o ReadFrom(r, rs)[b + n][k]
<1>0. Len(r) \in Nat /\ b + n \in b..Len(r)
  OBVIOUS
<1>1. \A i \in (b + 1)..Len(r) : Stands(r, i, OpenMark) => c <= i
  BY PlaceInBuffer DEF Marks
<1>2. \A i \in (b + 1)..(b + n) : ~Stands(r, i, OpenMark)
  BY <1>0, <1>1
<1>3. ReadFrom(r, rs)[b][k] = SubSeq(r, b + 1, b + n) \o ReadFrom(r, rs)[b + n][k]
  BY <1>0, <1>2, TextIsSaid
<1>4. SubSeq(s, 1, n) = SubSeq(r, b + 1, b + n)
  BY PartOfPart
<1> QED
  BY <1>3, <1>4

(* It meets a marker.                                                       *)
LEMMA OpenReads ==
  ASSUME NEW r \in Seq(Letters), NEW rs \in Seq(Answers), NEW k \in 0..Len(rs), NEW b \in Nat, NEW c \in b..Len(r),
         NEW s \in Seq(Letters), IsPart(s, r, b, c), Place(s, 0, OpenMark) # 0
  PROVE  LET i == Place(s, 0, OpenMark) IN
           /\ i \in 1..(c - b) /\ b + i + 1 <= c
           /\ ReadFrom(r, rs)[b][k] = SubSeq(s, 1, i - 1) \o Within(r, rs, ReadFrom(r, rs), b + i + 1, k)
<1> DEFINE i == Place(s, 0, OpenMark)
           f == ReadFrom(r, rs)
<1>1. i \in 1..(c - b) /\ b + i + 1 <= c /\ Place(r, b, OpenMark) = b + i
  BY PlaceInBuffer DEF Marks
<1>2. f[b][k] = From(r, rs, f, b, k)
  BY ReadUnfolds
<1> HIDE DEF i, f
<1>3. f[b][k] = SubSeq(r, b + 1, b + i - 1) \o Within(r, rs, f, b + i + 1, k)
  BY <1>1, <1>2 DEF From
<1>4. i - 1 \in 0..(c - b) /\ b + (i - 1) = b + i - 1
  BY <1>1
<1>5. SubSeq(s, 1, i - 1) = SubSeq(r, b + 1, b + i - 1)
  BY <1>4, PartOfPart
<1> QED
  BY <1>1, <1>3, <1>5 DEF i, f

(* It meets a marker's end.                                                 *)
LEMMA CloseReads ==
  ASSUME NEW r \in Seq(Letters), NEW rs \in Seq(Answers), NEW k \in 0..Len(rs), NEW b \in Nat, NEW c \in b..Len(r),
         NEW s \in Seq(Letters), IsPart(s, r, b, c), Place(s, 0, CloseMark) # 0
  PROVE  LET j == Place(s, 0, CloseMark)
             f == ReadFrom(r, rs) IN
           /\ j \in 1..(c - b) /\ b + j + 1 <= c
           /\ Within(r, rs, f, b, k) = Told(rs, f, k, SubSeq(s, 1, j - 1), b + j + 1)
<1> DEFINE j == Place(s, 0, CloseMark)
<1>1. j \in 1..(c - b) /\ b + j + 1 <= c /\ Place(r, b, CloseMark) = b + j
  BY PlaceInBuffer DEF Marks
<1> HIDE DEF j
<1>2. j - 1 \in 0..(c - b) /\ b + (j - 1) = b + j - 1 /\ b + j # 0
  BY <1>1
<1>3. SubSeq(s, 1, j - 1) = SubSeq(r, b + 1, b + j - 1)
  BY <1>2, PartOfPart
<1>4. ASSUME NEW f
      PROVE  Within(r, rs, f, b, k) = Told(rs, f, k, SubSeq(s, 1, j - 1), b + j + 1)
  <2>1. Within(r, rs, f, b, k) = IF b + j = 0 THEN <<>>
                                 ELSE Told(rs, f, k, SubSeq(r, b + 1, b + j - 1), b + j + 1)
    BY <1>1 DEF Within
  <2> QED
    BY <1>2, <1>3, <2>1
<1> QED
  BY <1>1, <1>4, Zenon DEF j

(* The reply ends.                                                          *)
LEMMA EndReads ==
  ASSUME NEW r \in Seq(Letters), NEW rs \in Seq(Answers), NEW k \in 0..Len(rs), NEW b \in 0..Len(r),
         NEW s \in Seq(Letters), IsPart(s, r, b, Len(r))
  PROVE  /\ Place(s, 0, OpenMark) = 0 => ReadFrom(r, rs)[b][k] = s
         /\ Place(s, 0, CloseMark) = 0 => Within(r, rs, ReadFrom(r, rs), b, k) = <<>>
<1>0. Len(r) \in Nat /\ Len(r) \in b..Len(r) /\ b \in Nat
  OBVIOUS
<1>1. ASSUME NEW mark \in Marks, Place(s, 0, mark) = 0 PROVE Place(r, b, mark) = 0
  <2>1. \A i \in (b + 1)..Len(r) : Stands(r, i, mark) => Len(r) <= i
    BY <1>0, <1>1, PlaceInBuffer, Zenon
  <2>2. \A i \in (b + 1)..Len(r) : Stands(r, i, mark) => i + 1 <= Len(r)
    <3> SUFFICES ASSUME NEW i \in (b + 1)..Len(r), Stands(r, i, mark) PROVE i + 1 <= Len(r)
      OBVIOUS
    <3>1. i \in Nat
      BY <1>0
    <3> QED
      BY <3>1, MarkStands
  <2>3. \A i \in (b + 1)..Len(r) : ~Stands(r, i, mark)
    BY <1>0, <2>1, <2>2
  <2> QED
    BY <1>0, <2>3, PlaceIs
<1>2. ASSUME Place(s, 0, OpenMark) = 0 PROVE ReadFrom(r, rs)[b][k] = s
  <2>1. ReadFrom(r, rs)[b][k] = SubSeq(r, b + 1, Len(r))
    BY <1>1, <1>2, ReadUnfolds DEF From, After, Marks
  <2>2. Len(s) = Len(r) - b /\ Len(r) - b \in 0..(Len(r) - b) /\ b + (Len(r) - b) = Len(r)
    BY <1>0 DEF IsPart
  <2> DEFINE n == Len(r) - b
  <2>5. n \in 0..(Len(r) - b) /\ b + n = Len(r) /\ Len(s) = n
    BY <2>2
  <2> HIDE DEF n
  <2>6. SubSeq(s, 1, n) = SubSeq(r, b + 1, b + n)
    BY <1>0, <2>5, PartOfPart
  <2>3. SubSeq(s, 1, Len(s)) = SubSeq(r, b + 1, Len(r))
    BY <2>5, <2>6
  <2>4. SubSeq(s, 1, Len(s)) = s
    BY SubSeqFull
  <2> QED
    BY <2>1, <2>3, <2>4
<1>3. ASSUME Place(s, 0, CloseMark) = 0 PROVE Within(r, rs, ReadFrom(r, rs), b, k) = <<>>
  BY <1>1, <1>3 DEF Within, Marks
<1> QED
  BY <1>2, <1>3

-----------------------------------------------------------------------------
(* What the scanner holds of the reply *)

Seen(rec) == Len(rec.reply) - Len(rec.rest)
Base(rec) == Len(rec.reply) - Len(rec.rest) - Len(rec.buffer)

(* The buffer and then the rest are the reply's end.                        *)
Scanned(rec) == /\ Base(rec) \in Nat
                /\ IsPart(rec.buffer, rec.reply, Base(rec), Seen(rec))
                /\ IsPart(rec.rest, rec.reply, Seen(rec), Len(rec.reply))

(* What is still to be said.                                                *)
ToCome(rec, rs, k) ==
  IF rec.inMarker THEN Within(rec.reply, rs, ReadFrom(rec.reply, rs), Base(rec), k)
                  ELSE ReadFrom(rec.reply, rs)[Base(rec)][k]

LEMMA LettersOf ==
  ASSUME NEW rec \in Turn
  PROVE  /\ rec.reply \in Seq(Letters) /\ rec.rest \in Seq(Letters) /\ rec.buffer \in Seq(Letters)
         /\ rec.spoken \in Seq(Words) /\ rec.out \in Seq(Words) /\ rec.heard \in Seq(Words)
         /\ rec.calls \in Seq(Letters) /\ rec.ran \in Seq(Results) /\ rec.inMarker \in BOOLEAN
         /\ rec.kinds \in Seq({"interim", "final", "hangup"})
BY DEF Turn

LEMMA ScannedIs ==
  ASSUME NEW rec \in Turn, Scanned(rec)
  PROVE  /\ Len(rec.reply) \in Nat /\ Base(rec) \in 0..Len(rec.reply) /\ Seen(rec) \in Base(rec)..Len(rec.reply)
         /\ Len(rec.buffer) = Seen(rec) - Base(rec)
         /\ Len(rec.rest) = Len(rec.reply) - Seen(rec)
<1>1. Len(rec.reply) \in Nat /\ Len(rec.rest) \in Nat /\ Len(rec.buffer) \in Nat
  BY LettersOf
<1>2. Base(rec) \in Nat
  BY DEF Scanned
<1>3. PICK l, m, n : l = Len(rec.reply) /\ m = Len(rec.rest) /\ n = Len(rec.buffer)
  OBVIOUS
<1>4. Base(rec) = l - m - n /\ Seen(rec) = l - m
  BY <1>3 DEF Base, Seen
<1>5. l \in Nat /\ m \in Nat /\ n \in Nat /\ l - m - n \in Nat
  BY <1>1, <1>2, <1>3, <1>4
<1>6. /\ l - m - n \in 0..l /\ l - m \in (l - m - n)..l
      /\ n = (l - m) - (l - m - n) /\ m = l - (l - m)
  BY <1>5
<1> QED
  BY <1>3, <1>4, <1>5, <1>6

LEMMA ToComeIsSayable ==
  ASSUME NEW rec \in Turn, Scanned(rec), NEW rs \in Seq(Answers), NEW k \in 0..Len(rs)
  PROVE  ToCome(rec, rs, k) \in Seq(Sayable)
<1>1. rec.reply \in Seq(Letters) /\ Base(rec) \in 0..Len(rec.reply) /\ Base(rec) \in Nat
  BY LettersOf, ScannedIs
<1>2. ReadFrom(rec.reply, rs)[Base(rec)][k] \in Seq(Sayable)
  BY <1>1, ReadUnfolds
<1>3. Within(rec.reply, rs, ReadFrom(rec.reply, rs), Base(rec), k) \in Seq(Sayable)
  BY <1>1, ReadRecites, WithinIsSayable
<1> QED
  BY <1>2, <1>3 DEF ToCome

(* The first n letters leave the buffer.                                    *)
TakenOff(rec, n, rec2) == /\ rec2.reply = rec.reply /\ rec2.rest = rec.rest
                          /\ rec2.buffer = After(rec.buffer, n)

LEMMA StillScanned ==
  ASSUME NEW rec \in Turn, NEW rec2 \in Turn, Scanned(rec), NEW n \in 0..Len(rec.buffer), TakenOff(rec, n, rec2)
  PROVE  /\ Scanned(rec2) /\ Base(rec2) = Base(rec) + n /\ Seen(rec2) = Seen(rec)
         /\ SubSeq(rec.buffer, 1, n) \in Seq(Letters)
<1> DEFINE r == rec.reply
           b == Base(rec)
           c == Seen(rec)
<1>1. r \in Seq(Letters) /\ rec.buffer \in Seq(Letters) /\ Len(rec2.buffer) \in Nat
  BY LettersOf
<1>2. Len(r) \in Nat /\ b \in Nat /\ c \in b..Len(r) /\ Len(rec.buffer) = c - b /\ n \in 0..(c - b)
  BY ScannedIs
<1>3. IsPart(rec.buffer, r, b, c) /\ IsPart(rec.rest, r, c, Len(r))
  BY DEF Scanned
<1>4. IsPart(rec2.buffer, r, b + n, c) /\ SubSeq(rec.buffer, 1, n) \in Seq(Letters)
  BY <1>1, <1>2, <1>3, PartOfPart DEF TakenOff
<1>5. Seen(rec2) = c
  BY DEF TakenOff, Seen
<1>6. Len(rec2.buffer) = c - (b + n)
  BY <1>4 DEF IsPart
<1>7. Base(rec2) = Seen(rec2) - Len(rec2.buffer)
  BY DEF Base, Seen
<1> HIDE DEF b, c
<1>8. Base(rec2) = b + n
  BY <1>2, <1>5, <1>6, <1>7
<1> QED
  BY <1>2, <1>3, <1>4, <1>5, <1>8 DEF Scanned, TakenOff, b, c

LEMMA ScanEmits ==
  ASSUME NEW rec \in Turn, NEW rec2 \in Turn, Scanned(rec), NEW n \in 0..Len(rec.buffer), TakenOff(rec, n, rec2),
         n < Len(rec.buffer), Place(rec.buffer, 0, OpenMark) = 0, ~rec.inMarker, ~rec2.inMarker,
         NEW rs \in Seq(Answers), NEW k \in 0..Len(rs)
  PROVE  ToCome(rec, rs, k) = SubSeq(rec.buffer, 1, n) \o ToCome(rec2, rs, k)
<1>1. rec.reply \in Seq(Letters) /\ rec.buffer \in Seq(Letters)
  BY LettersOf
<1>2. /\ Base(rec) \in Nat /\ Seen(rec) \in Base(rec)..Len(rec.reply)
      /\ n \in 0..(Seen(rec) - Base(rec)) /\ n < Seen(rec) - Base(rec)
      /\ IsPart(rec.buffer, rec.reply, Base(rec), Seen(rec))
  BY ScannedIs DEF Scanned
<1>3. ReadFrom(rec.reply, rs)[Base(rec)][k] = SubSeq(rec.buffer, 1, n) \o ReadFrom(rec.reply, rs)[Base(rec) + n][k]
  BY <1>1, <1>2, EmitReads
<1>4. Base(rec2) = Base(rec) + n /\ rec2.reply = rec.reply
  BY StillScanned DEF TakenOff
<1> QED
  BY <1>3, <1>4 DEF ToCome

LEMMA ScanOpens ==
  ASSUME NEW rec \in Turn, Scanned(rec), Place(rec.buffer, 0, OpenMark) # 0, ~rec.inMarker
  PROVE  LET i == Place(rec.buffer, 0, OpenMark) IN
           /\ i \in 1..Len(rec.buffer) /\ i + 1 \in 0..Len(rec.buffer)
           /\ \A rec2 \in Turn : TakenOff(rec, i + 1, rec2) /\ rec2.inMarker =>
                \A rs \in Seq(Answers) : \A k \in 0..Len(rs) :
                  ToCome(rec, rs, k) = SubSeq(rec.buffer, 1, i - 1) \o ToCome(rec2, rs, k)
<1> DEFINE i == Place(rec.buffer, 0, OpenMark)
           b == Base(rec)
<1>1. rec.reply \in Seq(Letters) /\ rec.buffer \in Seq(Letters)
  BY LettersOf
<1>2. /\ b \in Nat /\ Seen(rec) \in b..Len(rec.reply) /\ Len(rec.buffer) = Seen(rec) - b
      /\ IsPart(rec.buffer, rec.reply, b, Seen(rec))
  BY ScannedIs DEF Scanned
<1>3. i \in 1..(Seen(rec) - b) /\ b + i + 1 <= Seen(rec)
  BY <1>1, <1>2, PlaceInBuffer DEF Marks
<1>4. i \in 1..Len(rec.buffer) /\ i + 1 \in 0..Len(rec.buffer)
  <2> HIDE DEF i, b
  <2> QED
    BY <1>2, <1>3
<1>5. ASSUME NEW rec2 \in Turn, TakenOff(rec, i + 1, rec2), rec2.inMarker,
             NEW rs \in Seq(Answers), NEW k \in 0..Len(rs)
      PROVE  ToCome(rec, rs, k) = SubSeq(rec.buffer, 1, i - 1) \o ToCome(rec2, rs, k)
  <2>1. ReadFrom(rec.reply, rs)[b][k]
          = SubSeq(rec.buffer, 1, i - 1) \o Within(rec.reply, rs, ReadFrom(rec.reply, rs), b + i + 1, k)
    BY <1>1, <1>2, OpenReads
  <2>2. Base(rec2) = b + (i + 1) /\ rec2.reply = rec.reply
    BY <1>4, <1>5, StillScanned DEF TakenOff
  <2>3. b + (i + 1) = b + i + 1
    <3> HIDE DEF i, b
    <3> QED
      BY <1>2, <1>3
  <2> QED
    BY <1>5, <2>1, <2>2, <2>3 DEF ToCome
<1> QED
  BY <1>4, <1>5

LEMMA ScanCloses ==
  ASSUME NEW rec \in Turn, Scanned(rec), Place(rec.buffer, 0, CloseMark) # 0, rec.inMarker
  PROVE  LET j == Place(rec.buffer, 0, CloseMark) IN
           /\ j \in 1..Len(rec.buffer) /\ j + 1 \in 0..Len(rec.buffer)
           /\ \A rec2 \in Turn : TakenOff(rec, j + 1, rec2) /\ ~rec2.inMarker =>
                \A rs \in Seq(Answers) : \A k \in 0..Len(rs) :
                  /\ ~Parsed(SubSeq(rec.buffer, 1, j - 1)) => ToCome(rec, rs, k) = ToCome(rec2, rs, k)
                  /\ Parsed(SubSeq(rec.buffer, 1, j - 1)) /\ k # Len(rs) =>
                       ToCome(rec, rs, k) = IF rs[k + 1].ends THEN rs[k + 1].says
                                            ELSE rs[k + 1].says \o ToCome(rec2, rs, k + 1)
<1> DEFINE j == Place(rec.buffer, 0, CloseMark)
           b == Base(rec)
<1>1. rec.reply \in Seq(Letters) /\ rec.buffer \in Seq(Letters)
  BY LettersOf
<1>2. /\ b \in Nat /\ Seen(rec) \in b..Len(rec.reply) /\ Len(rec.buffer) = Seen(rec) - b
      /\ IsPart(rec.buffer, rec.reply, b, Seen(rec))
  BY ScannedIs DEF Scanned
<1>3. j \in 1..(Seen(rec) - b) /\ b + j + 1 <= Seen(rec)
  BY <1>1, <1>2, PlaceInBuffer DEF Marks
<1>4. j \in 1..Len(rec.buffer) /\ j + 1 \in 0..Len(rec.buffer)
  <2> HIDE DEF j, b
  <2> QED
    BY <1>2, <1>3
<1>5. ASSUME NEW rec2 \in Turn, TakenOff(rec, j + 1, rec2), ~rec2.inMarker,
             NEW rs \in Seq(Answers), NEW k \in 0..Len(rs)
      PROVE  /\ ~Parsed(SubSeq(rec.buffer, 1, j - 1)) => ToCome(rec, rs, k) = ToCome(rec2, rs, k)
             /\ Parsed(SubSeq(rec.buffer, 1, j - 1)) /\ k # Len(rs) =>
                  ToCome(rec, rs, k) = IF rs[k + 1].ends THEN rs[k + 1].says
                                       ELSE rs[k + 1].says \o ToCome(rec2, rs, k + 1)
  <2> DEFINE f == ReadFrom(rec.reply, rs)
  <2>1. Within(rec.reply, rs, f, b, k) = Told(rs, f, k, SubSeq(rec.buffer, 1, j - 1), b + j + 1)
    BY <1>1, <1>2, CloseReads
  <2>2. Base(rec2) = b + (j + 1) /\ rec2.reply = rec.reply
    BY <1>4, <1>5, StillScanned DEF TakenOff
  <2> HIDE DEF f, j, b
  <2>3. b + (j + 1) = b + j + 1
    BY <1>2, <1>3
  <2>4. ToCome(rec, rs, k) = Within(rec.reply, rs, f, b, k)
    BY DEF ToCome, f, b
  <2>5. \A l : ToCome(rec2, rs, l) = f[b + j + 1][l]
    BY <1>5, <2>2, <2>3 DEF ToCome, f
  <2> QED
    BY <2>1, <2>4, <2>5 DEF Told
<1> QED
  BY <1>4, <1>5

LEMMA ScanEnds ==
  ASSUME NEW rec \in Turn, Scanned(rec), rec.rest = <<>>, NEW rs \in Seq(Answers), NEW k \in 0..Len(rs),
         Place(rec.buffer, 0, IF rec.inMarker THEN CloseMark ELSE OpenMark) = 0
  PROVE  ToCome(rec, rs, k) = IF rec.inMarker THEN <<>> ELSE rec.buffer
<1>1. rec.reply \in Seq(Letters) /\ rec.buffer \in Seq(Letters)
  BY LettersOf
<1>2. Base(rec) \in 0..Len(rec.reply) /\ Seen(rec) = Len(rec.reply)
  <2>1. Len(rec.rest) = 0 /\ Len(rec.reply) - 0 = Len(rec.reply)
    BY ScannedIs
  <2>2. Seen(rec) = Len(rec.reply) - Len(rec.rest)
    BY DEF Seen
  <2> QED
    BY <2>1, <2>2, ScannedIs
<1>3. IsPart(rec.buffer, rec.reply, Base(rec), Len(rec.reply))
  BY <1>2 DEF Scanned
<1> QED
  BY <1>1, <1>2, <1>3, EndReads DEF ToCome

-----------------------------------------------------------------------------
(* What a turn has said *)

Interims(rec) == rec.kinds = [i \in 1..Len(rec.kinds) |-> "interim"]

LEMMA SendSends ==
  ASSUME NEW rec \in Turn, NEW text \in Seq(Words), NEW kind \in {"interim", "final", "hangup"}
  PROVE  /\ Send(rec, text, kind) \in Turn
         /\ Send(rec, text, kind).heard = rec.heard \o text
         /\ Send(rec, text, kind).kinds = Append(rec.kinds, kind)
         /\ Interims(rec) /\ kind = "interim" => Interims(Send(rec, text, kind))
<1>1. rec.heard \o text \in Seq(Words) /\ Append(rec.kinds, kind) \in Seq({"interim", "final", "hangup"})
  <2>1. rec.heard \in Seq(Words) /\ rec.kinds \in Seq({"interim", "final", "hangup"})
    BY LettersOf
  <2>2. rec.heard \o text \in Seq(Words)
    BY <2>1, ConcatProperties
  <2>3. Append(rec.kinds, kind) \in Seq({"interim", "final", "hangup"})
    BY <2>1, AppendProperties
  <2> QED
    BY <2>2, <2>3
<1>2. /\ Send(rec, text, kind) \in Turn
      /\ Send(rec, text, kind).heard = rec.heard \o text
      /\ Send(rec, text, kind).kinds = Append(rec.kinds, kind)
  BY <1>1 DEF Send, Turn
<1>3. ASSUME Interims(rec), kind = "interim" PROVE Interims(Send(rec, text, kind))
  <2>1. rec.kinds \in Seq({"interim", "final", "hangup"})
    BY LettersOf
  <2>2. Append(rec.kinds, "interim") = [i \in 1..Len(Append(rec.kinds, "interim")) |-> "interim"]
    BY <1>3, <2>1 DEF Interims
  <2> QED
    BY <1>2, <1>3, <2>2 DEF Interims
<1> QED
  BY <1>2, <1>3

(* What stays when a turn speaks.                                           *)
SameScan(rec2, rec) ==
  /\ rec2.pc = rec.pc /\ rec2.held = rec.held /\ rec2.context = rec.context /\ rec2.reply = rec.reply
  /\ rec2.rest = rec.rest /\ rec2.buffer = rec.buffer /\ rec2.inMarker = rec.inMarker
  /\ rec2.calls = rec.calls /\ rec2.ran = rec.ran

LEMMA SendScans ==
  ASSUME NEW rec \in Turn, NEW text, NEW kind
  PROVE  /\ SameScan(Send(rec, text, kind), rec)
         /\ Send(rec, text, kind).out = rec.out /\ Send(rec, text, kind).spoken = rec.spoken
BY DEF Send, Turn, SameScan

LEMMA SaySays ==
  ASSUME NEW rec \in Turn, NEW text \in Seq(Words)
  PROVE  /\ Say(rec, text) \in Turn /\ SameScan(Say(rec, text), rec)
         /\ Say(rec, text).heard \o Say(rec, text).out = (rec.heard \o rec.out) \o text
         /\ Interims(rec) => Interims(Say(rec, text))
<1> DEFINE said == [rec EXCEPT !.spoken = @ \o text, !.out = @ \o text]
           sent == Send(said, said.out, "interim")
           next == [sent EXCEPT !.out = <<>>, !.first = FALSE]
<1>1. rec.spoken \o text \in Seq(Words) /\ rec.out \o text \in Seq(Words)
  BY LettersOf, ConcatProperties
<1>2. /\ said \in Turn /\ SameScan(said, rec) /\ said.heard = rec.heard /\ said.out = rec.out \o text
      /\ said.kinds = rec.kinds
  BY <1>1 DEF Turn, SameScan
<1>0. rec.heard \in Seq(Words) /\ rec.out \in Seq(Words)
  BY LettersOf
<1>3. rec.heard \o (rec.out \o text) = (rec.heard \o rec.out) \o text
  <2>1. \A u, v, w \in Seq(Words) : (u \o v) \o w = u \o (v \o w)
    BY ConcatAssociative
  <2> QED
    BY <1>0, <2>1, Zenon
<1>4. Interims(rec) => Interims(said)
  BY <1>2 DEF Interims
<1> HIDE DEF said
<1>5. /\ sent \in Turn /\ SameScan(sent, said) /\ sent.heard = said.heard \o said.out
      /\ Interims(said) => Interims(sent)
  <2>1. said.out \in Seq(Words)
    BY <1>1, <1>2
  <2> QED
    BY <1>2, <2>1, SendSends, SendScans
<1> HIDE DEF sent
<1>6. /\ next \in Turn /\ SameScan(next, sent) /\ next.heard = sent.heard /\ next.out = <<>>
      /\ next.kinds = sent.kinds
  <2>1. <<>> \in Seq(Words)
    OBVIOUS
  <2>2. sent \in Turn
    BY <1>5
  <2> QED
    BY <2>1, <2>2 DEF Turn, SameScan
<1> HIDE DEF next
<1>7. next.heard \o next.out = (rec.heard \o rec.out) \o text
  <2>1. next.heard \in Seq(Words)
    BY <1>6, LettersOf
  <2>2. next.heard \o next.out = next.heard
    BY <1>6, <2>1, ConcatEmptySeq
  <2> QED
    BY <1>2, <1>3, <1>5, <1>6, <2>2
<1>8. SameScan(next, rec) /\ (Interims(rec) => Interims(next))
  BY <1>2, <1>4, <1>5, <1>6 DEF SameScan, Interims
<1>9. Say(rec, text) = IF Len(said.out) >= (IF rec.first THEN 1 ELSE ChunkChars) THEN next ELSE said
  BY Zenon DEF Say, said, sent, next
<1> QED
  BY <1>2, <1>3, <1>4, <1>6, <1>7, <1>8, <1>9

LEMMA CollectCollects ==
  ASSUME NEW rec \in Turn, NEW text \in Seq(Words)
  PROVE  /\ Collect(rec, text) \in Turn /\ SameScan(Collect(rec, text), rec)
         /\ Collect(rec, text).spoken = rec.spoken \o text
         /\ Collect(rec, text).heard = rec.heard /\ Collect(rec, text).kinds = rec.kinds
<1>1. rec.spoken \o text \in Seq(Words)
  BY LettersOf, ConcatProperties
<1> QED
  BY <1>1 DEF Collect, Turn, SameScan

-----------------------------------------------------------------------------
(* The invariant *)

Lead(t, rec) == IF rec.context = t THEN <<>> ELSE <<"filler">>

(* rs begins with what the turn's tools returned.                           *)
Extends(rs, ran) == Len(ran) <= Len(rs) /\ \A i \in 1..Len(ran) : rs[i] = ran[i]

(* Whatever its next tools return, a voice turn has said the reply up to    *)
(* what is to come.                                                         *)
VoiceReads(t, rec) ==
  \A rs \in Seq(Answers) : Extends(rs, rec.ran) =>
    Lead(t, rec) \o ReadAtOnce(rec.reply, rs) = (rec.heard \o rec.out) \o ToCome(rec, rs, Len(rec.ran))

(* An SMS turn has collected it, and passed a letter for each tool it keeps *)
(* for later.                                                               *)
TextReads(rec) ==
  /\ rec.heard = <<>> /\ Len(rec.calls) <= Base(rec)
  /\ ReadAtOnce(rec.reply, Silent(rec.reply)) = rec.spoken \o ToCome(rec, Silent(rec.reply), Len(rec.calls))

Fresh(rec) == /\ rec.buffer = <<>> /\ rec.spoken = <<>> /\ rec.out = <<>> /\ rec.calls = <<>> /\ rec.ran = <<>>
              /\ rec.heard = <<>> /\ rec.kinds = <<>> /\ rec.inMarker = FALSE

Heard(t, rec) ==
  /\ t \in Voice => rec.heard = Lead(t, rec) \o ReadAtOnce(rec.reply, rec.ran)
  /\ t \in Texts => LET body == ReadAtOnce(rec.reply, Silent(rec.reply)) \o Bridges(rec)
                    IN  rec.heard = IF body = <<>> THEN <<"gotit">> ELSE body

EndsOnce(rec) ==
  LET closing == IF Hangs(rec) THEN <<"final", "hangup">> ELSE <<"final">>
      n == Len(rec.kinds) - Len(closing)
  IN  n >= 0 /\ rec.kinds = [i \in 1..n |-> "interim"] \o closing

TurnHolds(t, rec) ==
  /\ rec.held # t
  /\ rec.pc \in {"idle", "racing"} => Fresh(rec)
  /\ rec.pc = "reading" => Scanned(rec) /\ (t \in Voice => VoiceReads(t, rec)) /\ (t \in Texts => TextReads(rec))
  /\ rec.pc = "closing" =>
       t \in Voice /\ Lead(t, rec) \o ReadAtOnce(rec.reply, rec.ran) = rec.heard \o rec.out
  /\ rec.pc = "tools" =>
       t \in Texts /\ rec.heard = <<>> /\ ReadAtOnce(rec.reply, Silent(rec.reply)) = rec.spoken
  /\ rec.pc # "closed" => Interims(rec)
  /\ rec.pc = "closed" => Heard(t, rec) /\ (t \in Voice => EndsOnce(rec))

TurnInv ==
  /\ StreamTypeOK
  /\ \A t \in Voice \cup Texts :
       /\ TurnHolds(t, turn[t])
       /\ Reaches(t, "idle") => fetch[t] = "idle"
       /\ stash = t => fetch[t] # "idle"

LEMMA ResultsAreAnswers == Seq(Results) \subseteq Seq(Answers)
<1>1. Results \subseteq Answers
  <2>1. {<<"bridge">>, <<"snag">>} \subseteq Seq(Words)
    BY DEF Words, Phrases
  <2> QED
    BY <2>1 DEF Results, Answers
<1> QED
  BY <1>1, SeqMonotonic

LEMMA SilentAnswers ==
  ASSUME NEW r \in Seq(Letters)
  PROVE  /\ Silent(r) \in Seq(Answers) /\ Len(Silent(r)) = Len(r)
         /\ \A i \in 1..Len(r) : Silent(r)[i].ends = FALSE /\ Silent(r)[i].says = <<>>
<1>1. Result(<<>>, FALSE, FALSE) \in Answers
  BY DEF Result, Answers
<1>2. Len(r) \in Nat
  OBVIOUS
<1>3. \A i \in 1..Len(r) : Silent(r)[i] = Result(<<>>, FALSE, FALSE)
  BY DEF Silent
<1>4. Silent(r) \in Seq(Answers) /\ Len(Silent(r)) = Len(r)
  <2>1. PICK x : x = Result(<<>>, FALSE, FALSE)
    OBVIOUS
  <2>2. Silent(r) = [i \in 1..Len(r) |-> x] /\ x \in Answers
    BY <1>1, <2>1 DEF Silent
  <2> QED
    BY <1>2, <2>2
<1> QED
  BY <1>3, <1>4 DEF Result

LEMMA WordsAreSayable == Seq(Words) \subseteq Seq(Sayable) /\ Seq(Letters) \subseteq Seq(Words)
BY SeqMonotonic DEF Sayable, Words

LEMMA BecomesHolds ==
  ASSUME TurnInv, NEW t \in Voice \cup Texts, NEW rec2 \in Turn, TurnHolds(t, rec2), rec2.pc # "idle",
         Becomes(t, rec2), UNCHANGED <<stash, prewarm, fetch>>, troubles' \in 0..MaxTroubles
  PROVE  TurnInv'
<1>1. /\ turn \in [Voice \cup Texts -> Turn] /\ turn' = [turn EXCEPT ![t] = rec2]
      /\ turn' \in [Voice \cup Texts -> Turn]
  BY DEF TurnInv, StreamTypeOK, Becomes
<1>2. StreamTypeOK'
  BY <1>1 DEF TurnInv, StreamTypeOK
<1>3. ASSUME NEW u \in Voice \cup Texts
      PROVE  /\ TurnHolds(u, turn'[u])
             /\ turn'[u].pc = "idle" => fetch'[u] = "idle"
             /\ stash' = u => fetch'[u] # "idle"
  <2>1. /\ TurnHolds(u, turn[u]) /\ (turn[u].pc = "idle" => fetch[u] = "idle")
        /\ (stash = u => fetch[u] # "idle")
    BY DEF TurnInv, Reaches
  <2>2. turn'[u] = IF u = t THEN rec2 ELSE turn[u]
    BY <1>1
  <2> QED
    BY <2>1, <2>2
<1> QED
  BY <1>2, <1>3 DEF TurnInv, Reaches

(* A turn is given its reply.                                               *)
Given(rec, c, r) == [rec EXCEPT !.pc = "reading", !.context = c, !.reply = r, !.rest = r]

LEMMA PromptedHolds ==
  ASSUME NEW t \in Voice \cup Texts, NEW rec \in Turn, NEW r \in Replies, NEW c \in Contexts \cup Texts,
         rec.held # t, rec.buffer = <<>>, rec.spoken = <<>>, rec.out = <<>>, rec.calls = <<>>, rec.ran = <<>>,
         rec.inMarker = FALSE, Interims(rec), t \in Texts => c = t,
         rec.heard = (IF c = t THEN <<>> ELSE <<"filler">>)
  PROVE  /\ Given(rec, c, r) \in Turn /\ Given(rec, c, r).pc = "reading"
         /\ TurnHolds(t, Given(rec, c, r))
<1>0. PICK rec2 : rec2 = Given(rec, c, r)
  OBVIOUS
<1>1. r \in Seq(Letters)
  BY StreamAssumption
<1>2. /\ rec2 \in Turn /\ rec2.pc = "reading" /\ rec2.context = c /\ rec2.reply = r /\ rec2.rest = r
      /\ rec2.held # t /\ rec2.buffer = <<>> /\ rec2.spoken = <<>> /\ rec2.out = <<>> /\ rec2.calls = <<>>
      /\ rec2.ran = <<>> /\ rec2.inMarker = FALSE /\ rec2.heard = rec.heard /\ rec2.kinds = rec.kinds
  BY <1>0, <1>1 DEF Turn, Stages, Given
<1>3. Len(r) \in Nat /\ Seen(rec2) = 0 /\ Base(rec2) = 0
  <2>1. Len(r) \in Nat
    BY <1>1
  <2>2. PICK l, m : l = Len(r) /\ m = Len(rec2.buffer)
    OBVIOUS
  <2>3. Seen(rec2) = l - l /\ Base(rec2) = l - l - m
    BY <1>2, <2>2, Zenon DEF Seen, Base
  <2>4. l \in Nat /\ m = 0
    BY <1>2, <2>1, <2>2
  <2>5. l - l = 0 /\ l - l - m = 0
    BY <2>4
  <2> QED
    BY <2>1, <2>3, <2>5, Zenon
<1>4. Scanned(rec2)
  <2>1. IsPart(r, r, 0, Len(r)) /\ IsPart(<<>>, r, 0, 0)
    BY <1>3 DEF IsPart
  <2> QED
    BY <1>2, <1>3, <2>1 DEF Scanned
<1>5. ASSUME NEW rs \in Seq(Answers)
      PROVE  ToCome(rec2, rs, 0) = ReadAtOnce(r, rs) /\ ReadAtOnce(r, rs) \in Seq(Sayable)
  <2>1. ToCome(rec2, rs, 0) = ReadAtOnce(r, rs)
    BY <1>2, <1>3 DEF ToCome, ReadAtOnce
  <2>2. Len(rs) \in Nat /\ 0 \in 0..Len(rs)
    OBVIOUS
  <2> QED
    BY <1>4, <2>1, <2>2, ToComeIsSayable, <1>2
<1>6. VoiceReads(t, rec2)
  <2> SUFFICES ASSUME NEW rs \in Seq(Answers)
               PROVE  Lead(t, rec2) \o ReadAtOnce(r, rs) = (rec2.heard \o rec2.out) \o ToCome(rec2, rs, 0)
    BY <1>2 DEF VoiceReads
  <2>1. rec2.heard \o rec2.out = rec2.heard
    BY <1>2, LettersOf, ConcatEmptySeq
  <2>2. rec2.heard = Lead(t, rec2)
    BY <1>2 DEF Lead
  <2> QED
    BY <1>5, <2>1, <2>2
<1>7. t \in Texts => TextReads(rec2)
  <2> SUFFICES ASSUME t \in Texts PROVE TextReads(rec2)
    OBVIOUS
  <2>1. Silent(r) \in Seq(Answers)
    BY <1>1, SilentAnswers
  <2>2. <<>> \o ToCome(rec2, Silent(r), 0) = ToCome(rec2, Silent(r), 0)
    BY <1>5, <2>1, ConcatEmptySeq
  <2>3. rec2.heard = <<>>
    BY <1>2
  <2>4. Len(rec2.calls) = 0 /\ Len(rec2.calls) <= Base(rec2)
    BY <1>2, <1>3
  <2>5. ReadAtOnce(r, Silent(r)) = <<>> \o ToCome(rec2, Silent(r), 0)
    BY <1>5, <2>1, <2>2
  <2> QED
    BY <1>2, <2>3, <2>4, <2>5 DEF TextReads
<1>8. Interims(rec2)
  BY <1>2 DEF Interims
<1>9. TurnHolds(t, rec2)
  BY <1>2, <1>4, <1>6, <1>7, <1>8 DEF TurnHolds
<1> QED
  BY <1>0, <1>2, <1>9

LEMMA VoiceGoesOn ==
  ASSUME NEW t, NEW rec \in Turn, NEW rec2 \in Turn, Scanned(rec2), VoiceReads(t, rec),
         rec2.context = rec.context, rec2.reply = rec.reply, rec2.ran = rec.ran, NEW text \in Seq(Words),
         rec2.heard \o rec2.out = (rec.heard \o rec.out) \o text,
         \A rs \in Seq(Answers) : \A k \in 0..Len(rs) : ToCome(rec, rs, k) = text \o ToCome(rec2, rs, k)
  PROVE  VoiceReads(t, rec2)
<1> SUFFICES ASSUME NEW rs \in Seq(Answers), Extends(rs, rec.ran)
             PROVE  Lead(t, rec2) \o ReadAtOnce(rec.reply, rs) = (rec2.heard \o rec2.out) \o ToCome(rec2, rs, Len(rec.ran))
  BY DEF VoiceReads
<1>1. Len(rec.ran) \in 0..Len(rs)
  BY LettersOf DEF Extends
<1>2. PICK u, w : u = rec.heard \o rec.out /\ w = ToCome(rec2, rs, Len(rec.ran))
  OBVIOUS
<1>3. u \in Seq(Sayable) /\ w \in Seq(Sayable) /\ text \in Seq(Sayable)
  <2>1. rec.heard \in Seq(Words) /\ rec.out \in Seq(Words)
    BY LettersOf
  <2>2. u \in Seq(Words)
    BY <1>2, <2>1, ConcatProperties
  <2>3. w \in Seq(Sayable)
    BY <1>1, <1>2, ToComeIsSayable
  <2> QED
    BY <2>2, <2>3, WordsAreSayable
<1>4. (u \o text) \o w = u \o (text \o w)
  BY <1>3, ConcatAssociative
<1>5. Lead(t, rec) \o ReadAtOnce(rec.reply, rs) = u \o (text \o w)
  BY <1>1, <1>2 DEF VoiceReads
<1>6. Lead(t, rec2) = Lead(t, rec)
  BY DEF Lead
<1> QED
  BY <1>2, <1>4, <1>5, <1>6

LEMMA TextGoesOn ==
  ASSUME NEW rec \in Turn, NEW rec2 \in Turn, Scanned(rec), Scanned(rec2), TextReads(rec),
         rec2.reply = rec.reply, rec2.heard = rec.heard, rec2.calls = rec.calls, NEW text \in Seq(Words),
         rec2.spoken = rec.spoken \o text, Base(rec) <= Base(rec2),
         \A rs \in Seq(Answers) : \A k \in 0..Len(rs) : ToCome(rec, rs, k) = text \o ToCome(rec2, rs, k)
  PROVE  TextReads(rec2)
<1> DEFINE rs == Silent(rec.reply)
           k == Len(rec.calls)
<1>1. rs \in Seq(Answers) /\ Len(rs) = Len(rec.reply)
  BY LettersOf, SilentAnswers
<1>2. k \in Nat /\ k <= Base(rec) /\ Base(rec) \in 0..Len(rec.reply) /\ Base(rec2) \in Nat
  BY LettersOf, ScannedIs DEF TextReads, Scanned
<1>3. ReadAtOnce(rec.reply, rs) = rec.spoken \o ToCome(rec, rs, k) /\ rec.heard = <<>>
  BY DEF TextReads
<1> HIDE DEF rs, k
<1>4. k \in 0..Len(rs) /\ k <= Base(rec2)
  BY <1>1, <1>2
<1>5. PICK w : w = ToCome(rec2, rs, k)
  OBVIOUS
<1>6. w \in Seq(Sayable) /\ rec.spoken \in Seq(Sayable) /\ text \in Seq(Sayable)
  BY <1>1, <1>4, <1>5, ToComeIsSayable, LettersOf, WordsAreSayable
<1>7. (rec.spoken \o text) \o w = rec.spoken \o (text \o w)
  <2>1. \A x, y, z \in Seq(Sayable) : (x \o y) \o z = x \o (y \o z)
    BY ConcatAssociative
  <2> QED
    BY <1>6, <2>1, Zenon
<1>8. ReadAtOnce(rec.reply, rs) = rec2.spoken \o w
  BY <1>1, <1>3, <1>4, <1>5, <1>7
<1> QED
  BY <1>3, <1>4, <1>5, <1>8 DEF TextReads, rs, k

-----------------------------------------------------------------------------
(* The steps *)

LEMMA TurnOf ==
  ASSUME TurnInv, NEW t \in Voice \cup Texts
  PROVE  turn[t] \in Turn /\ TurnHolds(t, turn[t]) /\ troubles \in 0..MaxTroubles
BY DEF TurnInv, StreamTypeOK

LEMMA FailedHolds ==
  ASSUME NEW t \in Voice \cup Texts, NEW rec \in Turn, TurnHolds(t, rec), rec.pc # "closed",
         NEW rec2, rec2 = [rec EXCEPT !.pc = "failed"]
  PROVE  rec2 \in Turn /\ rec2.pc = "failed" /\ TurnHolds(t, rec2)
<1>1. rec2 \in Turn /\ rec2.pc = "failed" /\ rec2.held = rec.held /\ rec2.kinds = rec.kinds
  BY DEF Turn, Stages
<1>2. rec.held # t /\ Interims(rec)
  BY DEF TurnHolds
<1> QED
  BY <1>1, <1>2 DEF TurnHolds, Interims

LEMMA RetrievalWinsHolds ==
  ASSUME TurnInv, NEW t \in Voice \cup Texts, RetrievalWins(t)
  PROVE  TurnInv'
<1> DEFINE rec == turn[t]
<1>1. rec \in Turn /\ TurnHolds(t, rec) /\ troubles' \in 0..MaxTroubles /\ rec.pc = "racing"
  BY TurnOf DEF RetrievalWins, Reaches
<1>2. rec.held # t /\ Fresh(rec) /\ Interims(rec)
  BY <1>1 DEF TurnHolds
<1>3. UNCHANGED <<stash, prewarm, fetch>>
  BY DEF RetrievalWins
<1> HIDE DEF rec
<1>4. CASE Prompted(t, t, turn[t])
  <2>1. PICK r \in Replies :
          Becomes(t, [rec EXCEPT !.pc = "reading", !.context = t, !.reply = r, !.rest = r])
    BY <1>4 DEF Prompted, rec
  <2>2. PICK rec2 : rec2 = Given(rec, t, r)
    OBVIOUS
  <2>3. t \in Contexts \cup Texts
    BY DEF Contexts
  <2>5. /\ rec.buffer = <<>> /\ rec.spoken = <<>> /\ rec.out = <<>> /\ rec.calls = <<>> /\ rec.ran = <<>>
        /\ rec.inMarker = FALSE /\ rec.heard = (IF t = t THEN <<>> ELSE <<"filler">>) /\ rec.held # t
    BY <1>2 DEF Fresh
  <2>4. rec2 \in Turn /\ rec2.pc = "reading" /\ TurnHolds(t, rec2)
    BY <1>1, <1>2, <2>2, <2>3, <2>5, PromptedHolds
  <2> QED
    BY <1>1, <1>3, <2>1, <2>2, <2>4, BecomesHolds DEF Given
<1>5. CASE Becomes(t, [turn[t] EXCEPT !.pc = "failed"])
  <2>1. PICK rec2 : rec2 = [rec EXCEPT !.pc = "failed"]
    OBVIOUS
  <2>2. rec2 \in Turn /\ rec2.pc = "failed" /\ TurnHolds(t, rec2)
    BY <1>1, <2>1, FailedHolds
  <2> QED
    BY <1>1, <1>3, <1>5, <2>1, <2>2, BecomesHolds DEF rec
<1> QED
  BY <1>4, <1>5 DEF RetrievalWins

LEMMA FallBackHolds ==
  ASSUME TurnInv, NEW t \in Voice \cup Texts, FallBack(t)
  PROVE  TurnInv'
<1> DEFINE rec == turn[t]
           rec1 == Filled(rec)
<1>1. /\ rec \in Turn /\ TurnHolds(t, rec) /\ troubles' \in 0..MaxTroubles /\ rec.pc = "racing"
      /\ t \in Voice
  BY TurnOf DEF FallBack, Reaches
<1>2. rec.held # t /\ Fresh(rec) /\ Interims(rec) /\ rec.held \in Contexts \cup Texts
  BY <1>1 DEF TurnHolds, Turn
<1>3. UNCHANGED <<stash, prewarm, fetch>> /\ Prompted(t, rec.held, rec1)
  BY DEF FallBack
<1>4. <<"filler">> \in Seq(Words) /\ <<>> \o <<"filler">> = <<"filler">>
  BY DEF Words, Phrases
<1> HIDE DEF rec
<1>5. /\ rec1 \in Turn /\ Interims(rec1) /\ rec1.heard = <<"filler">> /\ SameScan(rec1, rec)
      /\ rec1.out = rec.out /\ rec1.spoken = rec.spoken
  <2>1. rec.heard = <<>>
    BY <1>2 DEF Fresh
  <2>2. /\ rec1 \in Turn /\ rec1.heard = rec.heard \o <<"filler">>
        /\ Interims(rec) => Interims(rec1)
    BY <1>1, <1>4, SendSends DEF Filled
  <2>3. SameScan(rec1, rec) /\ rec1.out = rec.out /\ rec1.spoken = rec.spoken
    BY <1>1, SendScans DEF Filled
  <2> QED
    BY <1>2, <1>4, <2>1, <2>2, <2>3
<1> HIDE DEF rec1
<1>6. PICK r \in Replies :
        Becomes(t, [rec1 EXCEPT !.pc = "reading", !.context = rec.held, !.reply = r, !.rest = r])
  BY <1>3 DEF Prompted
<1>7. PICK rec2 : rec2 = Given(rec1, rec.held, r)
  OBVIOUS
<1>8. t \notin Texts /\ rec1.held # t
  BY <1>1, <1>2, <1>5, StreamAssumption DEF SameScan
<1>9. rec2 \in Turn /\ rec2.pc = "reading" /\ TurnHolds(t, rec2)
  <2>1. /\ rec1.buffer = <<>> /\ rec1.spoken = <<>> /\ rec1.out = <<>> /\ rec1.calls = <<>> /\ rec1.ran = <<>>
        /\ rec1.inMarker = FALSE /\ rec1.heard = (IF rec.held = t THEN <<>> ELSE <<"filler">>)
    BY <1>2, <1>5 DEF Fresh, SameScan
  <2> QED
    BY <1>2, <1>5, <1>7, <1>8, <2>1, PromptedHolds
<1> QED
  BY <1>1, <1>3, <1>6, <1>7, <1>9, BecomesHolds DEF Given

LEMMA PartLen ==
  ASSUME NEW s, NEW r, NEW b, NEW c, IsPart(s, r, b, c)
  PROVE  Len(s) = c - b
BY DEF IsPart

LEMMA FirstIsPart ==
  ASSUME NEW r \in Seq(Letters), NEW c \in Nat, NEW d \in c..Len(r), NEW u \in Seq(Letters), IsPart(u, r, c, d),
         NEW n \in 1..Len(u)
  PROVE  IsPart(SubSeq(u, 1, n), r, c, c + n)
<1>1. Len(u) = d - c /\ \A i \in 1..(d - c) : u[i] = r[c + i]
  BY DEF IsPart
<1>2. \A i \in 1..n : u[i] \in Letters
  BY ElementOfSeq
<1>3. /\ Len(SubSeq(u, 1, n)) = IF 1 <= n THEN n - 1 + 1 ELSE 0
      /\ \A i \in 1..(n - 1 + 1) : SubSeq(u, 1, n)[i] = u[1 + i - 1]
  BY <1>2, SubSeqProperties
<1>4. Len(SubSeq(u, 1, n)) = n /\ \A i \in 1..n : SubSeq(u, 1, n)[i] = u[i]
  BY <1>3
<1>5. \A i \in 1..n : u[i] = r[c + i]
  BY <1>1
<1>6. (c + n) - c = n
  OBVIOUS
<1> QED
  BY <1>4, <1>5, <1>6 DEF IsPart

(* A token moves to the buffer.                                             *)
LEMMA ScanReads ==
  ASSUME NEW rec \in Turn, Scanned(rec), NEW n \in 1..Len(rec.rest), NEW rec2 \in Turn,
         rec2.reply = rec.reply, rec2.rest = After(rec.rest, n), rec2.buffer = rec.buffer \o SubSeq(rec.rest, 1, n)
  PROVE  Scanned(rec2) /\ Base(rec2) = Base(rec)
<1>1. PICK r, b, c, u, s : r = rec.reply /\ b = Base(rec) /\ c = Seen(rec) /\ u = rec.rest /\ s = rec.buffer
  OBVIOUS
<1>2. r \in Seq(Letters) /\ u \in Seq(Letters) /\ s \in Seq(Letters)
  BY <1>1, LettersOf
<1>3. /\ IsPart(s, r, b, c) /\ IsPart(u, r, c, Len(r))
      /\ Len(r) \in Nat /\ b \in Nat /\ c \in b..Len(r) /\ Len(u) = Len(r) - c
  BY <1>1, ScannedIs DEF Scanned
<1>4. n \in 0..(Len(r) - c) /\ c \in Nat /\ Len(r) \in c..Len(r) /\ c + n \in c..Len(r) /\ n \in 1..Len(u)
  BY <1>1, <1>3
<1>5. PICK token, v : token = SubSeq(u, 1, n) /\ v = After(u, n)
  OBVIOUS
<1>6. token \in Seq(Letters) /\ v \in Seq(Letters) /\ IsPart(v, r, c + n, Len(r))
  BY <1>2, <1>3, <1>4, <1>5, PartOfPart
<1>7. IsPart(token, r, c, c + n)
  BY <1>2, <1>3, <1>4, <1>5, FirstIsPart
<1>8. PICK w : w = s \o token
  OBVIOUS
<1>9. IsPart(w, r, b, c + n)
  BY <1>2, <1>3, <1>4, <1>6, <1>7, <1>8, PartsJoin
<1>10. rec2.reply = r /\ rec2.rest = v /\ rec2.buffer = w
  BY <1>1, <1>5, <1>8
<1>11. Len(v) = Len(r) - (c + n) /\ Len(w) = (c + n) - b
  BY <1>6, <1>9, PartLen, Zenon
<1>12. Seen(rec2) = Len(r) - Len(v) /\ Base(rec2) = Len(r) - Len(v) - Len(w)
  BY <1>10 DEF Seen, Base
<1>13. Seen(rec2) = c + n /\ Base(rec2) = b
  BY <1>3, <1>4, <1>11, <1>12
<1> QED
  BY <1>1, <1>3, <1>6, <1>9, <1>10, <1>13 DEF Scanned

LEMMA NextTokenHolds ==
  ASSUME TurnInv, NEW t \in Voice \cup Texts, NextToken(t)
  PROVE  TurnInv'
<1>1. PICK rec : rec = turn[t]
  OBVIOUS
<1>2. rec \in Turn /\ TurnHolds(t, rec) /\ troubles' \in 0..MaxTroubles /\ rec.pc = "reading"
  BY <1>1, TurnOf DEF NextToken, Hungry, Reaches
<1>3. PICK n \in 1..MaxToken :
        /\ n <= Len(rec.rest)
        /\ Becomes(t, [rec EXCEPT !.rest = After(@, n), !.buffer = @ \o SubSeq(rec.rest, 1, n)])
  BY <1>1 DEF NextToken
<1>4. UNCHANGED <<stash, prewarm, fetch>>
  BY DEF NextToken
<1>5. Scanned(rec) /\ rec.held # t /\ Interims(rec)
  BY <1>2 DEF TurnHolds
<1>6. PICK token, rest : token = SubSeq(rec.rest, 1, n) /\ rest = After(rec.rest, n)
  OBVIOUS
<1>7. rec.buffer \in Seq(Letters) /\ rec.rest \in Seq(Letters) /\ n \in 1..Len(rec.rest)
  BY <1>2, <1>3, LettersOf, StreamAssumption
<1>8. token \in Seq(Letters) /\ rest \in Seq(Letters)
  <2>1. \A i \in 1..Len(rec.rest) : rec.rest[i] \in Letters
    BY <1>7, ElementOfSeq
  <2>2. \A i \in 1..n : rec.rest[i] \in Letters
    BY <1>7, <2>1
  <2>3. \A i \in (n + 1)..Len(rec.rest) : rec.rest[i] \in Letters
    BY <1>7, <2>1
  <2>4. token \in Seq(Letters)
    BY <1>6, <1>7, <2>2, SubSeqProperties
  <2>5. rest \in Seq(Letters)
    BY <1>6, <1>7, <2>3, SubSeqProperties DEF After
  <2> QED
    BY <2>4, <2>5
<1>9. rec.buffer \o token \in Seq(Letters)
  BY <1>7, <1>8, ConcatProperties
<1>10. PICK rec2 : rec2 = [rec EXCEPT !.rest = rest, !.buffer = @ \o token]
  OBVIOUS
<1>11. /\ rec2 \in Turn /\ rec2.pc = "reading" /\ rec2.held = rec.held /\ rec2.kinds = rec.kinds
       /\ rec2.context = rec.context /\ rec2.reply = rec.reply /\ rec2.ran = rec.ran /\ rec2.calls = rec.calls
       /\ rec2.heard = rec.heard /\ rec2.out = rec.out /\ rec2.spoken = rec.spoken
       /\ rec2.inMarker = rec.inMarker
       /\ rec2.rest = rest /\ rec2.buffer = rec.buffer \o token
  BY <1>2, <1>8, <1>9, <1>10 DEF Turn
<1>12. Scanned(rec2) /\ Base(rec2) = Base(rec)
  BY <1>2, <1>5, <1>6, <1>7, <1>11, ScanReads
<1>15. \A rs, k : ToCome(rec2, rs, k) = ToCome(rec, rs, k)
  BY <1>11, <1>12 DEF ToCome
<1>16. t \in Voice => VoiceReads(t, rec2)
  <2> SUFFICES ASSUME t \in Voice PROVE VoiceReads(t, rec2)
    OBVIOUS
  <2>1. VoiceReads(t, rec)
    BY <1>2 DEF TurnHolds
  <2>2. Lead(t, rec2) = Lead(t, rec)
    BY <1>11 DEF Lead
  <2> QED
    BY <1>11, <1>15, <2>1, <2>2 DEF VoiceReads
<1>17. t \in Texts => TextReads(rec2)
  <2> SUFFICES ASSUME t \in Texts PROVE TextReads(rec2)
    OBVIOUS
  <2>1. TextReads(rec)
    BY <1>2 DEF TurnHolds
  <2> QED
    BY <1>11, <1>12, <1>15, <2>1 DEF TextReads
<1>18. TurnHolds(t, rec2)
  BY <1>5, <1>11, <1>12, <1>16, <1>17 DEF TurnHolds, Interims
<1>19. Becomes(t, rec2)
  BY <1>3, <1>6, <1>10
<1> QED
  BY <1>2, <1>4, <1>11, <1>18, <1>19, BecomesHolds

(* The turn says a text, or nothing.                                        *)
Spoken(t, rec, text, said) ==
  /\ said \in Turn /\ SameScan(said, rec) /\ (Interims(rec) => Interims(said))
  /\ t \in Voice => said.heard \o said.out = (rec.heard \o rec.out) \o text
  /\ t \notin Voice => said.spoken = rec.spoken \o text /\ said.heard = rec.heard

LEMMA SpeaksSpeaks ==
  ASSUME NEW t, NEW rec \in Turn, NEW text \in Seq(Words)
  PROVE  Spoken(t, rec, text, Speaks(t, rec, text))
<1>1. CASE t \in Voice
  BY <1>1, SaySays DEF Speaks, Spoken
<1>2. CASE t \notin Voice
  BY <1>2, CollectCollects DEF Speaks, Spoken, Interims
<1> QED
  BY <1>1, <1>2

LEMMA SilenceSpeaks ==
  ASSUME NEW t, NEW rec \in Turn
  PROVE  Spoken(t, rec, <<>>, rec)
<1>1. rec.heard \in Seq(Words) /\ rec.out \in Seq(Words) /\ rec.spoken \in Seq(Words)
  BY LettersOf
<1>2. rec.heard \o rec.out \in Seq(Words)
  BY <1>1, ConcatProperties
<1>3. (rec.heard \o rec.out) \o <<>> = rec.heard \o rec.out /\ rec.spoken \o <<>> = rec.spoken
  BY <1>1, <1>2, ConcatEmptySeq
<1> QED
  BY <1>3 DEF Spoken, SameScan

(* Only the scanner moves.                                                  *)
Advances(said, rec2) ==
  /\ rec2.pc = said.pc /\ rec2.held = said.held /\ rec2.context = said.context /\ rec2.reply = said.reply
  /\ rec2.rest = said.rest /\ rec2.calls = said.calls /\ rec2.ran = said.ran /\ rec2.heard = said.heard
  /\ rec2.out = said.out /\ rec2.spoken = said.spoken /\ rec2.kinds = said.kinds

LEMMA ScanHolds ==
  ASSUME NEW t \in Voice \cup Texts, NEW rec \in Turn, NEW said \in Turn, NEW rec2 \in Turn, NEW text \in Seq(Words),
         TurnHolds(t, rec), rec.pc = "reading", Spoken(t, rec, text, said), Advances(said, rec2),
         NEW n \in 0..Len(rec.buffer), rec2.buffer = After(rec.buffer, n),
         \A rs \in Seq(Answers) : \A k \in 0..Len(rs) : ToCome(rec, rs, k) = text \o ToCome(rec2, rs, k)
  PROVE  rec2.pc = "reading" /\ TurnHolds(t, rec2)
<1>1. /\ rec2.pc = "reading" /\ rec2.held = rec.held /\ rec2.context = rec.context /\ rec2.reply = rec.reply
      /\ rec2.rest = rec.rest /\ rec2.calls = rec.calls /\ rec2.ran = rec.ran
      /\ rec2.heard = said.heard /\ rec2.out = said.out /\ rec2.spoken = said.spoken /\ rec2.kinds = said.kinds
  BY DEF Advances, Spoken, SameScan
<1>2. Scanned(rec) /\ Interims(rec) /\ rec.held # t
  BY DEF TurnHolds
<1>3. Scanned(rec2) /\ Base(rec2) = Base(rec) + n
  BY <1>1, <1>2, StillScanned DEF TakenOff
<1>4. Interims(rec2)
  BY <1>1, <1>2 DEF Interims, Spoken
<1>5. ASSUME t \in Voice PROVE VoiceReads(t, rec2)
  <2>1. VoiceReads(t, rec)
    BY <1>5 DEF TurnHolds
  <2>2. rec2.heard \o rec2.out = (rec.heard \o rec.out) \o text
    BY <1>1, <1>5 DEF Spoken
  <2> QED
    BY <1>1, <1>3, <2>1, <2>2, VoiceGoesOn
<1>6. ASSUME t \in Texts PROVE TextReads(rec2)
  <2>1. TextReads(rec)
    BY <1>6 DEF TurnHolds
  <2>2. t \notin Voice
    BY <1>6, StreamAssumption
  <2>3. rec2.spoken = rec.spoken \o text /\ rec2.heard = rec.heard
    BY <1>1, <2>2 DEF Spoken
  <2>4. Base(rec) <= Base(rec2)
    <3>1. Base(rec) \in Nat /\ n \in Nat
      BY <1>2 DEF Scanned
    <3> QED
      BY <1>3, <3>1
  <2> QED
    BY <1>1, <1>2, <1>3, <2>1, <2>3, <2>4, TextGoesOn
<1> QED
  BY <1>1, <1>2, <1>3, <1>4, <1>5, <1>6 DEF TurnHolds

LEMMA PlaceIsNat ==
  ASSUME NEW t \in Voice \cup Texts, NEW mark \in Marks, turn[t] \in Turn
  PROVE  Sees(t, mark) = Place(turn[t].buffer, 0, mark) /\ Sees(t, mark) \in Nat
<1>1. turn[t].buffer \in Seq(Letters)
  BY LettersOf
<1> QED
  BY <1>1, PlaceIs DEF Sees

LEMMA EmitTextHolds ==
  ASSUME TurnInv, NEW t \in Voice \cup Texts, EmitText(t)
  PROVE  TurnInv'
<1>1. PICK rec : rec = turn[t]
  OBVIOUS
<1>2. rec \in Turn /\ TurnHolds(t, rec) /\ troubles' \in 0..MaxTroubles /\ rec.pc = "reading"
  BY <1>1, TurnOf DEF EmitText, Reaches
<1>3. UNCHANGED <<stash, prewarm, fetch>>
  BY DEF EmitText
<1>4. rec.buffer \in Seq(Letters) /\ Len(rec.buffer) \in Nat /\ Scanned(rec)
  BY <1>2, LettersOf DEF TurnHolds
<1>5. /\ ~rec.inMarker /\ Place(rec.buffer, 0, OpenMark) = 0 /\ Len(rec.buffer) > Hold
  BY <1>1 DEF EmitText, CanEmit, Sees
<1>6. PICK n : n = Len(rec.buffer) - Hold
  OBVIOUS
<1>7. n \in 0..Len(rec.buffer) /\ n < Len(rec.buffer)
  <2>1. Hold = 1
    BY DEF Hold, OpenMark
  <2> QED
    BY <1>4, <1>5, <1>6, <2>1
<1>8. PICK text, rest : text = SubSeq(rec.buffer, 1, n) /\ rest = After(rec.buffer, n)
  OBVIOUS
<1>9. text \in Seq(Words) /\ rest \in Seq(Letters)
  <2>1. \A i \in 1..Len(rec.buffer) : rec.buffer[i] \in Letters
    BY <1>4, ElementOfSeq
  <2>2. (\A i \in 1..n : rec.buffer[i] \in Letters) /\ \A i \in (n + 1)..Len(rec.buffer) : rec.buffer[i] \in Letters
    BY <1>4, <1>7, <2>1
  <2>3. text \in Seq(Letters)
    BY <1>4, <1>7, <1>8, <2>2, SubSeqProperties
  <2>4. rest \in Seq(Letters)
    BY <1>4, <1>7, <1>8, <2>2, SubSeqProperties DEF After
  <2> QED
    BY <2>3, <2>4, WordsAreSayable
<1>10. PICK said : said = Speaks(t, rec, text)
  OBVIOUS
<1>11. said \in Turn /\ Spoken(t, rec, text, said)
  BY <1>2, <1>9, <1>10, SpeaksSpeaks DEF Spoken
<1>12. said.buffer = rec.buffer /\ said.inMarker = rec.inMarker /\ said.reply = rec.reply /\ said.rest = rec.rest
  BY <1>11 DEF Spoken, SameScan
<1>13. PICK rec2 : rec2 = [said EXCEPT !.buffer = rest]
  OBVIOUS
<1>14. rec2 \in Turn /\ Advances(said, rec2) /\ rec2.buffer = rest /\ rec2.inMarker = said.inMarker
  BY <1>9, <1>11, <1>13 DEF Turn, Advances
<1>15. TakenOff(rec, n, rec2) /\ ~rec2.inMarker
  BY <1>5, <1>8, <1>12, <1>14 DEF TakenOff, Advances
<1>16. \A rs \in Seq(Answers) : \A k \in 0..Len(rs) : ToCome(rec, rs, k) = text \o ToCome(rec2, rs, k)
  BY <1>2, <1>4, <1>5, <1>7, <1>8, <1>14, <1>15, ScanEmits
<1>17. rec2.pc = "reading" /\ TurnHolds(t, rec2)
  BY <1>2, <1>7, <1>8, <1>9, <1>11, <1>14, <1>16, ScanHolds
<1>18. Becomes(t, rec2)
  <2>1. Becomes(t, [Speaks(t, rec, SubSeq(rec.buffer, 1, n)) EXCEPT !.buffer = After(@, n)])
    BY <1>1, <1>6 DEF EmitText
  <2>2. Becomes(t, [said EXCEPT !.buffer = After(said.buffer, n)])
    BY <1>8, <1>10, <2>1
  <2> QED
    BY <1>8, <1>12, <1>13, <2>2
<1> QED
  BY <1>2, <1>3, <1>14, <1>17, <1>18, BecomesHolds

LEMMA OpenMarkerHolds ==
  ASSUME TurnInv, NEW t \in Voice \cup Texts, OpenMarker(t)
  PROVE  TurnInv'
<1>1. PICK rec : rec = turn[t]
  OBVIOUS
<1>2. rec \in Turn /\ TurnHolds(t, rec) /\ troubles' \in 0..MaxTroubles /\ rec.pc = "reading"
  BY <1>1, TurnOf DEF OpenMarker, Reaches
<1>3. UNCHANGED <<stash, prewarm, fetch>>
  BY DEF OpenMarker
<1>4. rec.buffer \in Seq(Letters) /\ Len(rec.buffer) \in Nat /\ Scanned(rec)
  BY <1>2, LettersOf DEF TurnHolds
<1>5. PICK i : i = Place(rec.buffer, 0, OpenMark)
  OBVIOUS
<1>6. ~rec.inMarker /\ i # 0 /\ Sees(t, OpenMark) = i
  <2>1. Sees(t, OpenMark) = i
    BY <1>1, <1>5 DEF Sees
  <2>2. ~rec.inMarker /\ i > 0
    BY <1>1, <2>1 DEF OpenMarker, CanOpen
  <2> QED
    BY <2>1, <2>2
<1>7. /\ i \in 1..Len(rec.buffer) /\ i + 1 \in 0..Len(rec.buffer)
      /\ \A rec2 \in Turn : TakenOff(rec, i + 1, rec2) /\ rec2.inMarker =>
           \A rs \in Seq(Answers) : \A k \in 0..Len(rs) :
             ToCome(rec, rs, k) = SubSeq(rec.buffer, 1, i - 1) \o ToCome(rec2, rs, k)
  BY <1>2, <1>4, <1>5, <1>6, ScanOpens
<1>8. PICK text, rest, n : text = SubSeq(rec.buffer, 1, i - 1) /\ rest = After(rec.buffer, n) /\ n = i + 1
  OBVIOUS
<1>9. text \in Seq(Words) /\ rest \in Seq(Letters)
  <2>1. \A j \in 1..Len(rec.buffer) : rec.buffer[j] \in Letters
    BY <1>4, ElementOfSeq
  <2>2. /\ \A j \in 1..(i - 1) : rec.buffer[j] \in Letters
        /\ \A j \in (n + 1)..Len(rec.buffer) : rec.buffer[j] \in Letters
    BY <1>4, <1>7, <1>8, <2>1
  <2>3. text \in Seq(Letters)
    BY <1>4, <1>7, <1>8, <2>2, SubSeqProperties
  <2>4. rest \in Seq(Letters)
    BY <1>4, <1>7, <1>8, <2>2, SubSeqProperties DEF After
  <2> QED
    BY <2>3, <2>4, WordsAreSayable
<1>10. PICK said : said = IF i > 1 THEN Speaks(t, rec, text) ELSE rec
  OBVIOUS
<1>11. said \in Turn /\ Spoken(t, rec, text, said)
  <2>1. CASE i > 1
    BY <1>2, <1>9, <1>10, <2>1, SpeaksSpeaks DEF Spoken
  <2>2. CASE ~(i > 1)
    <3>1. i = 1
      BY <1>7, <2>2
    <3>2. text = <<>>
      BY <1>4, <1>8, <3>1, SubSeqEmpty
    <3> QED
      BY <1>2, <1>10, <2>2, <3>2, SilenceSpeaks
  <2> QED
    BY <2>1, <2>2
<1>12. said.buffer = rec.buffer /\ said.inMarker = rec.inMarker /\ said.reply = rec.reply /\ said.rest = rec.rest
  BY <1>11 DEF Spoken, SameScan
<1>13. PICK rec2 : rec2 = [said EXCEPT !.buffer = rest, !.inMarker = TRUE]
  OBVIOUS
<1>14. rec2 \in Turn /\ Advances(said, rec2) /\ rec2.buffer = rest /\ rec2.inMarker = TRUE
  BY <1>9, <1>11, <1>13 DEF Turn, Advances
<1>15. TakenOff(rec, n, rec2) /\ rec2.inMarker
  BY <1>8, <1>12, <1>14 DEF TakenOff, Advances
<1>16. \A rs \in Seq(Answers) : \A k \in 0..Len(rs) : ToCome(rec, rs, k) = text \o ToCome(rec2, rs, k)
  BY <1>7, <1>8, <1>14, <1>15
<1>17. rec2.pc = "reading" /\ TurnHolds(t, rec2)
  <2>1. n \in 0..Len(rec.buffer)
    BY <1>7, <1>8
  <2> QED
    BY <1>2, <1>8, <1>9, <1>11, <1>14, <1>16, <2>1, ScanHolds
<1>18. Becomes(t, rec2)
  <2>1. Becomes(t, [IF i > 1 THEN Speaks(t, rec, SubSeq(rec.buffer, 1, i - 1)) ELSE rec EXCEPT
                      !.buffer = After(@, i - 1 + Len(OpenMark)), !.inMarker = TRUE])
    BY <1>1, <1>6 DEF OpenMarker
  <2>2. i - 1 + Len(OpenMark) = n
    <3>1. Len(OpenMark) = 2
      BY DEF OpenMark
    <3> QED
      BY <1>7, <1>8, <3>1
  <2>3. Becomes(t, [said EXCEPT !.buffer = After(said.buffer, n), !.inMarker = TRUE])
    BY <1>8, <1>10, <2>1, <2>2
  <2> QED
    BY <1>8, <1>12, <1>13, <2>3
<1> QED
  BY <1>2, <1>3, <1>14, <1>17, <1>18, BecomesHolds

LEMMA ToolsReturnResults ==
  ASSUME NEW tool
  PROVE  /\ Named(tool) \cup {Snag} \subseteq Results
         /\ request_manager_decision \cup {Snag} \subseteq Results
<1>1. \A says \in {<<"bridge">>, <<"snag">>}, e, h \in BOOLEAN : Result(says, e, h) \in Results
  BY DEF Result, Results
<1>2. Snag \in Results
  BY <1>1 DEF Snag
<1>3. request_manager_decision \subseteq Results /\ request_correction \subseteq Results
  BY <1>1 DEF request_manager_decision, request_correction
<1>4. end_call \subseteq Results
  BY <1>1 DEF end_call
<1>5. Named(tool) \subseteq Results
  BY <1>3, <1>4 DEF Named
<1> QED
  BY <1>2, <1>3, <1>5

LEMMA ResultSays ==
  ASSUME NEW res \in Results
  PROVE  /\ res.says \in Seq(Words) /\ Len(res.says) = 1 /\ res.says[1] \in Words
         /\ res \in Answers /\ res.ends \in BOOLEAN
<1>1. res.says \in {<<"bridge">>, <<"snag">>} /\ res.ends \in BOOLEAN /\ res.hangs \in BOOLEAN
  BY DEF Results
<1>2. <<"bridge">> \in Seq(Words) /\ <<"snag">> \in Seq(Words)
  BY DEF Words, Phrases
<1>3. res.says \in Seq(Words) /\ Len(res.says) = 1 /\ res.says[1] \in Words
  <2>1. "bridge" \in Words /\ "snag" \in Words
    BY DEF Words, Phrases
  <2>2. CASE res.says = <<"bridge">>
    <3>1. Len(<<"bridge">>) = 1 /\ <<"bridge">>[1] = "bridge"
      OBVIOUS
    <3> QED
      BY <1>2, <2>1, <2>2, <3>1
  <2>3. CASE res.says = <<"snag">>
    <3>1. Len(<<"snag">>) = 1 /\ <<"snag">>[1] = "snag"
      OBVIOUS
    <3> QED
      BY <1>2, <2>1, <2>3, <3>1
  <2> QED
    BY <1>1, <2>2, <2>3
<1>4. res \in Answers
  BY <1>3 DEF Results, Answers
<1> QED
  BY <1>1, <1>3, <1>4

(* A tool has run and said its words; its turn goes on.                     *)
LEMMA VoiceRuns ==
  ASSUME NEW t, NEW rec \in Turn, NEW past \in Turn, NEW rec2 \in Turn, VoiceReads(t, rec), Scanned(past),
         rec2.context = rec.context, rec2.reply = rec.reply, NEW res \in Results,
         rec2.ran = Append(rec.ran, res), rec2.heard \o rec2.out = (rec.heard \o rec.out) \o res.says,
         \A rs \in Seq(Answers) : \A k \in 0..Len(rs) : k # Len(rs) =>
           ToCome(rec, rs, k) = IF rs[k + 1].ends THEN rs[k + 1].says ELSE rs[k + 1].says \o ToCome(past, rs, k + 1),
         \A rs, k : ToCome(rec2, rs, k) = ToCome(past, rs, k)
  PROVE  /\ ~res.ends => VoiceReads(t, rec2)
         /\ res.ends => Lead(t, rec2) \o ReadAtOnce(rec2.reply, rec2.ran) = rec2.heard \o rec2.out
<1> DEFINE k == Len(rec.ran)
<1>1. rec.ran \in Seq(Results) /\ rec2.ran \in Seq(Results) /\ k \in Nat
  BY LettersOf
<1>2. Len(rec2.ran) = k + 1 /\ rec2.ran[k + 1] = res /\ \A i \in 1..k : rec2.ran[i] = rec.ran[i]
  BY <1>1, AppendProperties
<1>3. Lead(t, rec2) = Lead(t, rec)
  BY DEF Lead
<1> HIDE DEF k
<1>4. ASSUME NEW rs \in Seq(Answers), Extends(rs, rec2.ran)
      PROVE  /\ k \in 0..Len(rs) /\ k # Len(rs) /\ k + 1 \in 0..Len(rs) /\ rs[k + 1] = res
             /\ Lead(t, rec2) \o ReadAtOnce(rec2.reply, rs)
                  = (rec.heard \o rec.out) \o (IF res.ends THEN res.says ELSE res.says \o ToCome(rec2, rs, k + 1))
  <2>1. k + 1 <= Len(rs) /\ \A i \in 1..(k + 1) : rs[i] = rec2.ran[i]
    BY <1>2, <1>4 DEF Extends
  <2>2. Len(rs) \in Nat
    OBVIOUS
  <2>3. k \in 0..Len(rs) /\ k # Len(rs) /\ k + 1 \in 0..Len(rs) /\ k + 1 \in 1..(k + 1)
    BY <1>1, <2>1, <2>2
  <2>4. rs[k + 1] = res
    BY <1>2, <2>1, <2>3
  <2>5. Extends(rs, rec.ran)
    <3>1. \A i \in 1..k : rs[i] = rec.ran[i]
      BY <1>1, <1>2, <2>1
    <3> QED
      BY <2>3, <3>1 DEF Extends, k
  <2>6. Lead(t, rec) \o ReadAtOnce(rec.reply, rs) = (rec.heard \o rec.out) \o ToCome(rec, rs, k)
    BY <2>5 DEF VoiceReads, k
  <2>7. ToCome(rec, rs, k) = IF res.ends THEN res.says ELSE res.says \o ToCome(past, rs, k + 1)
    BY <2>3, <2>4
  <2> QED
    BY <1>3, <2>3, <2>4, <2>6, <2>7
<1>5. ASSUME res.ends
      PROVE  Lead(t, rec2) \o ReadAtOnce(rec2.reply, rec2.ran) = rec2.heard \o rec2.out
  <2>1. rec2.ran \in Seq(Answers) /\ Extends(rec2.ran, rec2.ran)
    <3>1. PICK ran : ran = rec2.ran
      OBVIOUS
    <3>2. ran \in Seq(Answers)
      BY <1>1, <3>1, ResultsAreAnswers
    <3>3. Len(ran) \in Nat
      BY <3>2
    <3>4. Extends(ran, ran)
      BY <3>3 DEF Extends
    <3> QED
      BY <3>1, <3>2, <3>4
  <2>2. Lead(t, rec2) \o ReadAtOnce(rec2.reply, rec2.ran) = (rec.heard \o rec.out) \o res.says
    BY <1>4, <1>5, <2>1
  <2> QED
    BY <2>2
<1>6. ASSUME ~res.ends PROVE VoiceReads(t, rec2)
  <2> SUFFICES ASSUME NEW rs \in Seq(Answers), Extends(rs, rec2.ran)
               PROVE  Lead(t, rec2) \o ReadAtOnce(rec2.reply, rs)
                        = (rec2.heard \o rec2.out) \o ToCome(rec2, rs, Len(rec2.ran))
    BY DEF VoiceReads
  <2>1. PICK u, w : u = rec.heard \o rec.out /\ w = ToCome(past, rs, k + 1)
    OBVIOUS
  <2>2. /\ k + 1 \in 0..Len(rs)
        /\ Lead(t, rec2) \o ReadAtOnce(rec2.reply, rs) = u \o (res.says \o w)
    BY <1>4, <1>6, <2>1
  <2>3. u \in Seq(Sayable) /\ w \in Seq(Sayable) /\ res.says \in Seq(Sayable)
    <3>1. rec.heard \in Seq(Words) /\ rec.out \in Seq(Words) /\ res.says \in Seq(Words)
      BY LettersOf, ResultSays
    <3>2. u \in Seq(Words)
      BY <2>1, <3>1, ConcatProperties
    <3>3. w \in Seq(Sayable)
      BY <2>1, <2>2, ToComeIsSayable
    <3> QED
      BY <3>1, <3>2, <3>3, WordsAreSayable
  <2>4. (u \o res.says) \o w = u \o (res.says \o w)
    <3>1. \A x, y, z \in Seq(Sayable) : (x \o y) \o z = x \o (y \o z)
      BY ConcatAssociative
    <3> QED
      BY <2>3, <3>1, Zenon
  <2> QED
    BY <1>2, <2>1, <2>2, <2>4
<1> QED
  BY <1>5, <1>6

LEMMA CloseMarkerHolds ==
  ASSUME TurnInv, NEW t \in Voice \cup Texts, CloseMarker(t)
  PROVE  TurnInv'
<1>1. PICK rec : rec = turn[t]
  OBVIOUS
<1>2. rec \in Turn /\ TurnHolds(t, rec) /\ troubles' \in 0..MaxTroubles /\ rec.pc = "reading"
  BY <1>1, TurnOf DEF CloseMarker, Reaches
<1>3. UNCHANGED <<stash, prewarm, fetch>>
  BY DEF CloseMarker
<1>4. rec.buffer \in Seq(Letters) /\ Len(rec.buffer) \in Nat /\ Scanned(rec) /\ Interims(rec) /\ rec.held # t
  BY <1>2, LettersOf DEF TurnHolds
<1>5. PICK j : j = Place(rec.buffer, 0, CloseMark)
  OBVIOUS
<1>6. rec.inMarker /\ j # 0 /\ Sees(t, CloseMark) = j
  <2>1. Sees(t, CloseMark) = j
    BY <1>1, <1>5 DEF Sees
  <2>2. rec.inMarker /\ j > 0
    BY <1>1, <2>1 DEF CloseMarker, CanClose
  <2> QED
    BY <2>1, <2>2
<1>7. PICK raw, rest, n : raw = SubSeq(rec.buffer, 1, j - 1) /\ rest = After(rec.buffer, n) /\ n = j + 1
  OBVIOUS
<1>8. /\ j \in 1..Len(rec.buffer) /\ n \in 0..Len(rec.buffer)
      /\ \A rec2 \in Turn : TakenOff(rec, n, rec2) /\ ~rec2.inMarker =>
           \A rs \in Seq(Answers) : \A k \in 0..Len(rs) :
             /\ ~Parsed(raw) => ToCome(rec, rs, k) = ToCome(rec2, rs, k)
             /\ Parsed(raw) /\ k # Len(rs) =>
                  ToCome(rec, rs, k) = IF rs[k + 1].ends THEN rs[k + 1].says
                                       ELSE rs[k + 1].says \o ToCome(rec2, rs, k + 1)
  BY <1>2, <1>4, <1>5, <1>6, <1>7, ScanCloses
<1>9. raw \in Seq(Letters) /\ rest \in Seq(Letters)
  <2>1. \A i \in 1..Len(rec.buffer) : rec.buffer[i] \in Letters
    BY <1>4, ElementOfSeq
  <2>2. /\ \A i \in 1..(j - 1) : rec.buffer[i] \in Letters
        /\ \A i \in (n + 1)..Len(rec.buffer) : rec.buffer[i] \in Letters
    BY <1>4, <1>7, <1>8, <2>1
  <2>3. raw \in Seq(Letters)
    BY <1>4, <1>7, <1>8, <2>2, SubSeqProperties
  <2>4. rest \in Seq(Letters)
    BY <1>4, <1>7, <1>8, <2>2, SubSeqProperties DEF After
  <2> QED
    BY <2>3, <2>4
<1>10. PICK past : past = [rec EXCEPT !.buffer = rest, !.inMarker = FALSE]
  OBVIOUS
<1>11. past \in Turn /\ Advances(rec, past) /\ past.buffer = rest /\ past.inMarker = FALSE
  BY <1>2, <1>9, <1>10 DEF Turn, Advances
<1>12. TakenOff(rec, n, past) /\ ~past.inMarker
  BY <1>7, <1>11 DEF TakenOff, Advances
<1>13. Scanned(past) /\ Base(past) = Base(rec) + n
  BY <1>2, <1>4, <1>8, <1>11, <1>12, StillScanned
<1>14. IF ~Parsed(raw) THEN Becomes(t, past)
       ELSE IF t \in Texts THEN Becomes(t, [past EXCEPT !.calls = Append(@, Head(raw))])
       ELSE \E res \in Named(Head(raw)) \cup {Snag} :
              Becomes(t, [Say(past, res.says) EXCEPT !.ran = Append(@, res),
                                                     !.pc = IF res.ends THEN "closing" ELSE @])
  <2>1. j - 1 + Len(CloseMark) = n
    <3>1. Len(CloseMark) = 2
      BY DEF CloseMark
    <3> QED
      BY <1>7, <1>8, <3>1
  <2>2. past = [rec EXCEPT !.buffer = After(@, j - 1 + Len(CloseMark)), !.inMarker = FALSE]
    BY <1>7, <1>10, <2>1
  <2> QED
    BY <1>1, <1>6, <1>7, <2>2 DEF CloseMarker
<1>15. CASE ~Parsed(raw)
  <2>1. \A rs \in Seq(Answers) : \A k \in 0..Len(rs) : ToCome(rec, rs, k) = <<>> \o ToCome(past, rs, k)
    <3> SUFFICES ASSUME NEW rs \in Seq(Answers), NEW k \in 0..Len(rs)
                 PROVE  ToCome(rec, rs, k) = <<>> \o ToCome(past, rs, k)
      OBVIOUS
    <3>1. ToCome(rec, rs, k) = ToCome(past, rs, k) /\ ToCome(past, rs, k) \in Seq(Sayable)
      BY <1>8, <1>11, <1>12, <1>13, <1>15, ToComeIsSayable
    <3> QED
      BY <3>1, ConcatEmptySeq
  <2>2. <<>> \in Seq(Words) /\ Spoken(t, rec, <<>>, rec)
    BY <1>2, SilenceSpeaks
  <2>3. past.pc = "reading" /\ TurnHolds(t, past)
    BY <1>2, <1>7, <1>8, <1>11, <2>1, <2>2, ScanHolds
  <2> QED
    BY <1>2, <1>3, <1>11, <1>14, <1>15, <2>3, BecomesHolds
<1>16. CASE Parsed(raw) /\ t \in Texts
  <2>1. Head(raw) \in Letters
    <3>1. raw # <<>>
      BY <1>16 DEF Parsed
    <3> QED
      BY <1>9, <3>1, HeadTailProperties
  <2>2. rec.calls \in Seq(Letters) /\ Len(rec.calls) \in Nat
    BY <1>2, LettersOf
  <2>3. PICK calls : calls = Append(rec.calls, Head(raw))
    OBVIOUS
  <2>4. calls \in Seq(Letters) /\ Len(calls) = Len(rec.calls) + 1
    BY <2>1, <2>2, <2>3, AppendProperties
  <2>5. PICK rec2 : rec2 = [past EXCEPT !.calls = calls]
    OBVIOUS
  <2>6. /\ rec2 \in Turn /\ rec2.pc = "reading" /\ rec2.held = rec.held /\ rec2.kinds = rec.kinds
        /\ rec2.reply = rec.reply /\ rec2.heard = rec.heard /\ rec2.spoken = rec.spoken /\ rec2.calls = calls
        /\ rec2.rest = past.rest /\ rec2.buffer = past.buffer /\ rec2.inMarker = past.inMarker
        /\ past.reply = rec.reply
    BY <1>2, <1>11, <2>4, <2>5 DEF Turn, Advances
  <2>7. /\ Base(rec2) = Base(past) /\ Seen(rec2) = Seen(past)
        /\ \A rs, k : ToCome(rec2, rs, k) = ToCome(past, rs, k)
    BY <2>6 DEF Base, Seen, ToCome
  <2>8. Scanned(rec2)
    BY <1>13, <2>6, <2>7 DEF Scanned
  <2>9. TextReads(rec)
    BY <1>2, <1>16 DEF TurnHolds
  <2>10. PICK k, b, rs : k = Len(rec.calls) /\ b = Base(rec) /\ rs = Silent(rec.reply)
    OBVIOUS
  <2>11. /\ rs \in Seq(Answers) /\ Len(rs) = Len(rec.reply)
         /\ \A i \in 1..Len(rec.reply) : rs[i].ends = FALSE /\ rs[i].says = <<>>
    BY <1>2, <2>10, LettersOf, SilentAnswers
  <2>12. /\ k \in Nat /\ k <= b /\ b \in Nat /\ Base(past) = b + n /\ b + n <= Len(rec.reply) /\ n \in Nat
         /\ 1 <= n /\ Len(rec.reply) \in Nat
    <3>1. Base(past) \in 0..Len(rec.reply) /\ Base(rec) \in Nat /\ Len(rec.reply) \in Nat
      BY <1>2, <1>4, <1>11, <1>13, <2>6, ScannedIs
    <3>2. n \in Nat /\ 1 <= n
      BY <1>4, <1>7, <1>8
    <3> QED
      BY <1>13, <2>2, <2>9, <2>10, <3>1, <3>2 DEF TextReads
  <2>13. k \in 0..Len(rs) /\ k # Len(rs) /\ k + 1 \in 0..Len(rs) /\ k + 1 \in 1..Len(rec.reply) /\ k + 1 <= b + n
    BY <2>11, <2>12
  <2>14. ToCome(rec, rs, k) = <<>> \o ToCome(past, rs, k + 1)
    <3>1. rs[k + 1].ends = FALSE /\ rs[k + 1].says = <<>>
      BY <2>11, <2>13
    <3>2. ToCome(rec, rs, k) = IF rs[k + 1].ends THEN rs[k + 1].says ELSE rs[k + 1].says \o ToCome(past, rs, k + 1)
      BY <1>8, <1>11, <1>12, <1>16, <2>11, <2>13
    <3> QED
      BY <3>1, <3>2
  <2>15. ToCome(rec, rs, k) = ToCome(rec2, rs, k + 1)
    <3>1. ToCome(past, rs, k + 1) \in Seq(Sayable)
      BY <1>11, <1>13, <2>11, <2>13, ToComeIsSayable
    <3> QED
      BY <2>7, <2>14, <3>1, ConcatEmptySeq
  <2>16. TextReads(rec2)
    <3>1. ReadAtOnce(rec.reply, rs) = rec.spoken \o ToCome(rec, rs, k) /\ rec.heard = <<>>
      BY <2>9, <2>10 DEF TextReads
    <3>2. Len(rec2.calls) = k + 1 /\ Len(rec2.calls) <= Base(rec2)
      BY <2>4, <2>6, <2>7, <2>10, <2>12, <2>13
    <3> QED
      BY <2>6, <2>10, <2>15, <3>1, <3>2 DEF TextReads
  <2>17. t \notin Voice
    BY <1>16, StreamAssumption
  <2>18. TurnHolds(t, rec2)
    BY <1>4, <2>6, <2>8, <2>16, <2>17 DEF TurnHolds, Interims
  <2>19. Becomes(t, rec2)
    <3>1. past.calls = rec.calls
      BY <1>11 DEF Advances
    <3> QED
      BY <1>14, <1>16, <2>3, <2>5, <3>1
  <2> QED
    BY <1>2, <1>3, <2>6, <2>18, <2>19, BecomesHolds
<1>17. CASE Parsed(raw) /\ t \notin Texts
  <2>1. PICK res \in Named(Head(raw)) \cup {Snag} :
          Becomes(t, [Say(past, res.says) EXCEPT !.ran = Append(@, res),
                                                 !.pc = IF res.ends THEN "closing" ELSE @])
    BY <1>14, <1>17
  <2>2. res \in Results /\ res.says \in Seq(Words) /\ res.ends \in BOOLEAN
    BY <2>1, ToolsReturnResults, ResultSays
  <2>3. PICK said : said = Say(past, res.says)
    OBVIOUS
  <2>4. /\ said \in Turn /\ SameScan(said, past) /\ (Interims(past) => Interims(said))
        /\ said.heard \o said.out = (past.heard \o past.out) \o res.says
    BY <1>11, <2>2, <2>3, SaySays
  <2>5. PICK ran, pc : ran = Append(rec.ran, res) /\ pc = IF res.ends THEN "closing" ELSE "reading"
    OBVIOUS
  <2>6. ran \in Seq(Results) /\ pc \in Stages
    <3>1. rec.ran \in Seq(Results)
      BY <1>2, LettersOf
    <3> QED
      BY <2>2, <2>5, <3>1, AppendProperties DEF Stages
  <2>7. PICK rec2 : rec2 = [said EXCEPT !.ran = ran, !.pc = pc]
    OBVIOUS
  <2>8. /\ rec2 \in Turn /\ rec2.pc = pc /\ rec2.held = said.held /\ rec2.kinds = said.kinds
        /\ rec2.reply = said.reply /\ rec2.heard = said.heard /\ rec2.out = said.out /\ rec2.context = said.context
        /\ rec2.rest = said.rest /\ rec2.buffer = said.buffer /\ rec2.inMarker = said.inMarker /\ rec2.ran = ran
    BY <2>4, <2>6, <2>7 DEF Turn
  <2>9. /\ said.held = rec.held /\ said.reply = rec.reply /\ said.context = rec.context /\ said.rest = past.rest
        /\ said.buffer = past.buffer /\ said.inMarker = past.inMarker /\ past.reply = rec.reply
        /\ said.pc = "reading" /\ said.ran = rec.ran /\ past.heard = rec.heard /\ past.out = rec.out
        /\ past.kinds = rec.kinds
    BY <1>2, <1>11, <2>4 DEF SameScan, Advances
  <2>10. Interims(rec2)
    <3>1. Interims(past)
      BY <1>4, <2>9 DEF Interims
    <3> QED
      BY <2>4, <2>8, <3>1 DEF Interims
  <2>11. /\ Base(rec2) = Base(past) /\ Seen(rec2) = Seen(past)
         /\ \A rs, k : ToCome(rec2, rs, k) = ToCome(past, rs, k)
    BY <2>8, <2>9 DEF Base, Seen, ToCome
  <2>12. Scanned(rec2)
    BY <1>13, <2>8, <2>9, <2>11 DEF Scanned
  <2>13. t \in Voice /\ VoiceReads(t, rec)
    BY <1>2, <1>17 DEF TurnHolds
  <2>14. \A rs \in Seq(Answers) : \A k \in 0..Len(rs) : k # Len(rs) =>
           ToCome(rec, rs, k) = IF rs[k + 1].ends THEN rs[k + 1].says ELSE rs[k + 1].says \o ToCome(past, rs, k + 1)
    BY <1>8, <1>11, <1>12, <1>17
  <2>15. rec2.heard \o rec2.out = (rec.heard \o rec.out) \o res.says
    BY <2>4, <2>8, <2>9
  <2>16. rec2.context = rec.context /\ rec2.reply = rec.reply /\ rec2.ran = Append(rec.ran, res)
    BY <2>5, <2>8, <2>9
  <2>17. /\ ~res.ends => VoiceReads(t, rec2)
         /\ res.ends => Lead(t, rec2) \o ReadAtOnce(rec2.reply, rec2.ran) = rec2.heard \o rec2.out
    BY <1>2, <1>11, <1>13, <2>2, <2>8, <2>11, <2>13, <2>14, <2>15, <2>16, VoiceRuns
  <2>18. rec2.held # t
    BY <1>4, <2>8, <2>9
  <2>19. TurnHolds(t, rec2)
    <3>1. CASE res.ends
      BY <2>5, <2>8, <2>10, <2>13, <2>17, <2>18, <3>1 DEF TurnHolds
    <3>2. CASE ~res.ends
      BY <1>17, <2>5, <2>8, <2>10, <2>12, <2>17, <2>18, <3>2 DEF TurnHolds
    <3> QED
      BY <3>1, <3>2
  <2>20. Becomes(t, rec2)
    BY <2>1, <2>3, <2>5, <2>7, <2>9
  <2>21. rec2.pc # "idle"
    BY <2>5, <2>8
  <2> QED
    BY <1>2, <1>3, <2>8, <2>19, <2>20, <2>21, BecomesHolds
<1> QED
  BY <1>15, <1>16, <1>17

LEMMA EndReplyHolds ==
  ASSUME TurnInv, NEW t \in Voice \cup Texts, EndReply(t)
  PROVE  TurnInv'
<1>1. PICK rec : rec = turn[t]
  OBVIOUS
<1>2. rec \in Turn /\ TurnHolds(t, rec) /\ troubles' \in 0..MaxTroubles /\ rec.pc = "reading"
  BY <1>1, TurnOf DEF EndReply, Hungry, Reaches
<1>3. UNCHANGED <<stash, prewarm, fetch>> /\ rec.rest = <<>>
  BY <1>1 DEF EndReply
<1>4. rec.buffer \in Seq(Letters) /\ rec.inMarker \in BOOLEAN /\ Scanned(rec) /\ Interims(rec) /\ rec.held # t
  BY <1>2, LettersOf DEF TurnHolds
<1>5. Place(rec.buffer, 0, IF rec.inMarker THEN CloseMark ELSE OpenMark) = 0
  <2>1. ~CanClose(t) /\ ~CanOpen(t)
    BY DEF EndReply, Hungry
  <2>2. \A mark \in Marks : Sees(t, mark) = Place(rec.buffer, 0, mark) /\ Sees(t, mark) \in Nat
    BY <1>1, <1>2, PlaceIsNat
  <2>3. /\ rec.inMarker => ~(Sees(t, CloseMark) > 0)
        /\ ~rec.inMarker => ~(Sees(t, OpenMark) > 0)
    BY <1>1, <2>1 DEF CanClose, CanOpen
  <2> QED
    BY <1>4, <2>2, <2>3 DEF Marks
<1>6. PICK text, said : /\ text = IF rec.inMarker THEN <<>> ELSE rec.buffer
                        /\ said = IF rec.inMarker \/ rec.buffer = <<>> THEN rec ELSE Speaks(t, rec, rec.buffer)
  OBVIOUS
<1>7. text \in Seq(Words) /\ said \in Turn /\ Spoken(t, rec, text, said)
  <2>1. CASE rec.inMarker \/ rec.buffer = <<>>
    <3>1. text = <<>> /\ said = rec
      BY <1>4, <1>6, <2>1
    <3>2. <<>> \in Seq(Words)
      OBVIOUS
    <3> QED
      BY <1>2, <3>1, <3>2, SilenceSpeaks
  <2>2. CASE ~(rec.inMarker \/ rec.buffer = <<>>)
    <3>1. text = rec.buffer /\ said = Speaks(t, rec, text) /\ text \in Seq(Words)
      BY <1>4, <1>6, <2>2, WordsAreSayable
    <3> QED
      BY <1>2, <3>1, SpeaksSpeaks DEF Spoken
  <2> QED
    BY <2>1, <2>2
<1>8. \A rs \in Seq(Answers) : \A k \in 0..Len(rs) : ToCome(rec, rs, k) = text
  BY <1>2, <1>3, <1>4, <1>5, <1>6, ScanEnds
<1>9. PICK pc, rec2 : pc = (IF t \in Voice THEN "closing" ELSE "tools") /\ rec2 = [said EXCEPT !.pc = pc]
  OBVIOUS
<1>10. /\ rec2 \in Turn /\ rec2.pc = pc /\ rec2.held = said.held /\ rec2.kinds = said.kinds
       /\ rec2.reply = said.reply /\ rec2.heard = said.heard /\ rec2.out = said.out /\ rec2.context = said.context
       /\ rec2.spoken = said.spoken /\ rec2.ran = said.ran
  BY <1>7, <1>9 DEF Turn, Stages
<1>11. said.held = rec.held /\ said.reply = rec.reply /\ said.context = rec.context /\ said.ran = rec.ran
  BY <1>7 DEF Spoken, SameScan
<1>12. Interims(rec2) /\ rec2.held # t
  BY <1>4, <1>7, <1>10, <1>11 DEF Interims, Spoken
<1>13. ASSUME t \in Voice
       PROVE  Lead(t, rec2) \o ReadAtOnce(rec2.reply, rec2.ran) = rec2.heard \o rec2.out
  <2>1. VoiceReads(t, rec) /\ Lead(t, rec2) = Lead(t, rec)
    BY <1>2, <1>10, <1>11, <1>13 DEF TurnHolds, Lead
  <2>2. PICK ran : ran = rec.ran
    OBVIOUS
  <2>3. ran \in Seq(Answers) /\ Len(ran) \in Nat
    BY <1>2, <2>2, LettersOf, ResultsAreAnswers
  <2>4. Extends(ran, ran) /\ Len(ran) \in 0..Len(ran)
    BY <2>3 DEF Extends
  <2>5. Lead(t, rec) \o ReadAtOnce(rec.reply, ran) = (rec.heard \o rec.out) \o text
    BY <1>8, <2>1, <2>2, <2>3, <2>4 DEF VoiceReads
  <2>6. said.heard \o said.out = (rec.heard \o rec.out) \o text
    BY <1>7, <1>13 DEF Spoken
  <2> QED
    BY <1>10, <1>11, <2>1, <2>2, <2>5, <2>6
<1>14. ASSUME t \notin Voice
       PROVE  t \in Texts /\ rec2.heard = <<>> /\ ReadAtOnce(rec2.reply, Silent(rec2.reply)) = rec2.spoken
  <2>1. t \in Texts /\ TextReads(rec)
    BY <1>2, <1>14 DEF TurnHolds
  <2>2. PICK rs, k : rs = Silent(rec.reply) /\ k = Len(rec.calls)
    OBVIOUS
  <2>3. rs \in Seq(Answers) /\ Len(rs) = Len(rec.reply) /\ k \in Nat
    <3>1. rec.reply \in Seq(Letters) /\ rec.calls \in Seq(Letters)
      BY <1>2, LettersOf
    <3>2. PICK r : r = rec.reply
      OBVIOUS
    <3>3. Silent(r) \in Seq(Answers) /\ Len(Silent(r)) = Len(r)
      BY <3>1, <3>2, SilentAnswers
    <3> QED
      BY <2>2, <3>1, <3>2, <3>3
  <2>4. k \in 0..Len(rs)
    <3>1. k <= Base(rec) /\ Base(rec) \in 0..Len(rec.reply) /\ Len(rec.reply) \in Nat
      BY <1>2, <1>4, <2>1, <2>2, ScannedIs DEF TextReads
    <3> QED
      BY <2>3, <3>1
  <2>5. ToCome(rec, rs, k) = text
    BY <1>8, <2>3, <2>4
  <2>6. ReadAtOnce(rec.reply, rs) = rec.spoken \o text /\ rec.heard = <<>>
    BY <2>1, <2>2, <2>5 DEF TextReads
  <2>7. said.spoken = rec.spoken \o text /\ said.heard = rec.heard
    BY <1>7, <1>14 DEF Spoken
  <2> QED
    BY <1>10, <1>11, <2>1, <2>2, <2>6, <2>7
<1>15. TurnHolds(t, rec2)
  <2>1. CASE t \in Voice
    <3>1. rec2.pc = "closing"
      BY <1>9, <1>10, <2>1
    <3> QED
      BY <1>12, <1>13, <2>1, <3>1 DEF TurnHolds
  <2>2. CASE t \notin Voice
    <3>1. rec2.pc = "tools"
      BY <1>9, <1>10, <2>2
    <3> QED
      BY <1>12, <1>14, <2>2, <3>1 DEF TurnHolds
  <2> QED
    BY <2>1, <2>2
<1>16. Becomes(t, rec2) /\ rec2.pc # "idle"
  BY <1>1, <1>6, <1>9, <1>10 DEF EndReply
<1> QED
  BY <1>2, <1>3, <1>10, <1>15, <1>16, BecomesHolds

LEMMA FinalThenHangup == <<"final">> \o <<"hangup">> = <<"final", "hangup">>
<1> DEFINE K == {"final", "hangup"}
<1>1. PICK u, v, x : u = <<"final">> /\ v = <<"final", "hangup">> /\ x = Append(u, "hangup")
  OBVIOUS
<1>2. u \in Seq(K) /\ Len(u) = 1 /\ u[1] = "final" /\ "hangup" \in K
  BY <1>1
<1>3. v \in Seq(K) /\ Len(v) = 2 /\ v[1] = "final" /\ v[2] = "hangup"
  BY <1>1
<1> HIDE DEF K
<1>4. x \in Seq(K) /\ Len(x) = 1 + 1 /\ x[1] = u[1] /\ x[1 + 1] = "hangup" /\ x = u \o <<"hangup">>
  BY <1>1, <1>2, AppendProperties, AppendIsConcat
<1>5. \A i \in 1..2 : x[i] = v[i]
  <2>1. \A i \in 1..2 : i = 1 \/ i = 2
    OBVIOUS
  <2> QED
    BY <1>2, <1>3, <1>4, <2>1
<1>6. x = v
  BY <1>3, <1>4, <1>5, SeqEqual
<1> QED
  BY <1>1, <1>4, <1>6

LEMMA InterimsThen ==
  ASSUME NEW rec \in Turn, Interims(rec), NEW n, n = Len(rec.kinds)
  PROVE  /\ n \in Nat
         /\ Append(rec.kinds, "final") = [i \in 1..n |-> "interim"] \o <<"final">>
         /\ Len(Append(rec.kinds, "final")) = n + 1
         /\ Append(Append(rec.kinds, "final"), "hangup") = [i \in 1..n |-> "interim"] \o <<"final", "hangup">>
         /\ Len(Append(Append(rec.kinds, "final"), "hangup")) = n + 2
<1> DEFINE K == {"interim", "final", "hangup"}
<1>1. PICK s : s = rec.kinds
  OBVIOUS
<1>2. s \in Seq(K) /\ n = Len(s) /\ n \in Nat /\ s = [i \in 1..n |-> "interim"]
  BY <1>1, LettersOf DEF Interims
<1>3. PICK s1, s2 : s1 = Append(s, "final") /\ s2 = Append(s1, "hangup")
  OBVIOUS
<1>4. /\ s1 \in Seq(K) /\ Len(s1) = n + 1 /\ s1[n + 1] = "final" /\ \A i \in 1..n : s1[i] = s[i]
  BY <1>2, <1>3, AppendProperties
<1>5. /\ s2 \in Seq(K) /\ Len(s2) = Len(s1) + 1 /\ s2[Len(s1) + 1] = "hangup" /\ \A i \in 1..Len(s1) : s2[i] = s1[i]
  BY <1>3, <1>4, AppendProperties
<1>6. s1 = s \o <<"final">>
  BY <1>2, <1>3, AppendIsConcat
<1>7. s2 = s \o <<"final", "hangup">>
  <2>1. s2 = s1 \o <<"hangup">>
    BY <1>3, <1>4, AppendIsConcat
  <2>2. <<"final">> \in Seq(K) /\ <<"hangup">> \in Seq(K) /\ <<"final">> \o <<"hangup">> = <<"final", "hangup">>
    <3>1. <<"final">> \in Seq(K) /\ <<"hangup">> \in Seq(K) /\ "hangup" \in K
      OBVIOUS
    <3> QED
      BY <3>1, FinalThenHangup
  <2>3. (s \o <<"final">>) \o <<"hangup">> = s \o (<<"final">> \o <<"hangup">>)
    BY <1>2, <2>2, ConcatAssociative
  <2> QED
    BY <1>6, <2>1, <2>2, <2>3
<1>8. Len(s2) = n + 2
  BY <1>2, <1>4, <1>5
<1> QED
  BY <1>1, <1>2, <1>3, <1>4, <1>6, <1>7, <1>8

LEMMA CloseStreamHolds ==
  ASSUME TurnInv, NEW t \in Voice \cup Texts, CloseStream(t)
  PROVE  TurnInv'
<1>1. PICK rec : rec = turn[t]
  OBVIOUS
<1>2. rec \in Turn /\ TurnHolds(t, rec) /\ troubles' \in 0..MaxTroubles /\ rec.pc = "closing" /\ t \in Voice
  BY <1>1, TurnOf DEF CloseStream, Reaches
<1>3. UNCHANGED <<stash, prewarm, fetch>>
  BY DEF CloseStream
<1>4. PICK sent, hung, rec2 : /\ sent = Send(rec, rec.out, "final") /\ hung = Send(sent, <<>>, "hangup")
                              /\ rec2 = Shut(IF Hangs(rec) THEN hung ELSE sent)
  OBVIOUS
<1>5. /\ sent \in Turn /\ sent.heard = rec.heard \o rec.out /\ sent.kinds = Append(rec.kinds, "final")
      /\ SameScan(sent, rec)
  BY <1>2, <1>4, LettersOf, SendSends, SendScans
<1>6. /\ hung \in Turn /\ hung.heard = sent.heard /\ hung.kinds = Append(sent.kinds, "hangup")
      /\ SameScan(hung, sent)
  <2>1. <<>> \in Seq(Words)
    OBVIOUS
  <2>2. sent.heard \o <<>> = sent.heard
    BY <1>5, LettersOf, ConcatEmptySeq
  <2> QED
    BY <1>4, <1>5, <2>1, <2>2, SendSends, SendScans
<1>7. PICK last : last = IF Hangs(rec) THEN hung ELSE sent
  OBVIOUS
<1>8. /\ last \in Turn /\ last.heard = rec.heard \o rec.out /\ SameScan(last, rec)
      /\ last.kinds = IF Hangs(rec) THEN Append(Append(rec.kinds, "final"), "hangup") ELSE Append(rec.kinds, "final")
  BY <1>5, <1>6, <1>7 DEF SameScan
<1>9. /\ rec2 \in Turn /\ rec2.pc = "closed" /\ rec2.heard = last.heard /\ rec2.kinds = last.kinds
      /\ rec2.held = rec.held /\ rec2.reply = rec.reply /\ rec2.ran = rec.ran /\ rec2.context = rec.context
  <2>1. rec2 = [last EXCEPT !.pc = "closed", !.out = <<>>]
    BY <1>4, <1>7 DEF Shut
  <2>2. <<>> \in Seq(Words) /\ "closed" \in Stages
    BY DEF Stages
  <2> QED
    BY <1>8, <2>1, <2>2 DEF Turn, SameScan
<1>10. /\ rec.held # t /\ Interims(rec)
       /\ Lead(t, rec) \o ReadAtOnce(rec.reply, rec.ran) = rec.heard \o rec.out
  BY <1>2 DEF TurnHolds
<1>11. Heard(t, rec2)
  <2>1. Lead(t, rec2) = Lead(t, rec) /\ t \notin Texts
    BY <1>2, <1>9, StreamAssumption DEF Lead
  <2> QED
    BY <1>8, <1>9, <1>10, <2>1 DEF Heard
<1>12. EndsOnce(rec2)
  <2>1. PICK n : n = Len(rec.kinds)
    OBVIOUS
  <2>2. /\ n \in Nat
        /\ Append(rec.kinds, "final") = [i \in 1..n |-> "interim"] \o <<"final">>
        /\ Len(Append(rec.kinds, "final")) = n + 1
        /\ Append(Append(rec.kinds, "final"), "hangup") = [i \in 1..n |-> "interim"] \o <<"final", "hangup">>
        /\ Len(Append(Append(rec.kinds, "final"), "hangup")) = n + 2
    BY <1>2, <1>10, <2>1, InterimsThen
  <2>3. Hangs(rec2) <=> Hangs(rec)
    BY <1>9 DEF Hangs
  <2>4. PICK closing : closing = IF Hangs(rec) THEN <<"final", "hangup">> ELSE <<"final">>
    OBVIOUS
  <2>5. rec2.kinds = [i \in 1..n |-> "interim"] \o closing /\ Len(rec2.kinds) - Len(closing) = n
    <3>1. CASE Hangs(rec)
      <4>1. Len(closing) = 2 /\ (n + 2) - 2 = n
        BY <2>2, <2>4, <3>1
      <4> QED
        BY <1>8, <1>9, <2>2, <2>4, <3>1, <4>1
    <3>2. CASE ~Hangs(rec)
      <4>1. Len(closing) = 1 /\ (n + 1) - 1 = n
        BY <2>2, <2>4, <3>2
      <4> QED
        BY <1>8, <1>9, <2>2, <2>4, <3>2, <4>1
    <3> QED
      BY <3>1, <3>2
  <2> QED
    BY <2>2, <2>3, <2>4, <2>5 DEF EndsOnce
<1>13. TurnHolds(t, rec2)
  BY <1>9, <1>10, <1>11, <1>12 DEF TurnHolds
<1>14. Becomes(t, rec2)
  BY <1>1, <1>4 DEF CloseStream
<1> QED
  BY <1>2, <1>3, <1>9, <1>13, <1>14, BecomesHolds

LEMMA RunToolHolds ==
  ASSUME TurnInv, NEW t \in Voice \cup Texts, RunTool(t)
  PROVE  TurnInv'
<1>1. PICK rec : rec = turn[t]
  OBVIOUS
<1>2. rec \in Turn /\ TurnHolds(t, rec) /\ troubles' \in 0..MaxTroubles /\ rec.pc = "tools"
  BY <1>1, TurnOf DEF RunTool, Reaches
<1>3. UNCHANGED <<stash, prewarm, fetch>> /\ rec.calls # <<>>
  BY <1>1 DEF RunTool
<1>4. PICK calls : calls = Tail(rec.calls)
  OBVIOUS
<1>5. calls \in Seq(Letters) /\ rec.ran \in Seq(Results)
  BY <1>2, <1>3, <1>4, LettersOf, HeadTailProperties
<1>6. /\ rec.held # t /\ Interims(rec) /\ t \in Texts /\ rec.heard = <<>>
      /\ ReadAtOnce(rec.reply, Silent(rec.reply)) = rec.spoken
  BY <1>2 DEF TurnHolds
<1>7. PICK ran \in Seq(Results) : Becomes(t, [rec EXCEPT !.calls = calls, !.ran = ran])
  <2>1. CASE Head(rec.calls) # "d"
    <3>1. Becomes(t, [rec EXCEPT !.calls = calls])
      BY <1>1, <1>4, <2>1 DEF RunTool
    <3>2. [rec EXCEPT !.calls = calls] = [rec EXCEPT !.calls = calls, !.ran = rec.ran]
      BY <1>2 DEF Turn
    <3> QED
      BY <1>5, <3>1, <3>2
  <2>2. CASE Head(rec.calls) = "d"
    <3>1. PICK res \in request_manager_decision \cup {Snag} :
            Becomes(t, [rec EXCEPT !.calls = calls, !.ran = Append(@, res)])
      BY <1>1, <1>4, <2>2 DEF RunTool
    <3>2. Append(rec.ran, res) \in Seq(Results)
      BY <1>5, <3>1, ToolsReturnResults, AppendProperties
    <3> QED
      BY <3>1, <3>2
  <2> QED
    BY <2>1, <2>2
<1>8. PICK rec2 : rec2 = [rec EXCEPT !.calls = calls, !.ran = ran]
  OBVIOUS
<1>9. /\ rec2 \in Turn /\ rec2.pc = "tools" /\ rec2.held = rec.held /\ rec2.kinds = rec.kinds
      /\ rec2.heard = rec.heard /\ rec2.reply = rec.reply /\ rec2.spoken = rec.spoken
  BY <1>2, <1>5, <1>7, <1>8 DEF Turn
<1>10. Interims(rec2)
  BY <1>6, <1>9 DEF Interims
<1>11. TurnHolds(t, rec2)
  BY <1>6, <1>9, <1>10 DEF TurnHolds
<1> QED
  BY <1>2, <1>3, <1>7, <1>8, <1>9, <1>11, BecomesHolds

LEMMA SendReplyHolds ==
  ASSUME TurnInv, NEW t \in Voice \cup Texts, SendReply(t)
  PROVE  TurnInv'
<1>1. PICK rec : rec = turn[t]
  OBVIOUS
<1>2. rec \in Turn /\ TurnHolds(t, rec) /\ troubles' \in 0..MaxTroubles /\ rec.pc = "tools"
  BY <1>1, TurnOf DEF SendReply, Reaches
<1>3. UNCHANGED <<stash, prewarm, fetch>>
  BY DEF SendReply
<1>4. /\ rec.held # t /\ t \in Texts /\ t \notin Voice /\ rec.heard = <<>>
      /\ ReadAtOnce(rec.reply, Silent(rec.reply)) = rec.spoken
  BY <1>2, StreamAssumption DEF TurnHolds
<1>5. PICK body, text : body = rec.spoken \o Bridges(rec) /\ text = IF body = <<>> THEN <<"gotit">> ELSE body
  OBVIOUS
<1>6. text \in Seq(Words)
  <2>1. Bridges(rec) \in Seq(Words)
    <3>1. PICK ran : ran = rec.ran
      OBVIOUS
    <3>2. ran \in Seq(Results) /\ Len(ran) \in Nat /\ DOMAIN ran = 1..Len(ran)
      BY <1>2, <3>1, LettersOf
    <3>3. \A i \in 1..Len(ran) : ran[i].says[1] \in Words
      <4> SUFFICES ASSUME NEW i \in 1..Len(ran) PROVE ran[i].says[1] \in Words
        OBVIOUS
      <4>1. ran[i] \in Results
        BY <3>2, ElementOfSeq
      <4> QED
        BY <4>1, ResultSays
    <3>4. PICK f : f = [i \in 1..Len(ran) |-> ran[i].says[1]]
      OBVIOUS
    <3>5. f \in [1..Len(ran) -> Words]
      BY <3>3, <3>4
    <3>6. f \in Seq(Words)
      BY <3>2, <3>5
    <3>7. Bridges(rec) = f
      BY <3>1, <3>2, <3>4 DEF Bridges
    <3> QED
      BY <3>6, <3>7
  <2>2. rec.spoken \in Seq(Words)
    BY <1>2, LettersOf
  <2>3. body \in Seq(Words)
    BY <1>5, <2>1, <2>2, ConcatProperties
  <2>4. <<"gotit">> \in Seq(Words)
    BY DEF Words, Phrases
  <2> QED
    BY <1>5, <2>3, <2>4
<1>7. PICK sent, rec2 : sent = Send(rec, text, "final") /\ rec2 = Shut(sent)
  OBVIOUS
<1>8. sent \in Turn /\ sent.heard = rec.heard \o text /\ SameScan(sent, rec)
  BY <1>2, <1>6, <1>7, SendSends, SendScans
<1>9. rec2 \in Turn /\ rec2.pc = "closed" /\ rec2.heard = sent.heard /\ rec2.held = rec.held
      /\ rec2.reply = rec.reply /\ rec2.ran = rec.ran
  <2>1. <<>> \in Seq(Words) /\ "closed" \in Stages
    BY DEF Stages
  <2> QED
    BY <1>7, <1>8, <2>1 DEF Turn, Shut, SameScan
<1>10. rec2.heard = text
  BY <1>4, <1>6, <1>8, <1>9, ConcatEmptySeq
<1>11. Heard(t, rec2)
  <2>1. Bridges(rec2) = Bridges(rec)
    BY <1>9 DEF Bridges
  <2> QED
    BY <1>4, <1>5, <1>9, <1>10, <2>1 DEF Heard
<1>12. TurnHolds(t, rec2)
  BY <1>4, <1>9, <1>11 DEF TurnHolds
<1>13. Becomes(t, rec2)
  BY <1>1, <1>5, <1>7 DEF SendReply
<1> QED
  BY <1>2, <1>3, <1>9, <1>12, <1>13, BecomesHolds

LEMMA AbortTurnHolds ==
  ASSUME TurnInv, NEW t \in Voice \cup Texts, AbortTurn(t)
  PROVE  TurnInv'
<1>1. PICK rec, rec2 : rec = turn[t] /\ rec2 = [rec EXCEPT !.pc = "failed"]
  OBVIOUS
<1>2. rec \in Turn /\ TurnHolds(t, rec) /\ rec.pc # "closed" /\ troubles \in 0..MaxTroubles
  BY <1>1, TurnOf DEF AbortTurn
<1>3. /\ UNCHANGED <<stash, prewarm, fetch>> /\ troubles' \in 0..MaxTroubles /\ Becomes(t, rec2)
  BY <1>1, <1>2, StreamAssumption DEF AbortTurn, Trouble
<1>4. rec2 \in Turn /\ rec2.pc = "failed" /\ TurnHolds(t, rec2)
  BY <1>1, <1>2, FailedHolds
<1> QED
  BY <1>3, <1>4, BecomesHolds

LEMMA BlankHolds ==
  ASSUME NEW t \in Voice \cup Texts, NEW rec \in Turn, Fresh(rec), rec.pc \in {"idle", "racing", "over"}, rec.held # t
  PROVE  TurnHolds(t, rec)
<1>1. Interims(rec)
  <2>1. Len(rec.kinds) = 0 /\ rec.kinds = <<>>
    BY DEF Fresh
  <2> QED
    BY <2>1 DEF Interims
<1> QED
  BY <1>1 DEF TurnHolds

LEMMA NewTurnIs == NewTurn \in Turn /\ Fresh(NewTurn) /\ NewTurn.pc = "idle" /\ NewTurn.held = NoContext
<1>1. /\ "idle" \in Stages /\ NoContext \in Contexts \cup Texts /\ NoContext \in Contexts /\ <<>> \in Seq(Letters)
      /\ <<>> \in Seq(Words) /\ <<>> \in Seq(Results) /\ <<>> \in Seq({"interim", "final", "hangup"})
  BY DEF Stages, Contexts
<1>2. NewTurn \in Turn
  BY <1>1 DEF NewTurn, Turn
<1> QED
  BY <1>2 DEF NewTurn, Fresh

\* A turn that has just begun: at a stage, with the prewarmed context taken from the stash.
Begun(pc, held) == [NewTurn EXCEPT !.pc = pc, !.held = held]

LEMMA BegunIs ==
  ASSUME NEW pc \in Stages, NEW held \in Contexts
  PROVE  LET rec == Begun(pc, held) IN
           rec \in Turn /\ Fresh(rec) /\ rec.pc = pc /\ rec.held = held
BY NewTurnIs DEF Turn, Fresh, Begun

LEMMA OverIs ==
  ASSUME NEW pc \in Stages, NEW rec, rec = [NewTurn EXCEPT !.pc = pc]
  PROVE  rec \in Turn /\ Fresh(rec) /\ rec.pc = pc /\ rec.held = NoContext
BY NewTurnIs DEF Turn, Fresh

LEMMA BeginTurnHolds ==
  ASSUME TurnInv, NEW t \in Voice \cup Texts, BeginTurn(t)
  PROVE  TurnInv'
<1>1. /\ turn[t].pc = "idle" /\ stash' = stash /\ troubles' = troubles
      /\ fetch' = [fetch EXCEPT ![t] = "running"]
      /\ prewarm' \in {prewarm, "running"}
      /\ turn' = [u \in Voice \cup Texts |->
           IF u = t THEN [NewTurn EXCEPT !.pc = "racing", !.held = stash]
                    ELSE [NewTurn EXCEPT !.pc = IF turn[u].pc = "idle" THEN @ ELSE "over"]]
  BY DEF BeginTurn, Reaches
<1>2. /\ stash \in Contexts /\ fetch[t] = "idle" /\ stash # t
      /\ fetch \in [Voice \cup Texts -> {"idle", "running", "landed", "failed", "stashed"}]
  BY <1>1 DEF TurnInv, StreamTypeOK, Reaches
<1>3. NewTurn.pc = "idle" /\ NewTurn.held = NoContext /\ NoContext \in Contexts /\ t # NoContext
  BY StreamAssumption DEF NewTurn, Contexts, NoContext
<1>4. ASSUME NEW u \in Voice \cup Texts
      PROVE  /\ turn'[u] \in Turn /\ TurnHolds(u, turn'[u])
             /\ turn'[u].pc = "idle" => fetch'[u] = "idle"
             /\ stash' = u => fetch'[u] # "idle"
  <2>1. (turn[u].pc = "idle" => fetch[u] = "idle") /\ (stash = u => fetch[u] # "idle")
    BY DEF TurnInv, Reaches
  <2>2. CASE u = t
    <3>1. turn'[u] = [NewTurn EXCEPT !.pc = "racing", !.held = stash]
      BY <1>1, <2>2
    <3>2. turn'[u] \in Turn /\ turn'[u].pc = "racing" /\ TurnHolds(u, turn'[u])
      <4>1. PICK rec : rec = turn'[u]
        OBVIOUS
      <4>2. rec \in Turn /\ Fresh(rec) /\ rec.pc = "racing" /\ rec.held = stash
        <5>1. PICK pc : pc = "racing"
          OBVIOUS
        <5>2. PICK held : held = stash
          OBVIOUS
        <5>3. pc \in Stages /\ held \in Contexts
          BY <1>2, <5>1, <5>2 DEF Stages
        <5>4. rec = Begun(pc, held)
          BY <3>1, <4>1, <5>1, <5>2 DEF Begun
        <5>5. rec \in Turn /\ Fresh(rec) /\ rec.pc = pc /\ rec.held = held
          BY <5>3, <5>4, BegunIs
        <5> QED
          BY <5>1, <5>2, <5>5
      <4>3. TurnHolds(u, rec)
        BY <1>2, <2>2, <4>2, BlankHolds
      <4> QED
        BY <4>1, <4>2, <4>3
    <3> QED
      BY <1>1, <1>2, <2>2, <3>2
  <2>3. CASE u # t
    <3>1. PICK pc : pc = IF turn[u].pc = "idle" THEN "idle" ELSE "over"
      OBVIOUS
    <3>2. turn'[u] = [NewTurn EXCEPT !.pc = pc]
      BY <1>1, <1>3, <2>3, <3>1
    <3>4. u # NoContext
      BY StreamAssumption DEF NoContext
    <3>5. turn'[u] \in Turn /\ turn'[u].pc = pc /\ TurnHolds(u, turn'[u])
      <4>1. PICK rec : rec = turn'[u]
        OBVIOUS
      <4>2. rec \in Turn /\ Fresh(rec) /\ rec.pc = pc /\ rec.held = NoContext
        BY <3>1, <3>2, <4>1, OverIs DEF Stages
      <4>3. TurnHolds(u, rec)
        BY <3>1, <3>4, <4>2, BlankHolds
      <4> QED
        BY <4>1, <4>2, <4>3
    <3>6. fetch'[u] = fetch[u]
      BY <1>1, <1>2, <2>3
    <3> QED
      BY <1>1, <2>1, <3>1, <3>5, <3>6
  <2> QED
    BY <2>2, <2>3
<1>5. StreamTypeOK'
  <2>1. turn' \in [Voice \cup Texts -> Turn]
    BY <1>1, <1>4
  <2>2. fetch' \in [Voice \cup Texts -> {"idle", "running", "landed", "failed", "stashed"}]
    BY <1>1, <1>2
  <2> QED
    BY <1>1, <2>1, <2>2 DEF TurnInv, StreamTypeOK
<1> QED
  BY <1>4, <1>5 DEF TurnInv, Reaches

(* The prewarm's and the retrievals' own steps change no turn.              *)
LEMMA RetrievalHolds ==
  ASSUME TurnInv,
         \/ prewarm_call_context
         \/ \E t \in Voice \cup Texts : for_turn(t) \/ StashOnCompletion(t)
         \/ UNCHANGED streamVars
  PROVE  TurnInv'
<1> DEFINE F == {"idle", "running", "landed", "failed", "stashed"}
<1>0. /\ stash \in Contexts /\ prewarm \in {"idle", "running", "stashed", "failed"} /\ fetch \in [Voice \cup Texts -> F]
      /\ turn \in [Voice \cup Texts -> Turn] /\ troubles \in 0..MaxTroubles
  BY DEF TurnInv, StreamTypeOK
<1> SUFFICES /\ turn' = turn /\ stash' \in Contexts /\ prewarm' \in {"idle", "running", "stashed", "failed"}
             /\ fetch' \in [Voice \cup Texts -> F] /\ troubles' \in 0..MaxTroubles
             /\ \A u \in Voice \cup Texts : /\ fetch[u] = "idle" <=> fetch'[u] = "idle"
                                            /\ stash' = u => stash = u \/ fetch'[u] # "idle"
  BY <1>0 DEF TurnInv, StreamTypeOK, Reaches
<1>1. CASE prewarm_call_context
  <2>1. \A u \in Voice \cup Texts : u # Broad
    BY StreamAssumption DEF Broad
  <2> QED
    BY <1>0, <1>1, <2>1, StreamAssumption DEF prewarm_call_context, Trouble, Contexts
<1>2. CASE \E t \in Voice \cup Texts : for_turn(t) \/ StashOnCompletion(t)
  <2>1. PICK t \in Voice \cup Texts : for_turn(t) \/ StashOnCompletion(t)
    BY <1>2
  <2>2. CASE for_turn(t)
    BY <1>0, <2>2, StreamAssumption DEF for_turn, Trouble
  <2>3. CASE StashOnCompletion(t)
    BY <1>0, <2>3, StreamAssumption DEF StashOnCompletion, Trouble, Contexts
  <2> QED
    BY <2>1, <2>2, <2>3
<1>3. CASE UNCHANGED streamVars
  BY <1>0, <1>3 DEF streamVars
<1> QED
  BY <1>1, <1>2, <1>3

LEMMA StreamStarts == StreamInit => TurnInv
<1> SUFFICES ASSUME StreamInit PROVE TurnInv
  OBVIOUS
<1>1. NoContext \in Contexts /\ \A t \in Voice \cup Texts : NoContext # t
  BY StreamAssumption DEF Contexts, NoContext
<1>2. \A t \in Voice \cup Texts : TurnHolds(t, NewTurn)
  BY <1>1, NewTurnIs, BlankHolds
<1>3. \A t \in Voice \cup Texts : turn[t] \in Turn /\ TurnHolds(t, turn[t])
  BY <1>2, NewTurnIs DEF StreamInit
<1>4. StreamTypeOK
  BY <1>1, <1>3, StreamAssumption DEF StreamInit, StreamTypeOK
<1> QED
  BY <1>1, <1>3, <1>4 DEF StreamInit, TurnInv

LEMMA StreamSteps ==
  ASSUME TurnInv, [StreamNext]_streamVars
  PROVE  TurnInv'
<1>1. CASE prewarm_call_context \/ (\E t \in Voice \cup Texts : for_turn(t) \/ StashOnCompletion(t)) \/ UNCHANGED streamVars
  BY <1>1, RetrievalHolds
<1>2. ASSUME NEW t \in Voice \cup Texts, BeginTurn(t) \/ TurnGoesOn(t) \/ AbortTurn(t) PROVE TurnInv'
  <2>1. CASE BeginTurn(t)
    BY <2>1, BeginTurnHolds
  <2>2. CASE RetrievalWins(t)
    BY <2>2, RetrievalWinsHolds
  <2>3. CASE FallBack(t)
    BY <2>3, FallBackHolds
  <2>4. CASE NextToken(t)
    BY <2>4, NextTokenHolds
  <2>5. CASE EmitText(t)
    BY <2>5, EmitTextHolds
  <2>6. CASE OpenMarker(t)
    BY <2>6, OpenMarkerHolds
  <2>7. CASE CloseMarker(t)
    BY <2>7, CloseMarkerHolds
  <2>8. CASE EndReply(t)
    BY <2>8, EndReplyHolds
  <2>9. CASE CloseStream(t)
    BY <2>9, CloseStreamHolds
  <2>10. CASE RunTool(t)
    BY <2>10, RunToolHolds
  <2>11. CASE SendReply(t)
    BY <2>11, SendReplyHolds
  <2>12. CASE AbortTurn(t)
    BY <2>12, AbortTurnHolds
  <2> QED
    BY <1>2, <2>1, <2>2, <2>3, <2>4, <2>5, <2>6, <2>7, <2>8, <2>9, <2>10, <2>11, <2>12 DEF TurnGoesOn
<1> QED
  BY <1>1, <1>2 DEF StreamNext

LEMMA TurnInvDelivers == TurnInv => ReplyIsDelivered
<1> SUFFICES ASSUME TurnInv PROVE ReplyIsDelivered
  OBVIOUS
<1>1. SpokenIsTheReply
  <2>1. ASSUME NEW t \in Voice \cup Texts, Reaches(t, "closed") PROVE Heard(t, turn[t])
    BY <2>1 DEF TurnInv, TurnHolds, Reaches
  <2>2. ASSUME NEW t \in Voice, Reaches(t, "closed")
        PROVE  turn[t].heard = (IF turn[t].context = t THEN <<>> ELSE <<"filler">>)
                                 \o ReadAtOnce(turn[t].reply, turn[t].ran)
    BY <2>1, <2>2 DEF Heard, Lead
  <2>3. ASSUME NEW t \in Texts, Reaches(t, "closed")
        PROVE  LET body == ReadAtOnce(turn[t].reply, Silent(turn[t].reply)) \o Bridges(turn[t])
               IN  turn[t].heard = IF body = <<>> THEN <<"gotit">> ELSE body
    BY <2>1, <2>3 DEF Heard
  <2> QED
    BY <2>2, <2>3 DEF SpokenIsTheReply
<1>2. ClosedOnce
  <2> SUFFICES ASSUME NEW t \in Voice
               PROVE  LET kinds == turn[t].kinds
                          closing == IF ~Reaches(t, "closed") THEN <<>>
                                     ELSE IF Hangs(turn[t]) THEN <<"final", "hangup">> ELSE <<"final">>
                          n == Len(kinds) - Len(closing)
                      IN  n >= 0 /\ kinds = [i \in 1..n |-> "interim"] \o closing
    BY DEF ClosedOnce
  <2>1. TurnHolds(t, turn[t]) /\ turn[t] \in Turn
    BY TurnOf
  <2>2. CASE Reaches(t, "closed")
    <3>1. EndsOnce(turn[t])
      BY <2>1, <2>2 DEF TurnHolds, Reaches
    <3> QED
      BY <2>2, <3>1 DEF EndsOnce
  <2>3. CASE ~Reaches(t, "closed")
    <3>1. PICK kinds : kinds = turn[t].kinds
      OBVIOUS
    <3>2. kinds \in Seq({"interim", "final", "hangup"}) /\ kinds = [i \in 1..Len(kinds) |-> "interim"]
      BY <2>1, <2>3, <3>1, LettersOf DEF TurnHolds, Reaches, Interims
    <3>3. PICK closing, n : closing = <<>> /\ n = Len(kinds) - Len(closing)
      OBVIOUS
    <3>4. Len(closing) = 0 /\ Len(kinds) \in Nat
      BY <3>2, <3>3
    <3>5. n = Len(kinds) /\ n >= 0
      BY <3>3, <3>4
    <3>6. kinds \o closing = kinds
      BY <3>2, <3>3, ConcatEmptySeq
    <3> QED
      BY <2>3, <3>1, <3>2, <3>3, <3>5, <3>6
  <2> QED
    BY <2>2, <2>3
<1> QED
  BY <1>1, <1>2 DEF ReplyIsDelivered, TurnInv

(* For any turns, replies and results, and however the reply is cut into    *)
(* tokens and chunks, what the Rep hears is the reply with its tools' words *)
(* in place of their markers, and then its one end (tool_dispatch.py,       *)
(* streaming.py, turn_loop.py, sms_orchestrator.py).                        *)
THEOREM RepliesAreDelivered == StreamSpec => []ReplyIsDelivered
<1>1. TurnInv /\ [StreamNext]_streamVars => TurnInv'
  BY StreamSteps
<1> QED
  BY <1>1, StreamStarts, TurnInvDelivers, PTL DEF StreamSpec
=============================================================================
