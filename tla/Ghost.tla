-------------------------------- MODULE Ghost --------------------------------
(***************************************************************************)
(* The ghost of ghost.go: RunGhost accepts clients, and for each of them   *)
(* handleClientConnection dials the IRC server, directly or through a      *)
(* proxy, plain or with TLS, starts a relay for each direction and waits   *)
(* until either has closed both connections.                               *)
(*                                                                         *)
(* connectionTLS and proxyConnectinoTLS return a *tls.Conn, and a nil one  *)
(* in the interface ircServerConn is not nil: the session goes on with it. *)
(* A panic in a goroutine, like log.Fatalf, ends the whole process.        *)
(* Lines are not told apart: a relay has one in hand or has none.          *)
(***************************************************************************)
EXTENDS Integers

CONSTANTS
  Sessions,         \* clients that are accepted
  Modes             \* records [proxy, tls : BOOLEAN, cert : {"valid", "absent", "unusable"}]

VARIABLES
  mode,             \* the configuration of the session's ghost
  handler,          \* handleClientConnection: "none", "dial", "wait", "returned"
  clientConn,       \* "none", "open", "closed"
  serverConn,       \* "none", "open", "closed", or "nil": a nil *tls.Conn
  gone,             \* ends ("client", "server") from which nothing more will come
  relay,            \* per direction: "off", "read", "write", "closing", "client", "server", "done", "over"
  once,             \* sync.Once: "free", "taken", "done"
  fate              \* the process: "runs", "panicked", "exited"

ghostVars == <<mode, handler, clientConn, serverConn, gone, relay, once, fate>>

Directions == {"up", "down"}     \* from client to server, and back
Src(s, d) == IF d = "up" THEN clientConn[s] ELSE serverConn[s]
Dest(s, d) == IF d = "up" THEN serverConn[s] ELSE clientConn[s]
SrcEnd(d) == IF d = "up" THEN "client" ELSE "server"
DestEnd(d) == IF d = "up" THEN "server" ELSE "client"

GhostInit ==
  /\ mode \in [Sessions -> Modes]
  /\ handler = [s \in Sessions |-> "none"]
  /\ clientConn = [s \in Sessions |-> "none"]
  /\ serverConn = [s \in Sessions |-> "none"]
  /\ gone = [s \in Sessions |-> {}]
  /\ relay = [s \in Sessions |-> [d \in Directions |-> "off"]]
  /\ once = [s \in Sessions |-> "free"]
  /\ fate = "runs"

AcceptClient(s) ==
  /\ handler[s] = "none"
  /\ handler' = [handler EXCEPT ![s] = "dial"]
  /\ clientConn' = [clientConn EXCEPT ![s] = "open"]
  /\ UNCHANGED <<mode, serverConn, gone, relay, once, fate>>

\* Whether LoadX509KeyPair fails, which is fatal: connectionTLS loads the pair also
\* when none is configured, and before it dials; proxyConnectinoTLS only when one is,
\* and after the proxy has dialled.
BadCertificate(m) ==
  m.tls /\ (m.cert = "unusable" \/ (m.cert = "absent" /\ ~m.proxy))

CertificateFails(s) ==
  /\ handler[s] = "dial" /\ BadCertificate(mode[s])
  /\ fate' = "exited"
  /\ UNCHANGED <<mode, handler, clientConn, serverConn, gone, relay, once>>

\* `go relay` in both directions, and <-done.
StartRelays(s) ==
  /\ handler' = [handler EXCEPT ![s] = "wait"]
  /\ relay' = [relay EXCEPT ![s] = [d \in Directions |-> "read"]]

DialOk(s) ==
  /\ handler[s] = "dial" /\ ~BadCertificate(mode[s])
  /\ serverConn' = [serverConn EXCEPT ![s] = "open"]
  /\ StartRelays(s)
  /\ UNCHANGED <<mode, clientConn, gone, once, fate>>

\* The client is closed. Without TLS the handler returns; with TLS the nil pointer
\* passes `ircServerConn == nil` and the relays start.
DialFails(s) ==
  /\ handler[s] = "dial" /\ (BadCertificate(mode[s]) => mode[s].proxy)
  /\ clientConn' = [clientConn EXCEPT ![s] = "closed"]
  /\ IF mode[s].tls
       THEN serverConn' = [serverConn EXCEPT ![s] = "nil"] /\ StartRelays(s)
       ELSE /\ handler' = [handler EXCEPT ![s] = "returned"]
            /\ UNCHANGED <<serverConn, relay>>
  /\ UNCHANGED <<mode, gone, once, fate>>

RelayTo(s, d, place) == relay' = [relay EXCEPT ![s][d] = place]

\* A line has come.
ReadLine(s, d) ==
  /\ relay[s][d] = "read" /\ Src(s, d) = "open" /\ SrcEnd(d) \notin gone[s]
  /\ RelayTo(s, d, "write")
  /\ UNCHANGED <<mode, handler, clientConn, serverConn, gone, once, fate>>

\* Mutant of ReadError: the relay returns without closing.
ReadErrorReturns(s, d) ==
  /\ relay[s][d] = "read"
  /\ Src(s, d) = "closed" \/ (Src(s, d) = "open" /\ SrcEnd(d) \in gone[s])
  /\ RelayTo(s, d, "over")
  /\ UNCHANGED <<mode, handler, clientConn, serverConn, gone, once, fate>>

\* The source is at its end or was closed by the other relay; what came of an
\* unfinished line is dropped.
ReadError(s, d) ==
  /\ relay[s][d] = "read"
  /\ Src(s, d) = "closed" \/ (Src(s, d) = "open" /\ SrcEnd(d) \in gone[s])
  /\ RelayTo(s, d, "closing")
  /\ UNCHANGED <<mode, handler, clientConn, serverConn, gone, once, fate>>

WriteLine(s, d) ==
  /\ relay[s][d] = "write" /\ Dest(s, d) = "open"
  /\ RelayTo(s, d, "read")
  /\ UNCHANGED <<mode, handler, clientConn, serverConn, gone, once, fate>>

WriteError(s, d) ==
  /\ relay[s][d] = "write"
  /\ Dest(s, d) = "closed" \/ (Dest(s, d) = "open" /\ DestEnd(d) \in gone[s])
  /\ RelayTo(s, d, "closing")
  /\ UNCHANGED <<mode, handler, clientConn, serverConn, gone, once, fate>>

\* A method of the nil *tls.Conn is called.
UseNil(s, d) ==
  /\ \/ relay[s][d] = "read" /\ Src(s, d) = "nil"
     \/ relay[s][d] = "write" /\ Dest(s, d) = "nil"
     \/ relay[s][d] = "server" /\ serverConn[s] = "nil"
  /\ fate' = "panicked"
  /\ UNCHANGED <<mode, handler, clientConn, serverConn, gone, relay, once>>

\* Mutant of CloseOnce: without the Once.
CloseAlways(s, d) ==
  /\ relay[s][d] = "closing"
  /\ RelayTo(s, d, "client")
  /\ UNCHANGED <<mode, handler, clientConn, serverConn, gone, once, fate>>

\* closeConnections enters the Once, or waits for the other relay to have left it.
CloseOnce(s, d) ==
  /\ relay[s][d] = "closing"
  /\ \/ once[s] = "free" /\ once' = [once EXCEPT ![s] = "taken"] /\ RelayTo(s, d, "client")
     \/ once[s] = "done" /\ UNCHANGED once /\ RelayTo(s, d, "over")
  /\ UNCHANGED <<mode, handler, clientConn, serverConn, gone, fate>>

CloseClient(s, d) ==
  /\ relay[s][d] = "client"
  /\ clientConn' = [clientConn EXCEPT ![s] = "closed"]
  /\ RelayTo(s, d, "server")
  /\ UNCHANGED <<mode, handler, serverConn, gone, once, fate>>

CloseServer(s, d) ==
  /\ relay[s][d] = "server" /\ serverConn[s] # "nil"
  /\ serverConn' = [serverConn EXCEPT ![s] = "closed"]
  /\ RelayTo(s, d, "done")
  /\ UNCHANGED <<mode, handler, clientConn, gone, once, fate>>

\* close(done), which the handler waits for; a second one would panic.
CloseDone(s, d) ==
  /\ relay[s][d] = "done"
  /\ once' = [once EXCEPT ![s] = "done"]
  /\ RelayTo(s, d, "over")
  /\ handler' = [handler EXCEPT ![s] = "returned"]
  /\ fate' = IF handler[s] = "returned" THEN "panicked" ELSE fate
  /\ UNCHANGED <<mode, clientConn, serverConn, gone>>

\* A peer closes or breaks its connection.
PeerGoes(s, e) ==
  /\ (IF e = "client" THEN clientConn[s] ELSE serverConn[s]) = "open"
  /\ gone' = [gone EXCEPT ![s] = @ \union {e}]
  /\ UNCHANGED <<mode, handler, clientConn, serverConn, relay, once, fate>>

\* What the goroutines do by themselves; reads of a silent peer wait.
Relaying(s, d) ==
  \/ ReadError(s, d) \/ WriteLine(s, d) \/ WriteError(s, d) \/ UseNil(s, d)
  \/ CloseOnce(s, d) \/ CloseClient(s, d) \/ CloseServer(s, d) \/ CloseDone(s, d)

GhostNext ==
  /\ fate = "runs"
  /\ \E s \in Sessions :
       \/ AcceptClient(s) \/ CertificateFails(s) \/ DialOk(s) \/ DialFails(s)
       \/ PeerGoes(s, "client") \/ PeerGoes(s, "server")
       \/ \E d \in Directions : ReadLine(s, d) \/ Relaying(s, d)

GhostSpec == GhostInit /\ [][GhostNext]_ghostVars
-----------------------------------------------------------------------------
GhostTypeOK ==
  /\ mode \in [Sessions -> Modes]
  /\ handler \in [Sessions -> {"none", "dial", "wait", "returned"}]
  /\ clientConn \in [Sessions -> {"none", "open", "closed"}]
  /\ serverConn \in [Sessions -> {"none", "open", "closed", "nil"}]
  /\ gone \in [Sessions -> SUBSET {"client", "server"}]
  /\ relay \in [Sessions -> [Directions -> {"off", "read", "write", "closing", "client", "server", "done", "over"}]]
  /\ once \in [Sessions -> {"free", "taken", "done"}]
  /\ fate \in {"runs", "panicked", "exited"}

\* Sessions without TLS never end the process, whichever end breaks first and however
\* the relays race to close; what does is a failed dial over TLS, or its certificate
\* (ghost.go:91, 123, 188).
PlainGhostsSurvive == fate # "runs" => \E s \in Sessions : mode[s].tls

\* One end going takes the session down: both connections are closed, the handler and
\* both relays return.
SessionEnds ==
  \A s \in Sessions :
    gone[s] # {} /\ relay[s]["up"] # "off" ~>
      \/ fate # "runs"
      \/ /\ clientConn[s] = "closed" /\ serverConn[s] = "closed"
         /\ handler[s] = "returned"
         /\ \A d \in Directions : relay[s][d] = "over"
=============================================================================
