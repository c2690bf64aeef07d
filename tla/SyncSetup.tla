----------------------------- MODULE SyncSetup -----------------------------
(***************************************************************************)
(* SyncClient::connect_with_config: the addresses are tried in order, each *)
(* with one budget for the TCP connect and the setup behind it.  A         *)
(* watchdog thread shuts the socket down when the budget is spent, because *)
(* the timeouts of the socket start again with every byte a slow peer      *)
(* sends.                                                                  *)
(***************************************************************************)
EXTENDS Naturals, Sequences

CONSTANT NumAddrs       \* addresses the host name resolves to

ASSUME NumAddrsAssumption == NumAddrs \in Nat

VARIABLES
    setup,      \* pc, the address at hand, what handshake_and_negotiate() gave
    dog,        \* the watchdog thread: pc, whether stop was sent, expired
    sock,       \* the socket: shut down, read timeout, write timeout
    peer,       \* how the server behaves during this setup
    modes       \* chunked mode: config.chunked_mode, the server's, the choice

setupVars == <<setup, dog, sock, peer, modes>>

Capabilities == [chunked: BOOLEAN, optional: BOOLEAN]

(* choose_chunked_mode: an optional side follows the other one; the server *)
(* is asked first.                                                         *)
choose_chunked_mode(server, client) ==
    CASE server.optional -> [ok |-> TRUE, chunked |-> client.chunked]
      [] ~server.optional /\ client.optional -> [ok |-> TRUE, chunked |-> server.chunked]
      [] OTHER -> [ok |-> server.chunked = client.chunked, chunked |-> server.chunked]

(* negotiate_chunked_transport, for one direction: a server that knows no  *)
(* chunked packets suits every client that does not insist on them; one    *)
(* that reads no addendum is not asked.                                    *)
negotiate_chunked_transport(era, server, client) ==
    CASE era = "no addendum" -> [ok |-> TRUE, chunked |-> FALSE]
      [] era = "no chunks" -> [ok |-> client.optional \/ ~client.chunked, chunked |-> FALSE]
      [] era = "chunks" -> choose_chunked_mode(server, client)

SetupInit ==
    /\ setup = [pc |-> "connect", addr |-> 1, result |-> "none"]
    /\ dog = [pc |-> "off", stop |-> FALSE, expired |-> FALSE]
    /\ sock = [shut |-> FALSE, read |-> "none", write |-> "none"]
    /\ peer \in {"answers", "refuses", "breaks", "silent", "drips"}
    /\ \E era \in {"no addendum", "no chunks", "chunks"}, server, client \in Capabilities :
        modes = negotiate_chunked_transport(era, server, client)

(* After a failure that may be the address's own, the next address.        *)
NextAddr ==
    /\ setup' = [setup EXCEPT !.pc = IF setup.addr < NumAddrs THEN "connect" ELSE "failed",
                              !.addr = @ + 1, !.result = "none"]
    /\ peer' \in {"answers", "refuses", "breaks", "silent", "drips"}

(* Nothing resolved, the connect fails, or it used up the budget.          *)
ConnectFails ==
    /\ setup.pc = "connect"
    /\ NextAddr
    /\ UNCHANGED <<dog, sock, modes>>

(* connect_transport_with_budget sets the timeouts and starts the watchdog *)
Connected ==
    /\ setup.pc = "connect" /\ setup.addr <= NumAddrs
    /\ setup' = [setup EXCEPT !.pc = "handshake"]
    /\ sock' = [shut |-> FALSE, read |-> "setup", write |-> "setup"]
    /\ dog' = [pc |-> "armed", stop |-> FALSE, expired |-> FALSE]
    /\ UNCHANGED <<peer, modes>>

(* The handshake ends: with the server's Hello, with its exception, with   *)
(* an I/O error, with a socket timeout on a peer that sends nothing.  The  *)
(* chunked modes may not fit.                                              *)
Answer ==
    CASE sock.shut \/ peer \in {"breaks", "silent"} -> {"io"}
      [] ~sock.shut /\ peer = "answers" -> {IF modes.ok THEN "ok" ELSE "fatal"}
      [] ~sock.shut /\ peer = "refuses" -> {"fatal"}
      [] OTHER -> {}

Handshake ==
    /\ setup.pc = "handshake"
    /\ \E result \in Answer :
        setup' = [setup EXCEPT !.pc = "stop", !.result = result]
    /\ UNCHANGED <<dog, sock, peer, modes>>

(* SetupWatchdog::finish sends stop, joins the thread and reads the flag.  *)
SendStop ==
    /\ setup.pc = "stop"
    /\ dog' = [dog EXCEPT !.stop = TRUE]
    /\ setup' = [setup EXCEPT !.pc = "join"]
    /\ UNCHANGED <<sock, peer, modes>>

JoinSkipped == TRUE

Joined == dog.pc = "exited"

(* classify_setup_error: a spent budget is a timeout whatever the setup    *)
(* gave, and elapsed() >= budget can be true without the watchdog.  The    *)
(* timeouts of queries are restored.  I/O errors and timeouts move on to   *)
(* the next address, everything else surfaces.                             *)
Finish ==
    /\ setup.pc = "join" /\ Joined
    /\ \E late \in BOOLEAN :
        IF dog.expired \/ late \/ setup.result = "io"
        THEN NextAddr
        ELSE /\ setup' = [setup EXCEPT !.pc = IF setup.result = "ok" THEN "ready" ELSE "failed"]
             /\ UNCHANGED peer
    /\ sock' = [sock EXCEPT !.read = "query", !.write = "none"]
    /\ UNCHANGED <<dog, modes>>

(* The watchdog waits for stop or for the end of the budget.               *)
DogStops ==
    /\ dog.pc = "armed" /\ dog.stop
    /\ dog' = [dog EXCEPT !.pc = "exited"]
    /\ UNCHANGED <<setup, sock, peer, modes>>

DogTimesOut ==
    /\ dog.pc = "armed"
    /\ dog' = [dog EXCEPT !.pc = "fired", !.expired = TRUE]
    /\ UNCHANGED <<setup, sock, peer, modes>>

DogOnlyMarks ==
    /\ dog.pc = "fired"
    /\ dog' = [dog EXCEPT !.pc = "exited"]
    /\ UNCHANGED <<setup, sock, peer, modes>>

DogShuts ==
    /\ dog.pc = "fired"
    /\ sock' = [sock EXCEPT !.shut = TRUE]
    /\ dog' = [dog EXCEPT !.pc = "exited"]
    /\ UNCHANGED <<setup, peer, modes>>

Watchdog == DogStops \/ DogTimesOut \/ DogShuts

SetupNext == ConnectFails \/ Connected \/ Handshake \/ SendStop \/ Finish \/ Watchdog

(* A TCP connect has its own timeout, threads run, and budgets end.        *)
SetupFairness ==
    /\ WF_setupVars(ConnectFails \/ Connected) /\ WF_setupVars(Handshake)
    /\ WF_setupVars(SendStop) /\ WF_setupVars(Finish) /\ WF_setupVars(Watchdog)

-----------------------------------------------------------------------------
(* A client that connect_with_config hands out has no watchdog left that   *)
(* shut its socket down or still could, and the timeouts of queries: the   *)
(* thread "is disarmed and joined before a client escapes".                *)
EscapesAlive ==
    setup.pc = "ready" =>
        /\ dog.pc = "exited" /\ ~dog.expired
        /\ sock.read = "query" /\ sock.write = "none"

(* connect_with_config returns, also from a server that accepts and sends  *)
(* a byte from time to time.                                               *)
SetupEnds == <>(setup.pc \in {"ready", "failed"})
=============================================================================
