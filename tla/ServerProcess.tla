---------------------------- MODULE ServerProcess ----------------------------
(***************************************************************************)
(* The process of the command line, cli/src/cli.mts: it reads its          *)
(* configuration, runs a Server, restarts it on SIGHUP and stops on SIGINT *)
(* or SIGTERM; and how a Server admits clients by their tokens             *)
(* (server/src/token.ts, ServerImpl._validateAuth).                        *)
(*                                                                         *)
(* A token is its timestamp: its signature always matches and its random   *)
(* bytes make it unique.  Time is the server's clock, which only moves     *)
(* forward; clients are off by one of Skews.                               *)
(***************************************************************************)
EXTENDS Integers, FiniteSets

CONSTANTS Token,        \* tokens clients create
          Window,       \* 10 seconds: how far a timestamp may be from now
          Retain,       \* 60 seconds: how long an accepted token is kept
          Skews,        \* how far the clocks of clients may be
          MaxTime,      \* bound: the clock stops
          MaxServers,   \* bound: servers made by one process
          MaxEdits,     \* bound: versions of the configuration
          Invalid       \* the versions readConfigs() refuses

ASSUME TimeAssumption ==
    /\ Window \in Nat /\ Retain \in Nat \ {0}
    /\ 2 * Window <= Retain + 2
    /\ Skews \subseteq Int
ASSUME BoundsAssumption ==
    /\ MaxTime \in Nat /\ MaxServers \in Nat \ {0} /\ MaxEdits \in Nat
    /\ 0 \notin Invalid

VARIABLES now,          \* Date.now()
          stamp,        \* the timestamp of a token, -1 before it is created
          tokens,       \* ServerImpl.#tokens of the running server, 0 if absent
          accepted,     \* how often the running server accepted a token
          sessions,     \* accepted tokens whose client is still connected
          state,        \* state of each server made
          server,       \* the variable "server" of cli.mts
          then,         \* what awaits server.stop()
          disk,         \* the version of the configuration on disk
          options,      \* the variable "options" of cli.mts
          exit          \* exit code of the process, -1 while it runs

ProcessVars ==
    <<now, stamp, tokens, accepted, sessions, state, server, then, disk, options, exit>>
clients == <<stamp, tokens, accepted, sessions>>
process == <<state, server, then, disk, options, exit>>

Server == 1 .. MaxServers
Alive == exit = -1
None == [t \in Token |-> 0]
Abs(n) == IF n < 0 THEN -n ELSE n

-----------------------------------------------------------------------------
(* Tokens.                                                                 *)

Tick ==
    /\ now < MaxTime
    /\ now' = now + 1
    /\ UNCHANGED <<clients, process>>

\* A client writes the time of its own clock into a new token.
CreateToken(t) ==
    /\ stamp[t] = -1
    /\ \E skew \in Skews :
        /\ now + skew >= 0
        /\ stamp' = [stamp EXCEPT ![t] = now + skew]
    /\ UNCHANGED <<now, tokens, accepted, sessions, process>>

VerifyToken(t) == Abs(stamp[t] - now) < Window

MutantExpiry == now + Window
Expiry == now + Retain

\* _validateAuth() for a request or an upgrade: a token out of its window or
\* already seen is refused, with no change of state.
Present(t) ==
    /\ Alive /\ state[server] = "listening"
    /\ stamp[t] # -1
    /\ VerifyToken(t)
    /\ tokens[t] = 0
    /\ tokens' = [tokens EXCEPT ![t] = Expiry]
    /\ accepted' = [accepted EXCEPT ![t] = @ + 1]
    /\ sessions' = sessions \cup {t}
    /\ UNCHANGED <<now, stamp, process>>

\* The interval of start() forgets what has expired.
Wipe ==
    /\ Alive
    /\ \E t \in Token : tokens[t] # 0 /\ tokens[t] < now
    /\ tokens' = [t \in Token |-> IF tokens[t] < now THEN 0 ELSE tokens[t]]
    /\ UNCHANGED <<now, stamp, accepted, sessions, process>>

\* A client leaves.  No handler of the server closes its socket.
Leave(t) ==
    /\ t \in sessions
    /\ sessions' = sessions \ {t}
    /\ UNCHANGED <<now, stamp, tokens, accepted, process>>

-----------------------------------------------------------------------------
(* The process.                                                            *)

\* Somebody edits the configuration file.
Edit ==
    /\ Alive /\ disk < MaxEdits
    /\ disk' = disk + 1
    /\ UNCHANGED <<now, clients, state, server, then, options, exit>>

ReadConfigs == IF disk \in Invalid THEN options ELSE disk

\* Server.stop(): a server that does not listen, because it was already stopped
\* or has not started yet, fails an assertion and the process ends with 1.
StopServer(after) ==
    \/ /\ state[server] = "listening"
       /\ state' = [state EXCEPT ![server] = "closing"]
       /\ then' = after
       /\ UNCHANGED <<exit, sessions>>
    \/ /\ state[server] # "listening"
       /\ exit' = 1
       /\ sessions' = {}
       /\ UNCHANGED <<state, then>>

\* The SIGHUP handler: a configuration that cannot be read changes nothing but
\* the log, and the server is restarted all the same.
MutantImpatient ==
    /\ Alive /\ server < MaxServers
    /\ options' = ReadConfigs
    /\ server' = server + 1
    /\ state' = [state EXCEPT ![server] = "closing", ![server + 1] = "starting"]
    /\ tokens' = None /\ accepted' = None
    /\ UNCHANGED <<now, stamp, sessions, then, disk, exit>>
Hangup ==
    /\ Alive /\ server < MaxServers
    /\ options' = ReadConfigs
    /\ StopServer("restart")
    /\ UNCHANGED <<now, stamp, tokens, accepted, server, disk>>

\* The SIGINT and SIGTERM handlers.
Interrupt ==
    /\ Alive
    /\ StopServer("exit")
    /\ UNCHANGED <<now, stamp, tokens, accepted, server, disk, options>>

\* The HTTP server closes when its last client has left; stop() is fulfilled.
\* After a SIGHUP a new Server is made and started, else the process ends.
MutantNoRestart ==
    /\ Alive /\ state[server] = "closing" /\ sessions = {}
    /\ then = "exit"
    /\ exit' = 0
    /\ state' = [state EXCEPT ![server] = "closed"]
    /\ then' = "nothing"
    /\ UNCHANGED <<now, clients, server, disk, options>>
Closed ==
    /\ Alive /\ state[server] = "closing" /\ sessions = {}
    /\ \/ /\ then = "restart"
          /\ server' = server + 1
          /\ state' = [state EXCEPT ![server] = "closed",
                                    ![server + 1] = "starting"]
          /\ tokens' = None /\ accepted' = None
          /\ UNCHANGED exit
       \/ /\ then = "exit"
          /\ exit' = 0
          /\ state' = [state EXCEPT ![server] = "closed"]
          /\ UNCHANGED <<server, tokens, accepted>>
    /\ then' = "nothing"
    /\ UNCHANGED <<now, stamp, sessions, disk, options>>

\* start(): the pool starts and the server listens, or the process ends.
Started ==
    /\ Alive /\ state[server] = "starting"
    /\ state' = [state EXCEPT ![server] = "listening"]
    /\ UNCHANGED <<now, clients, server, then, disk, options, exit>>
StartFails ==
    /\ Alive /\ state[server] = "starting"
    /\ exit' = 1
    /\ UNCHANGED <<now, clients, state, server, then, disk, options>>

\* The process as its handlers of signals are installed: the first server has
\* started with a valid configuration.
ProcessInit ==
    /\ now = 0
    /\ stamp = [t \in Token |-> -1]
    /\ tokens = None /\ accepted = None
    /\ sessions = {}
    /\ state = [i \in Server |-> IF i = 1 THEN "listening" ELSE "none"]
    /\ server = 1
    /\ then = "nothing"
    /\ disk = 0 /\ options = 0
    /\ exit = -1

ProcessNext ==
    \/ Tick \/ Wipe \/ Edit \/ Hangup \/ Interrupt \/ Closed
    \/ Started \/ StartFails
    \/ \E t \in Token : CreateToken(t) \/ Present(t) \/ Leave(t)

ProcessSpec == ProcessInit /\ [][ProcessNext]_ProcessVars
ProcessFairSpec ==
    ProcessSpec /\ WF_ProcessVars(Closed) /\ WF_ProcessVars(Started \/ StartFails)

-----------------------------------------------------------------------------
(* Properties.                                                             *)

\* One server at a time holds the port and the database connections: the next
\* one is made only when stop() has been fulfilled.
OneServer ==
    \A i, j \in Server :
        {state[i], state[j]} \subseteq {"starting", "listening", "closing"} =>
            i = j

\* The types of the variables; something awaits stop() only while the server
\* closes, a version that was refused is never among the options, and there is
\* one server at a time.
ProcessTypeOK ==
    /\ OneServer
    /\ now \in 0 .. MaxTime
    /\ stamp \in [Token -> Int] /\ tokens \in [Token -> Nat]
    /\ accepted \in [Token -> Nat] /\ sessions \subseteq Token
    /\ server \in Server /\ exit \in {-1, 0, 1}
    /\ state \in [Server -> {"none", "starting", "listening", "closing", "closed"}]
    /\ then \in {"nothing", "restart", "exit"}
    /\ then # "nothing" => state[server] = "closing"
    /\ disk \in 0 .. MaxEdits /\ options \in (0 .. MaxEdits) \ Invalid

\* A server accepts a token once: what it remembers of a token lasts as long as
\* the timestamp is acceptable, whatever the clock of the client (the server
\* made by a restart starts with an empty memory).
AcceptedOnce == \A t \in Token : accepted[t] <= 1

\* A process asked to restart serves again or ends, unless a client that never
\* leaves keeps its old server from closing.
Restarts ==
    [](then = "restart" =>
          \/ <>(state[server] = "listening" \/ ~Alive)
          \/ <>[](sessions # {}))
=============================================================================
