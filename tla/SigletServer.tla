---------------------------- MODULE SigletServer ----------------------------
(***************************************************************************)
(* The siglet process (siglet/src/main.rs, assembly/mod.rs, server/mod.rs): it   *)
(* validates its configuration, assembles the runtime step by step, and runs      *)
(* four API servers in a JoinSet with one cancellation token, stopped by a       *)
(* signal or by the first of them that fails, while requests are under way.       *)
(***************************************************************************)
EXTENDS SigletConfig, Sequences

CONSTANTS Configs,       \* configurations load_config can return
          Requests,      \* connections on which requests arrive
          MaxCrashes     \* bound: failures from outside

ASSUME ServerAssumption ==
    /\ MaxCrashes \in Nat
    /\ \A c \in Configs : c.server_secret.bytes \in Nat \cup {None}

VARIABLES config,     \* SigletConfig
          assembled,  \* steps of the assembly done
          server,     \* server[s]: its task
          open,       \* open[r]: the server with a request under way on r, or none
          cancelled,  \* CancellationToken
          run,        \* where main is
          signalled,  \* Ctrl+C or SIGTERM has come
          crashes

vars == <<config, assembled, server, open, cancelled, run, signalled, crashes>>

Ended == {"ok", "failed", "aborted"}

\* assemble_memory and assemble_postgres
Assembly ==
    LET stores == IF config.storage = "memory" THEN <<>>
                  ELSE <<"connect_postgres", "mapping_stores">>
    IN  <<"vault_client", "server_secret">> \o stores \o <<"key_resolver", "sdk">>

\* MIN_SECRET_LENGTH of the token manager
MinSecretLength == 32

\* create_vault_client and generate_server_secret have conditions of their own.
Accepted(step) ==
    LET auth == resolved_auth(config.vault) IN
    /\ step = "vault_client" =>
           /\ config.vault.url # None
           /\ auth.type = "kubernetes_service_account" =>
                  auth.token # None \/ auth.token_file # None
    /\ step = "server_secret" /\ config.server_secret.bytes # None =>
           config.server_secret.hex /\ config.server_secret.bytes >= MinSecretLength

\* Type invariant.
TypeOK ==
    /\ config \in Configs /\ assembled \in 0..Len(Assembly)
    /\ server \in [Servers -> {"absent", "starting", "serving", "draining", "joined"} \cup Ended]
    /\ open \in [Requests -> Servers \cup {None}]
    /\ cancelled \in BOOLEAN /\ signalled \in BOOLEAN
    /\ run \in {"load", "assemble", "select", "cleanup", "returned_ok", "returned_err", "refused"}
    /\ crashes \in 0..MaxCrashes

Init ==
    /\ config \in Configs /\ assembled = 0
    /\ server = [s \in Servers |-> "absent"]
    /\ open = [r \in Requests |-> None]
    /\ cancelled = FALSE /\ signalled = FALSE /\ run = "load" /\ crashes = 0

Running == run \in {"select", "cleanup"}

-----------------------------------------------------------------------------
(* main *)

\* load_config and validate: an invalid configuration ends the process.
Load ==
    /\ run = "load"
    /\ run' = IF validate(config) THEN "assemble" ELSE "refused"
    /\ UNCHANGED <<config, assembled, server, open, cancelled, signalled, crashes>>

\* One step of the assembly; after the last, run_server spawns the servers.
Assemble ==
    /\ run = "assemble" /\ assembled < Len(Assembly)
    /\ IF Accepted(Assembly[assembled + 1])
       THEN assembled' = assembled + 1 /\ UNCHANGED run
       ELSE run' = "returned_err" /\ UNCHANGED assembled
    /\ UNCHANGED <<config, server, open, cancelled, signalled, crashes>>

\* Vault or Postgres does not answer, a file cannot be read or written.
AssemblyFails ==
    /\ run = "assemble" /\ assembled < Len(Assembly)
    /\ Assembly[assembled + 1] # "server_secret"
    /\ crashes < MaxCrashes /\ crashes' = crashes + 1
    /\ run' = "returned_err"
    /\ UNCHANGED <<config, assembled, server, open, cancelled, signalled>>

Spawn ==
    /\ run = "assemble" /\ assembled = Len(Assembly)
    /\ server' = [s \in Servers |-> "starting"] /\ run' = "select"
    /\ UNCHANGED <<config, assembled, open, cancelled, signalled, crashes>>

-----------------------------------------------------------------------------
(* The servers: run_signaling_api and its three siblings *)

Taken(port) == \E t \in Servers : server[t] = "serving" /\ config.ports[t] = port

\* A port that another API of the process listens on cannot be bound; for port 0 the
\* system chooses a free one.
Bind(s) ==
    /\ server[s] = "starting"
    /\ server' = [server EXCEPT ![s] =
                     IF config.ports[s] # 0 /\ Taken(config.ports[s])
                     THEN "failed" ELSE "serving"]
    /\ UNCHANGED <<config, assembled, open, cancelled, run, signalled, crashes>>

\* Another process has the port, or serve fails or panics.
Crash(s) ==
    /\ server[s] \in {"starting", "serving", "draining"} /\ Running
    /\ crashes < MaxCrashes /\ crashes' = crashes + 1
    /\ server' = [server EXCEPT ![s] = "failed"]
    /\ UNCHANGED <<config, assembled, open, cancelled, run, signalled>>

\* The server's task wakes up to the cancellation and closes its listener.
StopListening(s) ==
    /\ server[s] = "serving" /\ cancelled
    /\ server' = [server EXCEPT ![s] = "draining"]
    /\ UNCHANGED <<config, assembled, open, cancelled, run, signalled, crashes>>

\* Mutant: the server does not wait for its connections.
Drain_Abrupt(s) ==
    /\ server[s] = "draining"
    /\ server' = [server EXCEPT ![s] = "ok"]
    /\ UNCHANGED <<config, assembled, open, cancelled, run, signalled, crashes>>

\* Graceful shutdown ends when no request is under way.
Drain(s) ==
    /\ server[s] = "draining"
    /\ \A r \in Requests : open[r] # s
    /\ server' = [server EXCEPT ![s] = "ok"]
    /\ UNCHANGED <<config, assembled, open, cancelled, run, signalled, crashes>>

\* A request is accepted by a server that listens, also between the cancellation and the
\* moment the server learns of it.
Accept(r) ==
    /\ Running /\ open[r] = None
    /\ \E s \in Servers : server[s] = "serving" /\ open' = [open EXCEPT ![r] = s]
    /\ UNCHANGED <<config, assembled, server, cancelled, run, signalled, crashes>>

\* Connections are tasks of their own: they go on without their server, and end with
\* the process.
Answer(r) ==
    /\ Running /\ open[r] # None
    /\ open' = [open EXCEPT ![r] = None]
    /\ UNCHANGED <<config, assembled, server, cancelled, run, signalled, crashes>>

-----------------------------------------------------------------------------
(* run_server *)

Signal ==
    /\ Running /\ ~signalled /\ signalled' = TRUE
    /\ UNCHANGED <<config, assembled, server, open, cancelled, run, crashes>>

\* wait_for_shutdown wins the select.
ShutDown ==
    /\ run = "select" /\ signalled
    /\ cancelled' = TRUE /\ run' = "cleanup"
    /\ UNCHANGED <<config, assembled, server, open, signalled, crashes>>

\* Mutant: the failure is logged, the other servers go on.
FailFast_LogsOnly(s) ==
    /\ run = "select" /\ server[s] = "failed"
    /\ run' = "cleanup"
    /\ server' = [server EXCEPT ![s] = "joined"]
    /\ UNCHANGED <<config, assembled, open, cancelled, signalled, crashes>>

\* join_next wins with an error: cancel, abort, and return it.  (It cannot win with Ok: a
\* server returns Ok only after the cancellation.)
FailFast(s) ==
    /\ run = "select" /\ server[s] = "failed"
    /\ cancelled' = TRUE /\ run' = "returned_err"
    /\ server' = [t \in Servers |-> IF t = s THEN "joined"
                                    ELSE IF server[t] \in {"starting", "serving"} THEN "aborted"
                                    ELSE server[t]]
    /\ UNCHANGED <<config, assembled, open, signalled, crashes>>

\* One round of the cleanup loop; errors are only logged.
JoinNext(s) ==
    /\ run = "cleanup" /\ server[s] \in Ended
    /\ server' = [server EXCEPT ![s] = "joined"]
    /\ UNCHANGED <<config, assembled, open, cancelled, run, signalled, crashes>>

Return ==
    /\ run = "cleanup" /\ \A s \in Servers : server[s] = "joined"
    /\ run' = "returned_ok"
    /\ UNCHANGED <<config, assembled, server, open, cancelled, signalled, crashes>>

-----------------------------------------------------------------------------

Next ==
    \/ \E s \in Servers :
          Bind(s) \/ Crash(s) \/ StopListening(s) \/ Drain(s) \/ FailFast(s) \/ JoinNext(s)
    \/ \E r \in Requests : Accept(r) \/ Answer(r)
    \/ Load \/ Assemble \/ AssemblyFails \/ Spawn
    \/ Signal \/ ShutDown \/ Return

\* Every task is scheduled, every handler answers.
Fairness ==
    /\ \A s \in Servers : WF_vars(Bind(s)) /\ WF_vars(StopListening(s)) /\ WF_vars(Drain(s))
                          /\ WF_vars(FailFast(s)) /\ WF_vars(JoinNext(s))
    /\ \A r \in Requests : WF_vars(Answer(r))
    /\ WF_vars(Load) /\ WF_vars(Assemble) /\ WF_vars(Spawn)
    /\ WF_vars(ShutDown) /\ WF_vars(Return)

Spec == Init /\ [][Next]_vars /\ Fairness

-----------------------------------------------------------------------------
(* Properties *)

\* What validate accepts is enough to start: unless something outside fails or a signal
\* comes first, all four APIs end up serving.  The exception is a server secret of 16 to 31
\* bytes, which validate accepts and the token manager does not.
ValidConfigStarts ==
    run = "assemble" ~>
        \/ \A s \in Servers : server[s] = "serving"
        \/ crashes > 0 \/ signalled
        \/ config.server_secret.bytes \in MinServerSecret..(MinSecretLength - 1)

\* An orderly shutdown answers every request it has accepted, and happens only on a
\* signal: run_server returns Ok with no server and no request left behind.
ShutdownIsGraceful ==
    run = "returned_ok" =>
        /\ signalled
        /\ \A s \in Servers : server[s] = "joined"
        /\ crashes = 0 => \A r \in Requests : open[r] = None

\* The process ends after a signal, and after the failure of any one server: no API goes
\* on serving while another one is dead.
ServerStops ==
    (signalled \/ \E s \in Servers : server[s] = "failed") ~> ~Running

=============================================================================
