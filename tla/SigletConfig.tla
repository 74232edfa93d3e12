---------------------------- MODULE SigletConfig ----------------------------
(***************************************************************************)
(* SigletConfig (siglet/src/config/mod.rs): the settings that decide whether    *)
(* the process starts and how its APIs authenticate, and the rules of            *)
(* SigletConfig::validate for them.  The rules for transfer types are in           *)
(* FlowHandler.                                                               *)
(***************************************************************************)
EXTENDS Naturals

CONSTANT None      \* Option::None

\* An empty or blank string.
Blank == "blank"

Servers == {"signaling", "siglet", "refresh", "management"}

\* MIN_SERVER_SECRET_BYTES
MinServerSecret == 16

\* How a server secret decodes: no secret is configured, its length in bytes, or not at all.
NoSecret == [hex |-> TRUE, bytes |-> None]
Secret(bytes) == [hex |-> TRUE, bytes |-> bytes]
NotHex == [hex |-> FALSE, bytes |-> 0]

-----------------------------------------------------------------------------

\* VaultConfig::resolved_auth: without the auth table the deprecated fields count.
resolved_auth(vault) ==
    IF vault.auth # None THEN vault.auth
    ELSE [type |-> "kubernetes_service_account",
          token |-> vault.token, token_file |-> vault.token_file]

\* "no_url" stands for text that is not a URL.
ValidVault(vault) ==
    /\ vault.url \notin {None, "no_url"}
    /\ LET auth == resolved_auth(vault)
       IN  auth.type = "kubernetes_service_account" =>
               auth.token # None \/ auth.token_file # None
    /\ vault.signing_key_name # Blank
    /\ vault.mount_path # Blank /\ vault.token_subpath # Blank

ValidSecret(secret) ==
    secret.bytes # None => secret.hex /\ secret.bytes >= MinServerSecret

\* Mutant: the management API was added without its comparison with the refresh API.
ValidPorts_OnePairMissing(ports) ==
    /\ \A s, t \in Servers :
           s # t /\ {s, t} # {"refresh", "management"} => ports[s] # ports[t]
    /\ \A s \in Servers : ports[s] # 0

ValidPorts(ports) ==
    /\ \A s, t \in Servers : s # t => ports[s] # ports[t]
    /\ \A s \in Servers : ports[s] # 0

\* signaling_auth, token_api_auth and management_api_auth.  Where a kind of configuration
\* has no such field, required_scope and admin_scope are None.
ValidAuth(auth) ==
    auth.mode = "enabled" =>
        /\ auth.jwks_url \notin {Blank, "no_url"}
        /\ auth.cache_ttl_seconds # 0
        /\ auth.audience # Blank
        /\ auth.required_scope # Blank
        /\ auth.admin_scope # None => auth.admin_scope \notin {Blank, auth.required_scope}

validate(config) ==
    /\ ValidVault(config.vault) /\ ValidSecret(config.server_secret)
    /\ ValidPorts(config.ports)
    /\ config.http_client.connect_timeout_seconds # 0
    /\ config.http_client.request_timeout_seconds # 0
    /\ \A api \in DOMAIN config.auth : ValidAuth(config.auth[api])

=============================================================================
