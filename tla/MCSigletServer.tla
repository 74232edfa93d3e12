--------------------------- MODULE MCSigletServer ---------------------------
EXTENDS SigletServer

Auth == [mode |-> "enabled", jwks_url |-> "url", cache_ttl_seconds |-> 1,
         audience |-> "siglet", required_scope |-> "scope", admin_scope |-> None]

\* A configuration that starts.
Good ==
    [storage |-> "memory",
     ports |-> [siglet |-> 1, signaling |-> 2, refresh |-> 3, management |-> 4],
     vault |-> [url |-> "url", auth |-> None, token |-> None, token_file |-> "file",
                signing_key_name |-> "key", mount_path |-> None, token_subpath |-> None],
     server_secret |-> Secret(32),
     http_client |-> [connect_timeout_seconds |-> 10, request_timeout_seconds |-> 30],
     auth |-> [api \in {"signaling", "token", "management"} |-> Auth]]

\* It, and what a change of one setting makes of it.
MCConfigs ==
    {[Good EXCEPT !.ports[s] = p] : s \in Servers, p \in 0..4}
    \cup {[Good EXCEPT !.server_secret = secret] :
             secret \in {NoSecret, NotHex, Secret(0), Secret(15), Secret(16), Secret(31)}}
    \cup {[Good EXCEPT !.vault.url = None], [Good EXCEPT !.vault.token_file = None],
          [Good EXCEPT !.storage = "postgres-vault"],
          [Good EXCEPT !.vault.auth = [type |-> "token_exchange"],
                       !.vault.token_file = None]}
=============================================================================
