------------------------------ MODULE Startup ------------------------------
(***************************************************************************)
(* How the three programs start: their main functions, config.Load with    *)
(* ValidateRemoteMCPSecurity (internal/config/config.go), NewService with  *)
(* newConfiguredTokenStore (internal/feishu/service.go) and                *)
(* NewFeishuToolsFromConfig (internal/mcp/feishu_tools_config.go), which   *)
(* loads the SkillRegistry.  A first tool call, as far as the choice of    *)
(* its token, shows what the start has left behind.                        *)
(*                                                                         *)
(* Of the configuration only what decides the start is kept.  The path of  *)
(* the token store always has a value: its default replaces a blank one.   *)
(* The key of the store is kept as the number of its bytes without the     *)
(* blanks around it, and that of the blanks.                               *)
(***************************************************************************)
EXTENDS SkillRegistry

CONSTANT Keys       \* values of FEISHU_TOKEN_ENCRYPT_KEY

ASSUME KeyAssumption == Keys \subseteq [text : Nat, blanks : Nat]

VARIABLES
    program,    \* "http", "stdio" or "cli"
    envKey,     \* the key in the environment
    cfgKey,     \* and in the configuration
    stage,      \* "env", "config", "service", "skills", "serving" or "failed"
    store,      \* the refresher's store: "none", "plaintext" or "encrypted"
    skills,     \* whether the tools have a registry
    call        \* the credential a call names, and the token it is made with

startVars == <<program, envKey, cfgKey, stage, store, skills, call>>
vars == <<registryVars, startVars>>

Credentials == {"none", "named"}
NoKey == [text |-> 0, blanks |-> 0]
NoCall == [credential |-> "none", token |-> "none"]

Init ==
    /\ InitRegistry
    /\ program \in {"http", "stdio", "cli"}
    /\ envKey \in Keys
    /\ cfgKey = NoKey
    /\ stage = "env"
    /\ store = "none"
    /\ skills = FALSE
    /\ call = NoCall

Bytes(key) == key.text + key.blanks

Trimmed(key) == [key EXCEPT !.blanks = 0]

KeyLengths == {16, 24, 32}

\* Mutant: the key is taken as it is, like that of the MCP server.
LoadConfigAsItIs ==
    /\ stage = "env"
    /\ cfgKey' = envKey
    /\ stage' = "config"
    /\ UNCHANGED <<registryVars, program, envKey, store, skills, call>>

\* config.Load, whose getenv trims; a blank key is replaced by an empty one.
LoadConfig ==
    /\ stage = "env"
    /\ cfgKey' = Trimmed(envKey)
    /\ stage' = "config"
    /\ UNCHANGED <<registryVars, program, envKey, store, skills, call>>

\* Mutant: no key is no reason to refuse.
SecureWithoutKey == Bytes(Trimmed(cfgKey)) \in KeyLengths \cup {0}

\* ValidateRemoteMCPSecurity, which trims the key once more
Secure == Bytes(Trimmed(cfgKey)) \in KeyLengths

\* Only the remote server looks at its configuration before it uses it.
Validate ==
    /\ stage = "config"
    /\ stage' = IF program = "http" /\ ~Secure THEN "failed" ELSE "service"
    /\ UNCHANGED <<registryVars, program, envKey, cfgKey, store, skills, call>>

\* newConfiguredTokenStore, which does not trim
StoreFor(key) ==
    CASE Bytes(key) = 0 -> "plaintext"
      [] Bytes(key) \in KeyLengths -> "encrypted"
      [] OTHER -> "none"

\* NewService: with a key that cannot be one there is no store and no
\* refresher, and the program goes on.
NewService ==
    /\ stage = "service"
    /\ store' = StoreFor(cfgKey)
    /\ stage' = IF program = "cli" THEN "serving" ELSE "skills"
    /\ UNCHANGED <<registryVars, program, envKey, cfgKey, skills, call>>

\* NewFeishuToolsFromConfig: without directories there is no registry.
WithoutSkills ==
    /\ stage = "skills"
    /\ dirs = <<>>
    /\ stage' = "serving"
    /\ UNCHANGED <<registryVars, program, envKey, cfgKey, store, skills, call>>

WithSkills ==
    /\ stage = "skills"
    /\ dirs # <<>>
    /\ LoadRegistry
    /\ UNCHANGED startVars

Load ==
    /\ stage = "skills"
    /\ RegistryStep
    /\ UNCHANGED startVars

\* A registry that cannot be loaded ends the program.
RegistryReady ==
    /\ stage = "skills"
    /\ loading \in {"loaded", "failed"}
    /\ stage' = IF loading = "loaded" THEN "serving" ELSE "failed"
    /\ skills' = (loading = "loaded")
    /\ UNCHANGED <<registryVars, program, envKey, cfgKey, store, call>>

\* Mutant: without a refresher there is still the tenant.
TokenForOrTenant(credential) ==
    CASE credential = "none" \/ store = "none" -> "tenant"
      [] OTHER -> "user"

\* UserFirstTokenSource.Token
TokenFor(credential) ==
    CASE credential = "none" -> "tenant"
      [] credential # "none" /\ store # "none" -> "user"
      [] OTHER -> "none"

\* validateCredentialID refuses a credential where the main does not allow
\* them, and the command line has none to give.
Call(credential) ==
    /\ stage = "serving"
    /\ call = NoCall
    /\ program = "cli" => credential = "none"
    /\ call' = [credential |-> credential,
                token |-> IF credential # "none" /\ program = "http"
                          THEN "none" ELSE TokenFor(credential)]
    /\ UNCHANGED <<registryVars, program, envKey, cfgKey, stage, store, skills>>

Next ==
    \/ LoadConfig \/ Validate \/ NewService \/ WithoutSkills \/ WithSkills
    \/ Load \/ RegistryReady
    \/ \E credential \in Credentials : Call(credential)

Spec == Init /\ [][Next]_vars

-----------------------------------------------------------------------------
TypeOK ==
    /\ RegistryTypeOK
    /\ program \in {"http", "stdio", "cli"}
    /\ envKey \in Keys /\ cfgKey \in [text : Nat, blanks : {0}]
    /\ stage \in {"env", "config", "service", "skills", "serving", "failed"}
    /\ store \in {"none", "plaintext", "encrypted"}
    /\ skills \in BOOLEAN
    /\ call \in [credential : Credentials,
                 token : {"none", "tenant", "user"}]

\* The remote server serves only with a store that encrypts and, when skills
\* are configured, with all of them; whatever is wrong with either ends it
\* before it listens (main.go, lines 22-31).
RemoteStartsWhole ==
    program = "http" /\ stage = "serving" =>
        /\ store = "encrypted"
        /\ dirs # <<>> => skills /\ Loadable

\* What became of the key on the way from the environment through two checks
\* that treat blanks differently to the store shows in the calls that name a
\* credential, and in no other way: they are made with the user's token where
\* agents may name one and the key is empty or fit for AES without its blanks,
\* and are not made at all otherwise.  A key that was given is never passed
\* over for a store in plaintext, and one that was dropped never makes the call
\* the tenant's (config.go, lines 100 and 106-118; service.go, lines 30-37 and
\* 49-57; token_source.go, lines 33-50).
UserCallsFollowTheKey ==
    call.credential = "named" =>
        /\ call.token = IF /\ program = "stdio"
                           /\ envKey.text \in KeyLengths \cup {0}
                        THEN "user" ELSE "none"
        /\ store = "plaintext" => envKey.text = 0
=============================================================================
