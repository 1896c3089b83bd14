------------------------------ MODULE Session ------------------------------
(***************************************************************************)
(* The session of one device (engine.rs, crypto.rs): server URL, token,    *)
(* user name and message key are four separate locks that login, the key   *)
(* commands and logout fill one after the other, with a network call or a  *)
(* slow key derivation between the reads and the writes; every request to  *)
(* the server reads URL and token one after the other, many of them on     *)
(* threads that outlive the call that started them, so that any number of  *)
(* calls is under way at once.  The server, which checks passwords and     *)
(* issues tokens, is external.                                             *)
(***************************************************************************)
EXTENDS Naturals

CONSTANTS Servers, Users, Phrases, Unset,
          AppCalls      \* bound: the calls of the application and of its threads

ASSUME SessionAssumption == Unset \notin Servers \cup Users \cup Phrases

VARIABLES server_url, token, username, key,
          session,   \* history: logged in, with no logout since
          orderly,   \* history: logins were made when logged out, keys set when logged in
          inturn,    \* history: logins, key commands and logouts came one at a time
          crossed,   \* history: calls that read or set URL and token while a login set them
          saved,     \* what kv_set has stored: server_url and username
          step, call   \* call -> where it is, and what it was given or has read

state == <<server_url, token, username, key, session, saved>>
history == <<orderly, inturn, crossed>>
sessionVars == <<state, history, step, call>>

NoCall == [kind |-> Unset, server |-> Unset, user |-> Unset, phrase |-> Unset, token |-> Unset]
Token(s, u) == [server |-> s, user |-> u]       \* issued by s, for u
derive_key(p, u) == [phrase |-> p, user |-> u]  \* the salt holds the user name

GoTo(c, l) == step' = [step EXCEPT ![c] = l]

\* No login, key command or logout is under way.
AtRest == \A c \in AppCalls : step[c] \in {"idle", "read_token", "health", "probe", "send", "done"}

\* The locks of URL and token are taken one after the other: by a login ...
Assigning(c) == step[c] = "token"

\* ... and by a request; firewall_check asks for the server's health between.
Reading(c) == step[c] = "read_token" \/ (step[c] = "health" /\ call[c].kind = "check")

\* A call starts with the arguments a, at step l.
BeginCall(c, a, l) ==
    /\ step[c] = "idle"
    /\ call' = [call EXCEPT ![c] = a]
    /\ GoTo(c, l)
    /\ UNCHANGED state

\* Has the application logged in only when logged out, and set keys only when
\* logged in, and waited for the call before?  The library does not ask.
LoginInPlace == orderly' = (orderly /\ ~session) /\ inturn' = (inturn /\ AtRest)
KeyInPlace == orderly' = (orderly /\ session) /\ inturn' = (inturn /\ AtRest)

\* A request reads the URL: is a login between its two assignments?
BeginRequest(c, kind, l) ==
    /\ BeginCall(c, [NoCall EXCEPT !.kind = kind, !.server = server_url],
                 IF server_url = Unset THEN "done" ELSE l)
    /\ crossed' = IF \E b \in AppCalls : Assigning(b) THEN crossed \cup {c} ELSE crossed
    /\ UNCHANGED <<orderly, inturn>>

\* A login sets the URL: whose reading or assigning does that disturb?
Cross(c) ==
    crossed' = crossed \cup {b \in AppCalls : Assigning(b) \/ Reading(b)}
                       \cup {b \in {c} : \E d \in AppCalls : Assigning(d)}

-----------------------------------------------------------------------------
\* auth_login and auth_register.
DoAuth(c, s, u) ==
    /\ LoginInPlace /\ UNCHANGED crossed
    /\ BeginCall(c, [NoCall EXCEPT !.kind = "login", !.server = s, !.user = u], "auth")

\* auth_call: the server issues a token, or refuses or fails.
AuthCall(c) ==
    /\ step[c] = "auth"
    /\ \/ /\ call' = [call EXCEPT ![c].token = Token(call[c].server, call[c].user)]
          /\ GoTo(c, "url")
       \/ GoTo(c, "done") /\ UNCHANGED call
    /\ UNCHANGED state

\* Mutant: a server URL that is set is kept.
SetUrlOnce(c) ==
    /\ step[c] = "url" /\ GoTo(c, "token") /\ Cross(c)
    /\ server_url' = IF server_url = Unset THEN call[c].server ELSE server_url
    /\ UNCHANGED <<token, username, key, session, saved, call>>

SetUrl(c) ==
    /\ step[c] = "url" /\ GoTo(c, "token") /\ Cross(c)
    /\ server_url' = call[c].server
    /\ UNCHANGED <<token, username, key, session, saved, call>>

SetToken(c) ==
    /\ step[c] = "token" /\ GoTo(c, "username")
    /\ token' = call[c].token
    /\ UNCHANGED <<server_url, username, key, session, saved, call>>

\* The user name, after a login or in dev_login.
SetUsername(c) ==
    /\ step[c] \in {"username", "dev_username"}
    /\ username' = call[c].user /\ session' = TRUE
    /\ GoTo(c, IF step[c] = "username" THEN "save_url" ELSE "key")
    /\ UNCHANGED <<server_url, token, key, saved, call>>

SaveUrl(c) ==
    /\ step[c] = "save_url" /\ GoTo(c, "save_user")
    /\ saved' = [saved EXCEPT !.server = call[c].server]
    /\ UNCHANGED <<server_url, token, username, key, session, call>>

SaveUser(c) ==
    /\ step[c] = "save_user" /\ GoTo(c, "done")
    /\ saved' = [saved EXCEPT !.user = call[c].user]
    /\ UNCHANGED <<server_url, token, username, key, session, call>>

\* dev_login: a local user name, and the key derived from it.
DevLogin(c, u, p) ==
    /\ LoginInPlace /\ UNCHANGED crossed
    /\ BeginCall(c, [NoCall EXCEPT !.user = u, !.phrase = p], "dev_username")

\* Mutant: a key can be set before anyone has logged in.
SetEncryptionKeyFirst(c, p) ==
    /\ KeyInPlace /\ UNCHANGED crossed
    /\ BeginCall(c, [NoCall EXCEPT !.user = username, !.phrase = p], "key")

\* set_encryption_key and update_encryption_key read the user name first; the
\* latter reads the server URL, too, and asks for the password.
SetEncryptionKey(c, p) ==
    /\ KeyInPlace /\ UNCHANGED crossed
    /\ BeginCall(c, [NoCall EXCEPT !.user = username, !.phrase = p],
                 IF username = Unset THEN "done" ELSE "key")

UpdateEncryptionKey(c, p) ==
    /\ KeyInPlace /\ UNCHANGED crossed
    /\ BeginCall(c, [NoCall EXCEPT !.user = username, !.phrase = p, !.server = server_url],
                 IF username = Unset \/ server_url = Unset THEN "done" ELSE "verify")

VerifyPassword(c) ==
    /\ step[c] = "verify"
    /\ GoTo(c, "key") \/ GoTo(c, "done")
    /\ UNCHANGED <<state, call>>

\* The key is stored when its derivation is through.
SetKey(c) ==
    /\ step[c] = "key" /\ GoTo(c, "done")
    /\ key' = derive_key(call[c].phrase, call[c].user)
    /\ UNCHANGED <<server_url, token, username, session, saved, call>>

Logout(c) ==
    /\ BeginCall(c, NoCall, "drop_token")
    /\ inturn' = (inturn /\ AtRest) /\ UNCHANGED <<orderly, crossed>>

DropToken(c) ==
    /\ step[c] = "drop_token" /\ GoTo(c, "drop_key")
    /\ token' = Unset
    /\ UNCHANGED <<server_url, username, key, session, saved, call>>

\* Mutant: the key outlives the session.
DropKeyNot(c) ==
    /\ step[c] = "drop_key" /\ GoTo(c, "done")
    /\ session' = FALSE
    /\ UNCHANGED <<server_url, token, username, key, saved, call>>

DropKey(c) ==
    /\ step[c] = "drop_key" /\ GoTo(c, "done")
    /\ key' = Unset /\ session' = FALSE
    /\ UNCHANGED <<server_url, token, username, saved, call>>

\* A request to the server reads the URL, then the token, and then sends one
\* to the other: refresh, state update, self-test, and the signals that
\* connect, its ladder and on_signal send from threads of their own.
Request(c) == BeginRequest(c, Unset, "read_token")

\* firewall_check asks for the server's health before it reads the token,
\* report_firewall after, on a thread of its own; then both ask the server to
\* dial in and send it the result.
FirewallCheck(c) == BeginRequest(c, "check", "health")

ReportFirewall(c) == BeginRequest(c, "report", "read_token")

ReadToken(c) ==
    /\ step[c] = "read_token"
    /\ call' = [call EXCEPT ![c].token = token]
    /\ GoTo(c, IF token = Unset THEN "done"
               ELSE CASE call[c].kind = "check"  -> "probe"
                      [] call[c].kind = "report" -> "health"
                      [] OTHER                   -> "send")
    /\ UNCHANGED state

HealthOk(c) ==
    /\ step[c] = "health"
    /\ GoTo(c, "done") \/ GoTo(c, IF call[c].kind = "check" THEN "read_token" ELSE "probe")
    /\ UNCHANGED <<state, call>>

ProbeInbound(c) ==
    /\ step[c] = "probe"
    /\ GoTo(c, "done") \/ GoTo(c, "send")
    /\ UNCHANGED <<state, call>>

Send(c) ==
    /\ step[c] = "send" /\ GoTo(c, "done")
    /\ UNCHANGED <<state, call>>

-----------------------------------------------------------------------------
SessionInit ==
    /\ server_url = Unset /\ token = Unset /\ username = Unset /\ key = Unset /\ session = FALSE
    /\ orderly = TRUE /\ inturn = TRUE /\ crossed = {} /\ saved = [server |-> Unset, user |-> Unset]
    /\ step = [c \in AppCalls |-> "idle"] /\ call = [c \in AppCalls |-> NoCall]

\* The steps that do not set the URL.
PlainStep(c) ==
    \/ AuthCall(c) \/ SetToken(c) \/ SetUsername(c) \/ SaveUrl(c) \/ SaveUser(c)
    \/ VerifyPassword(c) \/ SetKey(c) \/ DropToken(c) \/ DropKey(c) \/ ReadToken(c) \/ Send(c)
    \/ HealthOk(c) \/ ProbeInbound(c)

Step(c) == /\ UNCHANGED <<orderly, inturn>>
           /\ SetUrl(c) \/ (PlainStep(c) /\ UNCHANGED crossed)

StartCall(c) ==
    \/ \E s \in Servers, u \in Users : DoAuth(c, s, u)
    \/ \E u \in Users, p \in Phrases : DevLogin(c, u, p)
    \/ \E p \in Phrases : SetEncryptionKey(c, p) \/ UpdateEncryptionKey(c, p)
    \/ Logout(c) \/ Request(c) \/ FirewallCheck(c) \/ ReportFirewall(c)

SessionNext == \E c \in AppCalls : StartCall(c) \/ Step(c)

SessionSpec == SessionInit /\ [][SessionNext]_sessionVars

-----------------------------------------------------------------------------
\* Properties.

Keys == {derive_key(p, u) : p \in Phrases, u \in Users}
Tokens == {Token(s, u) : s \in Servers, u \in Users}
\* Types; in particular every key is derived from some user's name.
SessionTypeOK ==
    /\ server_url \in Servers \cup {Unset} /\ username \in Users \cup {Unset}
    /\ token \in Tokens \cup {Unset} /\ key \in Keys \cup {Unset}
    /\ session \in BOOLEAN /\ orderly \in BOOLEAN /\ inturn \in BOOLEAN
    /\ crossed \subseteq AppCalls
    /\ saved \in [server : Servers \cup {Unset}, user : Users \cup {Unset}]

KeyIsUsers == AtRest /\ key # Unset => key.user = username

\* "the same passphrase yields the same key on all of the user's devices": the
\* key in use is derived with the name of the user who is logged in, if the
\* application offers a login and a key only in their places, one at a time.
KeyOfUser == orderly /\ inturn => KeyIsUsers

\* The same with calls that overlap, and with a login on top of another.
KeyOfUserRaced == orderly => KeyIsUsers
KeyOfUserRelogin == inturn => KeyIsUsers

TokenMatches(c) ==
    step[c] \in {"health", "probe", "send"} /\ call[c].token # Unset =>
        call[c].token.server = call[c].server

\* No request hands a server the token that another has issued, on whatever
\* thread and however much later it sends it, but for the requests that read
\* URL and token while a login was between setting the one and the other, as
\* long as no two logins did that at once.
TokenToIssuer ==
    (\A c \in crossed : call[c].kind # "login") => \A c \in AppCalls \ crossed : TokenMatches(c)

\* The same of every request.
TokenToIssuerAlways == inturn => \A c \in AppCalls : TokenMatches(c)
=============================================================================
