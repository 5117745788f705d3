----------------------------- MODULE Credentials -----------------------------
(***************************************************************************)
(* The commands that obtain, replace and give up the stored credentials:   *)
(* `finstore setup`, and `finstore snaptrade setup`, `status` and `delete`,*)
(* with the services they call.                                            *)
(*                                                                         *)
(* One command runs at a time.  Its steps are the requests it sends, each  *)
(* of which may be answered, be refused or not reach the service, or take  *)
(* effect there without the answer coming back; and the os.replace or the  *)
(* unlink of a blob.  A crash (or Ctrl-C) may fall between any two steps,  *)
(* and a full reset, which takes the stored credentials with it, too: the  *)
(* dashboard is another process.                                           *)
(*                                                                         *)
(* Abstractions.  A setup token is the grant of one access URL; a SnapTrade*)
(* blob is the user whose secret it holds, or the marker of a personal     *)
(* account.  The temporary file of an atomic write is never read.          *)
(***************************************************************************)
CONSTANTS
    Tokens,      \* SimpleFIN setup tokens
    Urls,        \* access URLs a user may have at hand, from wherever
    Grant,       \* the access URL that a token is exchanged for
    Users,       \* the uuid4 names that registrations draw from
    Personal,    \* the blob {"type": "personal"}
    None         \* no blob; nothing held

ASSUME CredentialsAssumption ==
    /\ Grant \in [Tokens -> Urls]
    /\ Personal # None
    /\ {Personal, None} \cap (Users \cup Urls \cup Tokens) = {}

VARIABLES
    keys,      \* the kind of SNAPTRADE_CLIENT_ID and SNAPTRADE_CONSUMER_KEY set
    spent,     \* tokens SimpleFIN has exchanged
    account,   \* what SnapTrade knows of each user
    simplefin, \* tenants/local/credentials/simplefin.bin
    snaptrade, \* tenants/local/credentials/snaptrade.bin
    pc,        \* next step of the running command
    held,      \* the token, URL, user or marker that it works on
    \* History variables.
    last,      \* the latest command, how it ended, whether a reset fell in it, and
               \* the access URL that SimpleFIN has vouched for in it
    before,    \* the two blobs when it began
    lost       \* users no blob names any more, or ever did, and why that is excused

services == <<spent, account>>
blobs == <<simplefin, snaptrade>>
vars == <<keys, services, blobs, pc, held, last, before, lost>>

Commands == {"none", "setup", "snaptrade setup", "status", "delete"}
\* Exit status 0 is "ok", "aborted", "unconfigured"; 2 is "usage"; 1 the others.
Endings == {"running", "ok", "aborted", "unconfigured", "usage", "refused",
            "unreachable", "crashed"}
Steps == {"claim", "probe", "store url", "register", "store secret",
          "store marker", "verify", "login", "confirm", "deregister", "unlink",
          "report"}

TypeOK ==
    /\ keys \in {"none", "partner", "personal"}
    /\ spent \subseteq Tokens
    /\ account \in [Users -> {"new", "registered", "deleted"}]
    /\ simplefin \in Urls \cup {None}
    /\ snaptrade \in Users \cup {Personal, None}
    /\ pc \in Steps \cup {"idle"}
    /\ held \in Tokens \cup Urls \cup Users \cup {Personal, None}
    /\ last \in [cmd : Commands, ended : Endings, wiped : BOOLEAN,
                 url : Urls \cup {None}]
    /\ before \in [simplefin : Urls \cup {None},
                   snaptrade : Users \cup {Personal, None}]
    /\ lost \subseteq Users

NoCommand == [cmd |-> "none", ended |-> "ok", wiped |-> FALSE, url |-> None]

Init ==
    /\ keys \in {"none", "partner", "personal"}
    /\ spent = {}
    /\ account = [u \in Users |-> "new"]
    /\ simplefin = None
    /\ snaptrade = None
    /\ pc = "idle"
    /\ held = None
    /\ last = NoCommand
    /\ before = [simplefin |-> None, snaptrade |-> None]
    /\ lost = {}

Start(cmd, step, thing) ==
    /\ pc = "idle"
    /\ pc' = step
    /\ held' = thing
    /\ last' = [cmd |-> cmd, ended |-> "running", wiped |-> FALSE, url |-> None]
    /\ before' = [simplefin |-> simplefin, snaptrade |-> snaptrade]

\* A command that ends before it changes or asks anything.
StartAndEnd(cmd, how) ==
    /\ pc = "idle"
    /\ last' = [cmd |-> cmd, ended |-> how, wiped |-> FALSE, url |-> None]
    /\ before' = [simplefin |-> simplefin, snaptrade |-> snaptrade]
    /\ UNCHANGED <<keys, services, blobs, pc, held, lost>>

GoOn(step) ==
    /\ pc' = step
    /\ UNCHANGED <<held, last, before>>

End(how) ==
    /\ pc' = "idle"
    /\ held' = None
    /\ last' = [last EXCEPT !.ended = how]
    /\ UNCHANGED before

\* A request that fails without an effect: it did not arrive, or was refused.
RequestFails(step) ==
    /\ pc = step
    /\ \E how \in {"unreachable", "refused"} : End(how)
    /\ UNCHANGED <<keys, services, blobs, lost>>

-----------------------------------------------------------------------------
(***************************************************************************)
(* `finstore setup`: activate(secret) resolves the secret to an access URL *)
(* and stores it.  A token is claimed, once and for all; a URL is probed.  *)
(***************************************************************************)

\* No token, a token beside --demo, or one that is not base64 of an https URL.
SetupRefusesSecret ==
    \E how \in {"usage", "refused"} : StartAndEnd("setup", how)

SetupWithToken(t) ==
    /\ Start("setup", "claim", t)
    /\ UNCHANGED <<keys, services, blobs, lost>>

\* --demo: the developer page shows a new token on every load.
SetupWithDemoToken ==
    \/ \E t \in Tokens \ spent : SetupWithToken(t)
    \/ StartAndEnd("setup", "unreachable")

\* Mutant: a URL is stored before it is probed.
SetupStoresUrlFirst(url) ==
    /\ Start("setup", "probe", url)
    /\ simplefin' = url
    /\ UNCHANGED <<keys, services, snaptrade, lost>>

SetupWithUrl(url) ==
    /\ Start("setup", "probe", url)
    /\ UNCHANGED <<keys, services, blobs, lost>>

Exchange ==
    /\ pc = "claim"
    /\ held \notin spent
    /\ spent' = spent \cup {held}
    /\ UNCHANGED <<keys, account, blobs, lost>>

\* Mutant: what is stored is the token.
ClaimKeepsToken ==
    /\ Exchange
    /\ GoOn("store url")

ClaimAnswered ==
    /\ Exchange
    /\ held' = Grant[held]
    /\ last' = [last EXCEPT !.url = Grant[held]]
    /\ pc' = "store url"
    /\ UNCHANGED before

\* The token is spent, and the answer is lost or is no https URL.
ClaimLost ==
    /\ Exchange
    /\ \E how \in {"unreachable", "refused"} : End(how)

ClaimFails == RequestFails("claim")

\* Any https URL whose /accounts answers with a 2xx: the body is not read.
ProbeAnswered ==
    /\ pc = "probe"
    /\ last' = [last EXCEPT !.url = held]
    /\ pc' = "store url"
    /\ UNCHANGED <<keys, services, blobs, held, before, lost>>

ProbeFails == RequestFails("probe")

StoreUrl ==
    /\ pc = "store url"
    /\ simplefin' = held
    /\ GoOn("report")
    /\ UNCHANGED <<keys, services, snaptrade, lost>>

\* The last file operation of setup, or of `snaptrade delete`, is done.
Report ==
    /\ pc = "report"
    /\ End("ok")
    /\ UNCHANGED <<keys, services, blobs, lost>>

-----------------------------------------------------------------------------
(***************************************************************************)
(* `finstore snaptrade setup`.                                             *)
(***************************************************************************)

\* _load_user_credentials: the user of the blob, None for the personal marker.
LoadUserCredentials == IF snaptrade \in Users THEN snaptrade ELSE None

\* _is_configured: a blob of either kind.
IsConfigured == snaptrade # None

\* _load_partner_credentials exits before anything else when no key is set.
NoKeys(cmd) ==
    /\ keys = "none"
    /\ StartAndEnd(cmd, "usage")

\* Mutant: any blob counts as the personal marker.
AnyBlobIsDone == snaptrade # None

AlreadyPersonal == snaptrade = Personal

SetupPersonal ==
    /\ keys = "personal"
    /\ Start("snaptrade setup", IF AlreadyPersonal THEN "verify" ELSE "store marker",
             Personal)
    /\ UNCHANGED <<keys, services, blobs, lost>>

Forgotten == {LoadUserCredentials} \ {None}

\* Whatever blob there is is overwritten, that of a registered user included.
StoreMarker ==
    /\ pc = "store marker"
    /\ snaptrade' = Personal
    /\ lost' = lost \cup Forgotten
    /\ GoOn("verify")
    /\ UNCHANGED <<keys, services, simplefin>>

VerifyAnswered ==
    /\ pc = "verify"
    /\ End("ok")
    /\ UNCHANGED <<keys, services, blobs, lost>>

VerifyFails == RequestFails("verify")

SetupPartner ==
    /\ keys = "partner"
    /\ IF LoadUserCredentials # None
       THEN Start("snaptrade setup", "login", LoadUserCredentials)
       ELSE \E u \in {x \in Users : account[x] = "new"} :
              Start("snaptrade setup", "register", u)
    /\ UNCHANGED <<keys, services, blobs, lost>>

Register ==
    /\ pc = "register"
    /\ account' = [account EXCEPT ![held] = "registered"]
    /\ UNCHANGED <<keys, spent, blobs>>

\* Mutant: the link is asked for before the secret is stored.
RegisterThenLogin ==
    /\ Register
    /\ GoOn("login")
    /\ UNCHANGED lost

RegisterAnswered ==
    /\ Register
    /\ GoOn("store secret")
    /\ UNCHANGED lost

\* The answer is lost or carries no secret: nobody can ever name this user.
RegisterLost ==
    /\ Register
    /\ lost' = lost \cup {held}
    /\ \E how \in {"unreachable", "refused"} : End(how)

RegisterFails == RequestFails("register")

StoreSecret ==
    /\ pc = "store secret"
    /\ snaptrade' = held
    /\ GoOn("login")
    /\ UNCHANGED <<keys, services, simplefin, lost>>

LoginAnswered ==
    /\ pc = "login"
    /\ account[held] = "registered"
    /\ End("ok")
    /\ UNCHANGED <<keys, services, blobs, lost>>

LoginFails == RequestFails("login")

-----------------------------------------------------------------------------
(***************************************************************************)
(* `finstore snaptrade status` changes nothing: one step.                  *)
(***************************************************************************)
Status ==
    IF keys = "none"
    THEN StartAndEnd("status", "usage")
    ELSE IF ~IsConfigured \/ (keys = "partner" /\ LoadUserCredentials = None)
    THEN StartAndEnd("status", "unconfigured")
    ELSE \/ \E how \in {"unreachable", "refused"} : StartAndEnd("status", how)
         \/ /\ keys = "partner" => account[LoadUserCredentials] = "registered"
            /\ StartAndEnd("status", "ok")

-----------------------------------------------------------------------------
(***************************************************************************)
(* `finstore snaptrade delete`: ask, deregister, unlink.                   *)
(***************************************************************************)
StartDelete ==
    /\ keys # "none"
    /\ IF IsConfigured
       THEN /\ Start("delete", "confirm",
                     IF keys = "partner" THEN LoadUserCredentials ELSE None)
            /\ UNCHANGED <<keys, services, blobs, lost>>
       ELSE StartAndEnd("delete", "unconfigured")

\* With --yes the question is not asked.
Confirm ==
    /\ pc = "confirm"
    /\ \/ GoOn(IF held # None THEN "deregister" ELSE "unlink")
       \/ End("aborted")
    /\ UNCHANGED <<keys, services, blobs, lost>>

Deregister ==
    /\ pc = "deregister"
    /\ account[held] = "registered"
    /\ account' = [account EXCEPT ![held] = "deleted"]
    /\ UNCHANGED <<keys, spent, blobs, lost>>

DeregisterAnswered ==
    /\ Deregister
    /\ GoOn("unlink")

DeregisterLost ==
    /\ Deregister
    /\ End("unreachable")

\* Mutant: the blob is wiped although the request failed.
DeregisterFailsAndGoesOn ==
    /\ pc = "deregister"
    /\ GoOn("unlink")
    /\ UNCHANGED <<keys, services, blobs, lost>>

\* Every HTTP error ends the command, also that SnapTrade knows no such user.
DeregisterFails == RequestFails("deregister")

Unlink ==
    /\ pc = "unlink"
    /\ snaptrade' = None
    /\ lost' = IF held = None THEN lost \cup Forgotten ELSE lost
    /\ GoOn("report")
    /\ UNCHANGED <<keys, services, simplefin>>

-----------------------------------------------------------------------------
\* The user edits .env between two commands.
EditSettings ==
    /\ pc = "idle"
    /\ \E kind \in {"none", "partner", "personal"} \ {keys} : keys' = kind
    /\ last' = NoCommand
    /\ UNCHANGED <<services, blobs, pc, held, before, lost>>

\* A full reset, from the command line or from the dashboard.
WipeCredentials ==
    /\ simplefin # None \/ snaptrade # None
    /\ simplefin' = None
    /\ snaptrade' = None
    /\ lost' = lost \cup Forgotten
    /\ last' = [last EXCEPT !.wiped = TRUE]
    /\ UNCHANGED <<keys, services, pc, held, before>>

Crash ==
    /\ pc # "idle"
    /\ lost' = IF pc = "store secret" THEN lost \cup {held} ELSE lost
    /\ End("crashed")
    /\ UNCHANGED <<keys, services, blobs>>

SimpleFinStep ==
    \/ ClaimAnswered \/ ClaimLost \/ ClaimFails
    \/ ProbeAnswered \/ ProbeFails
    \/ StoreUrl

SnapTradeStep ==
    \/ StoreMarker \/ VerifyAnswered \/ VerifyFails
    \/ RegisterAnswered \/ RegisterLost \/ RegisterFails
    \/ StoreSecret \/ LoginAnswered \/ LoginFails
    \/ Confirm
    \/ DeregisterAnswered \/ DeregisterLost \/ DeregisterFails
    \/ Unlink
    \/ Report

Next ==
    \/ SetupRefusesSecret
    \/ \E t \in Tokens : SetupWithToken(t)
    \/ SetupWithDemoToken
    \/ \E url \in Urls : SetupWithUrl(url)
    \/ SimpleFinStep
    \/ NoKeys("snaptrade setup")
    \/ SetupPersonal
    \/ SetupPartner
    \/ Status
    \/ NoKeys("delete")
    \/ StartDelete
    \/ SnapTradeStep
    \/ EditSettings
    \/ WipeCredentials
    \/ Crash

Spec == Init /\ [][Next]_vars

-----------------------------------------------------------------------------
(***************************************************************************)
(* Properties.                                                             *)
(***************************************************************************)

\* _fetch_snaptrade: the user, or the personal account, that a fetch asks for.
FetchCredential ==
    IF keys = "none" \/ snaptrade = None THEN None ELSE snaptrade

(***************************************************************************)
(* "On any failure (bad secret, exchange error, missing credential) raises *)
(* BackendError" (activate.py:42).  A `finstore setup` that fails leaves   *)
(* the credential that was stored before it in place, although the token   *)
(* it was given is spent by then.  One that succeeds has put in its place  *)
(* the access URL that an exchange returned to it, or that answered its    *)
(* probe.  One that dies has done either, and nothing in between.          *)
(***************************************************************************)
SetupKeepsOrReplaces ==
    LET kept == simplefin = before.simplefin
        replaced == last.url # None /\ simplefin = last.url
    IN  last.cmd = "setup" /\ ~last.wiped =>
          /\ last.ended \in {"usage", "refused", "unreachable"} => kept
          /\ last.ended = "ok" => replaced
          /\ last.ended = "crashed" => kept \/ replaced

(***************************************************************************)
(* No orphans: a user registered with SnapTrade, whose connections to the  *)
(* brokerages only its secret can use or remove, stays named by the stored *)
(* blob or by the command that is about to store it.  Excused are a        *)
(* registration whose answer is lost, a crash before the secret is stored, *)
(* a full reset, and commands run under a key of the other kind.           *)
(***************************************************************************)
NoOrphans ==
    \A u \in Users \ lost :
      account[u] = "registered" =>
        \/ snaptrade = u
        \/ held = u /\ pc = "store secret"

(***************************************************************************)
(* "delete - deregister the user from SnapTrade and wipe the credential    *)
(* blob" (snaptrade.py:12): a delete that ends well has done both, however *)
(* many attempts came before it.                                           *)
(***************************************************************************)
DeleteIsComplete ==
    last.cmd = "delete" /\ last.ended = "ok" =>
      /\ snaptrade = None
      /\ keys = "partner" /\ before.snaptrade \in Users
           => account[before.snaptrade] = "deleted"

(***************************************************************************)
(* "After connecting, run: finstore fetch" (snaptrade.py:309): a snaptrade *)
(* setup that ends well leaves a blob with which the fetch, which reads it *)
(* by rules of its own and under the same keys, asks for an account that   *)
(* SnapTrade knows; likewise when `status` reports the partner's user.     *)
(***************************************************************************)
SetupEnablesFetch ==
    /\ last.ended = "ok" /\ ~last.wiped
    /\ \/ last.cmd = "snaptrade setup"
       \/ last.cmd = "status" /\ keys = "partner"
    => IF keys = "personal"
       THEN FetchCredential = Personal
       ELSE FetchCredential \in Users /\ account[FetchCredential] = "registered"
=============================================================================
