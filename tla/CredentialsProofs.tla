--------------------------- MODULE CredentialsProofs --------------------------
(***************************************************************************)
(* The invariants of Credentials for any number of tokens, access URLs and *)
(* users.  IInv says what a command in progress holds and what it has done *)
(* so far; the invariants the runs check follow from it.                   *)
(***************************************************************************)
EXTENDS Credentials, TLAPS

SetupSteps == {"claim", "probe", "store url"}
PartnerSteps == {"register", "store secret", "login"}
PersonalSteps == {"store marker", "verify"}
DeleteSteps == {"confirm", "deregister", "unlink"}

\* Which command is running at a step, and under which keys.
Running ==
    /\ pc = "idle" <=> last.ended # "running"
    /\ pc \in SetupSteps => last.cmd = "setup"
    /\ pc \in PartnerSteps => last.cmd = "snaptrade setup" /\ keys = "partner"
    /\ pc \in PersonalSteps => last.cmd = "snaptrade setup" /\ keys = "personal"
    /\ pc \in DeleteSteps => last.cmd = "delete"
    /\ pc = "report" => last.cmd \in {"setup", "delete"}

\* What it works on.
Holding ==
    /\ pc = "idle" => held = None
    /\ pc = "claim" => held \in Tokens
    /\ pc = "probe" => held \in Urls
    /\ pc = "store url" => held \in Urls /\ last.url = held
    /\ pc \in PartnerSteps => held \in Users
    /\ pc = "register" => account[held] = "new"
    /\ pc \in PersonalSteps => held = Personal
    /\ pc \in DeleteSteps => held \in Users \cup {None}

\* What has become of the blobs since it began.
SimplefinKept ==
    last.cmd = "setup" /\ ~last.wiped =>
      /\ pc \in SetupSteps => simplefin = before.simplefin
      /\ pc = "report" => last.url # None /\ simplefin = last.url

SnaptradeKept ==
    /\ pc \in {"register", "store secret"} => snaptrade \notin Users
    /\ pc = "login" => last.wiped \/ snaptrade = held
    /\ pc = "verify" => last.wiped \/ snaptrade = Personal
    /\ pc \in DeleteSteps /\ held # None => snaptrade \in {held, None}

\* What a delete has done to the user it found.
Deleting ==
    /\ pc \in DeleteSteps /\ keys = "partner" /\ before.snaptrade \in Users
         => held = before.snaptrade
    /\ pc = "unlink" /\ held # None => account[held] = "deleted"
    /\ pc = "report" /\ last.cmd = "delete" =>
         /\ snaptrade = None
         /\ keys = "partner" /\ before.snaptrade \in Users
              => account[before.snaptrade] = "deleted"

IInv ==
    /\ TypeOK
    /\ Running
    /\ Holding
    /\ SetupKeepsOrReplaces
    /\ SimplefinKept
    /\ SnaptradeKept
    /\ Deleting
    /\ NoOrphans
    /\ DeleteIsComplete
    /\ SetupEnablesFetch
-----------------------------------------------------------------------------
USE CredentialsAssumption
USE DEF Commands, Endings, Steps, SetupSteps, PartnerSteps, PersonalSteps,
        DeleteSteps, services, blobs, vars

LEMMA InitIInv == Init => IInv
  BY DEF Init, NoCommand, IInv, TypeOK, Running, Holding, SetupKeepsOrReplaces,
         SimplefinKept, SnaptradeKept, Deleting, NoOrphans, DeleteIsComplete,
         SetupEnablesFetch

LEMMA Stuttering ==
  ASSUME IInv, UNCHANGED vars
  PROVE  IInv'
  <1> USE DEF IInv
  <1>1. TypeOK'
    <2>1. /\ keys' \in {"none", "partner", "personal"}
          /\ spent' \subseteq Tokens
          /\ account' \in [Users -> {"new", "registered", "deleted"}]
      BY DEF TypeOK
    <2>2. /\ simplefin' \in Urls \cup {None}
          /\ snaptrade' \in Users \cup {Personal, None}
          /\ lost' \subseteq Users
      BY DEF TypeOK
    <2>3. /\ pc' \in Steps \cup {"idle"}
          /\ held' \in Tokens \cup Urls \cup Users \cup {Personal, None}
      BY DEF TypeOK
    <2>4. last' \in [cmd : Commands, ended : Endings, wiped : BOOLEAN,
                     url : Urls \cup {None}]
      BY DEF TypeOK
    <2>5. before' \in [simplefin : Urls \cup {None},
                      snaptrade : Users \cup {Personal, None}]
      BY DEF TypeOK
    <2> QED
      BY <2>1, <2>2, <2>3, <2>4, <2>5 DEF TypeOK
  <1>2. /\ Running'
        /\ Holding'
    BY DEF Running, Holding
  <1>3. /\ SetupKeepsOrReplaces'
        /\ SimplefinKept'
        /\ SnaptradeKept'
    BY DEF SetupKeepsOrReplaces, SimplefinKept, SnaptradeKept
  <1>4. /\ Deleting'
        /\ NoOrphans'
        /\ DeleteIsComplete'
        /\ SetupEnablesFetch'
    BY DEF Deleting, NoOrphans, DeleteIsComplete, SetupEnablesFetch, FetchCredential
  <1> QED
    BY <1>1, <1>2, <1>3, <1>4

(***************************************************************************)
(* A command that ends at once disturbs nothing; only a `status` that found*)
(* a user, or a personal account, may report success.                      *)
(***************************************************************************)
LEMMA EndsAtOnce ==
  ASSUME IInv,
         NEW cmd \in Commands, NEW how \in Endings \ {"running"},
         how = "ok" =>
           /\ cmd = "status"
           /\ keys = "partner" => snaptrade \in Users /\ account[snaptrade] = "registered",
         StartAndEnd(cmd, how),
         cmd = "delete" => how # "ok"
  PROVE  IInv'
  <1> USE DEF IInv, StartAndEnd
  <1>1. TypeOK'
    <2>1. last' \in [cmd : Commands, ended : Endings, wiped : BOOLEAN,
                     url : Urls \cup {None}]
      OBVIOUS
    <2>2. before' \in [simplefin : Urls \cup {None},
                       snaptrade : Users \cup {Personal, None}]
      BY DEF TypeOK
    <2> QED
      BY <2>1, <2>2 DEF TypeOK
  <1>2. Running'
    BY DEF Running
  <1>3. Holding'
    BY DEF Holding, Running
  <1>4. SetupKeepsOrReplaces'
    BY DEF SetupKeepsOrReplaces
  <1>5. SimplefinKept'
    BY DEF SimplefinKept
  <1>6. SnaptradeKept'
    BY DEF SnaptradeKept
  <1>7. Deleting'
    BY DEF Deleting, Running
  <1>8. NoOrphans'
    BY DEF NoOrphans
  <1>9. DeleteIsComplete'
    BY DEF DeleteIsComplete
  <1>10. SetupEnablesFetch'
    BY DEF SetupEnablesFetch, FetchCredential, TypeOK
  <1> QED
    BY <1>1, <1>2, <1>3, <1>4, <1>5, <1>6, <1>7, <1>8, <1>9, <1>10

(***************************************************************************)
(* Neither does one that gives up under way, if it leaves the blobs alone: *)
(* a user that it holds, registered but not stored yet, is lost.           *)
(***************************************************************************)
LEMMA EndsEarly ==
  ASSUME IInv,
         pc # "idle",
         NEW how \in {"unreachable", "refused", "aborted", "crashed"},
         End(how),
         UNCHANGED <<keys, services, blobs>>,
         lost' = lost \/ (held \in Users /\ lost' = lost \cup {held}),
         pc = "store secret" => held \in lost',
         pc = "report" => how = "crashed"
  PROVE  IInv'
  <1> USE DEF IInv, End
  <1>1. TypeOK'
    BY DEF TypeOK
  <1>2. Running'
    BY DEF Running, TypeOK
  <1>3. Holding'
    BY DEF Holding, Running
  <1>4. SetupKeepsOrReplaces'
    <2>1. /\ last'.ended = how /\ last'.url = last.url
          /\ last'.cmd = last.cmd /\ last'.wiped = last.wiped
      BY DEF TypeOK
    <2>2. last.cmd = "setup" => pc \in SetupSteps \cup {"report"}
      BY DEF Running, TypeOK
    <2> QED
      BY <2>1, <2>2 DEF SetupKeepsOrReplaces, SimplefinKept
  <1>5. SimplefinKept'
    BY DEF SimplefinKept, TypeOK, Running
  <1>6. SnaptradeKept'
    BY DEF SnaptradeKept
  <1>7. Deleting'
    BY DEF Deleting, Running
  <1>8. NoOrphans'
    BY DEF NoOrphans, TypeOK, Holding
  <1>9. DeleteIsComplete'
    BY DEF DeleteIsComplete, TypeOK
  <1>10. SetupEnablesFetch'
    BY DEF SetupEnablesFetch, FetchCredential, TypeOK
  <1> QED
    BY <1>1, <1>2, <1>3, <1>4, <1>5, <1>6, <1>7, <1>8, <1>9, <1>10

\* `finstore setup`.
LEMMA SetupKeeps ==
  ASSUME IInv
  PROVE  /\ SetupRefusesSecret => IInv'
         /\ \A t \in Tokens : SetupWithToken(t) => IInv'
         /\ SetupWithDemoToken => IInv'
         /\ \A url \in Urls : SetupWithUrl(url) => IInv'
         /\ SimpleFinStep => IInv'
         /\ Report => IInv'
  <1> USE DEF IInv, TypeOK, Running, Holding, SetupKeepsOrReplaces, SimplefinKept,
              SnaptradeKept, Deleting, NoOrphans, DeleteIsComplete,
              SetupEnablesFetch, FetchCredential
  <1>1. ASSUME SetupRefusesSecret PROVE IInv'
    BY <1>1, EndsAtOnce DEF SetupRefusesSecret
  <1>2. ASSUME NEW t \in Tokens, SetupWithToken(t) PROVE IInv'
    BY <1>2 DEF SetupWithToken, Start
  <1>3. ASSUME SetupWithDemoToken PROVE IInv'
    BY <1>2, <1>3, EndsAtOnce DEF SetupWithDemoToken
  <1>4. ASSUME NEW url \in Urls, SetupWithUrl(url) PROVE IInv'
    BY <1>4 DEF SetupWithUrl, Start
  <1>5. ASSUME ClaimAnswered PROVE IInv'
    <2>1. TypeOK'
      <3>1. /\ keys' \in {"none", "partner", "personal"}
            /\ spent' \subseteq Tokens
            /\ account' \in [Users -> {"new", "registered", "deleted"}]
        BY <1>5 DEF ClaimAnswered, Exchange
      <3>2. /\ simplefin' \in Urls \cup {None}
            /\ snaptrade' \in Users \cup {Personal, None}
            /\ lost' \subseteq Users
        BY <1>5 DEF ClaimAnswered, Exchange
      <3>3. /\ pc' \in Steps \cup {"idle"}
            /\ held' \in Tokens \cup Urls \cup Users \cup {Personal, None}
        BY <1>5 DEF ClaimAnswered, Exchange
      <3>4. last' \in [cmd : Commands, ended : Endings, wiped : BOOLEAN,
                       url : Urls \cup {None}]
        BY <1>5 DEF ClaimAnswered, Exchange
      <3>5. before' \in [simplefin : Urls \cup {None},
                        snaptrade : Users \cup {Personal, None}]
        BY <1>5 DEF ClaimAnswered, Exchange
      <3> QED
        BY <3>1, <3>2, <3>3, <3>4, <3>5 DEF TypeOK
    <2>2. Running'
      BY <1>5 DEF ClaimAnswered, Exchange
    <2>3. Holding'
      BY <1>5 DEF ClaimAnswered, Exchange
    <2>4. SetupKeepsOrReplaces'
      BY <1>5 DEF ClaimAnswered, Exchange
    <2>5. SimplefinKept'
      BY <1>5 DEF ClaimAnswered, Exchange
    <2>6. SnaptradeKept'
      BY <1>5 DEF ClaimAnswered, Exchange
    <2>7. Deleting'
      BY <1>5 DEF ClaimAnswered, Exchange
    <2>8. NoOrphans'
      BY <1>5 DEF ClaimAnswered, Exchange
    <2>9. DeleteIsComplete'
      BY <1>5 DEF ClaimAnswered, Exchange
    <2>10. SetupEnablesFetch'
      BY <1>5 DEF ClaimAnswered, Exchange
    <2> QED
      BY <2>1, <2>2, <2>3, <2>4, <2>5, <2>6, <2>7, <2>8, <2>9, <2>10 DEF IInv
  <1>6. ASSUME ClaimLost PROVE IInv'
    <2>1. TypeOK'
      <3>1. /\ keys' \in {"none", "partner", "personal"}
            /\ spent' \subseteq Tokens
            /\ account' \in [Users -> {"new", "registered", "deleted"}]
        BY <1>6 DEF ClaimLost, Exchange, End
      <3>2. /\ simplefin' \in Urls \cup {None}
            /\ snaptrade' \in Users \cup {Personal, None}
            /\ lost' \subseteq Users
        BY <1>6 DEF ClaimLost, Exchange, End
      <3>3. /\ pc' \in Steps \cup {"idle"}
            /\ held' \in Tokens \cup Urls \cup Users \cup {Personal, None}
        BY <1>6 DEF ClaimLost, Exchange, End
      <3>4. last' \in [cmd : Commands, ended : Endings, wiped : BOOLEAN,
                       url : Urls \cup {None}]
        BY <1>6 DEF ClaimLost, Exchange, End
      <3>5. before' \in [simplefin : Urls \cup {None},
                        snaptrade : Users \cup {Personal, None}]
        BY <1>6 DEF ClaimLost, Exchange, End
      <3> QED
        BY <3>1, <3>2, <3>3, <3>4, <3>5 DEF TypeOK
    <2>2. Running'
      BY <1>6 DEF ClaimLost, Exchange, End
    <2>3. Holding'
      BY <1>6 DEF ClaimLost, Exchange, End
    <2>4. SetupKeepsOrReplaces'
      BY <1>6 DEF ClaimLost, Exchange, End
    <2>5. SimplefinKept'
      BY <1>6 DEF ClaimLost, Exchange, End
    <2>6. SnaptradeKept'
      BY <1>6 DEF ClaimLost, Exchange, End
    <2>7. Deleting'
      BY <1>6 DEF ClaimLost, Exchange, End
    <2>8. NoOrphans'
      BY <1>6 DEF ClaimLost, Exchange, End
    <2>9. DeleteIsComplete'
      BY <1>6 DEF ClaimLost, Exchange, End
    <2>10. SetupEnablesFetch'
      BY <1>6 DEF ClaimLost, Exchange, End
    <2> QED
      BY <2>1, <2>2, <2>3, <2>4, <2>5, <2>6, <2>7, <2>8, <2>9, <2>10 DEF IInv
  <1>7. ASSUME ClaimFails PROVE IInv'
    BY <1>7, EndsEarly DEF ClaimFails, RequestFails
  <1>8. ASSUME ProbeAnswered PROVE IInv'
    <2>1. TypeOK'
      BY <1>8 DEF ProbeAnswered, GoOn
    <2>2. Running'
      BY <1>8 DEF ProbeAnswered, GoOn
    <2>3. Holding'
      BY <1>8 DEF ProbeAnswered, GoOn
    <2>4. SetupKeepsOrReplaces'
      BY <1>8 DEF ProbeAnswered, GoOn
    <2>5. SimplefinKept'
      BY <1>8 DEF ProbeAnswered, GoOn
    <2>6. SnaptradeKept'
      BY <1>8 DEF ProbeAnswered, GoOn
    <2>7. Deleting'
      BY <1>8 DEF ProbeAnswered, GoOn
    <2>8. NoOrphans'
      BY <1>8 DEF ProbeAnswered, GoOn
    <2>9. DeleteIsComplete'
      BY <1>8 DEF ProbeAnswered, GoOn
    <2>10. SetupEnablesFetch'
      BY <1>8 DEF ProbeAnswered, GoOn
    <2> QED
      BY <2>1, <2>2, <2>3, <2>4, <2>5, <2>6, <2>7, <2>8, <2>9, <2>10 DEF IInv
  <1>9. ASSUME ProbeFails PROVE IInv'
    BY <1>9, EndsEarly DEF ProbeFails, RequestFails
  <1>10. ASSUME StoreUrl PROVE IInv'
    <2>1. TypeOK'
      <3>1. /\ keys' \in {"none", "partner", "personal"}
            /\ spent' \subseteq Tokens
            /\ account' \in [Users -> {"new", "registered", "deleted"}]
        BY <1>10 DEF StoreUrl, GoOn
      <3>2. /\ simplefin' \in Urls \cup {None}
            /\ snaptrade' \in Users \cup {Personal, None}
            /\ lost' \subseteq Users
        BY <1>10 DEF StoreUrl, GoOn
      <3>3. /\ pc' \in Steps \cup {"idle"}
            /\ held' \in Tokens \cup Urls \cup Users \cup {Personal, None}
        BY <1>10 DEF StoreUrl, GoOn
      <3>4. last' \in [cmd : Commands, ended : Endings, wiped : BOOLEAN,
                       url : Urls \cup {None}]
        BY <1>10 DEF StoreUrl, GoOn
      <3>5. before' \in [simplefin : Urls \cup {None},
                        snaptrade : Users \cup {Personal, None}]
        BY <1>10 DEF StoreUrl, GoOn
      <3> QED
        BY <3>1, <3>2, <3>3, <3>4, <3>5 DEF TypeOK
    <2>2. Running'
      BY <1>10 DEF StoreUrl, GoOn
    <2>3. Holding'
      BY <1>10 DEF StoreUrl, GoOn
    <2>4. SetupKeepsOrReplaces'
      BY <1>10 DEF StoreUrl, GoOn
    <2>5. SimplefinKept'
      BY <1>10 DEF StoreUrl, GoOn
    <2>6. SnaptradeKept'
      BY <1>10 DEF StoreUrl, GoOn
    <2>7. Deleting'
      BY <1>10 DEF StoreUrl, GoOn
    <2>8. NoOrphans'
      BY <1>10 DEF StoreUrl, GoOn
    <2>9. DeleteIsComplete'
      BY <1>10 DEF StoreUrl, GoOn
    <2>10. SetupEnablesFetch'
      BY <1>10 DEF StoreUrl, GoOn
    <2> QED
      BY <2>1, <2>2, <2>3, <2>4, <2>5, <2>6, <2>7, <2>8, <2>9, <2>10 DEF IInv
  <1>11. ASSUME Report PROVE IInv'
    <2>1. TypeOK'
      BY <1>11 DEF Report, End
    <2>2. Running'
      BY <1>11 DEF Report, End
    <2>3. Holding'
      BY <1>11 DEF Report, End
    <2>4. SetupKeepsOrReplaces'
      BY <1>11 DEF Report, End
    <2>5. SimplefinKept'
      BY <1>11 DEF Report, End
    <2>6. SnaptradeKept'
      BY <1>11 DEF Report, End
    <2>7. Deleting'
      BY <1>11 DEF Report, End
    <2>8. NoOrphans'
      BY <1>11 DEF Report, End
    <2>9. DeleteIsComplete'
      BY <1>11 DEF Report, End
    <2>10. SetupEnablesFetch'
      BY <1>11 DEF Report, End
    <2> QED
      BY <2>1, <2>2, <2>3, <2>4, <2>5, <2>6, <2>7, <2>8, <2>9, <2>10 DEF IInv
  <1> QED
    BY <1>1, <1>2, <1>3, <1>4, <1>5, <1>6, <1>7, <1>8, <1>9, <1>10, <1>11
    DEF SimpleFinStep

\* `finstore snaptrade setup`.
LEMMA SnapTradeSetupKeeps ==
  ASSUME IInv
  PROVE  /\ NoKeys("snaptrade setup") => IInv'
         /\ SetupPersonal => IInv'
         /\ SetupPartner => IInv'
         /\ StoreMarker \/ VerifyAnswered \/ VerifyFails => IInv'
         /\ RegisterAnswered \/ RegisterLost \/ RegisterFails => IInv'
         /\ StoreSecret \/ LoginAnswered \/ LoginFails => IInv'
  <1> USE DEF IInv, TypeOK, Running, Holding, SetupKeepsOrReplaces, SimplefinKept,
              SnaptradeKept, Deleting, NoOrphans, DeleteIsComplete,
              SetupEnablesFetch, FetchCredential
  <1>1. ASSUME NoKeys("snaptrade setup") PROVE IInv'
    BY <1>1, EndsAtOnce DEF NoKeys
  <1>2. ASSUME SetupPersonal PROVE IInv'
    BY <1>2 DEF SetupPersonal, Start, AlreadyPersonal
  <1>3. ASSUME SetupPartner PROVE IInv'
    <2>1. CASE snaptrade \in Users
      <3>0. /\ keys = "partner"
            /\ Start("snaptrade setup", "login", snaptrade)
            /\ UNCHANGED <<keys, services, blobs, lost>>
        BY <1>3, <2>1 DEF SetupPartner, LoadUserCredentials
      <3>1. TypeOK'
        <4>1. /\ keys' \in {"none", "partner", "personal"}
              /\ spent' \subseteq Tokens
              /\ account' \in [Users -> {"new", "registered", "deleted"}]
          BY <2>1, <3>0 DEF Start
        <4>2. /\ simplefin' \in Urls \cup {None}
              /\ snaptrade' \in Users \cup {Personal, None}
              /\ lost' \subseteq Users
          BY <2>1, <3>0 DEF Start
        <4>3. /\ pc' \in Steps \cup {"idle"}
              /\ held' \in Tokens \cup Urls \cup Users \cup {Personal, None}
          BY <2>1, <3>0 DEF Start
        <4>4. last' \in [cmd : Commands, ended : Endings, wiped : BOOLEAN,
                         url : Urls \cup {None}]
          BY <2>1, <3>0 DEF Start
        <4>5. before' \in [simplefin : Urls \cup {None},
                          snaptrade : Users \cup {Personal, None}]
          BY <2>1, <3>0 DEF Start
        <4> QED
          BY <4>1, <4>2, <4>3, <4>4, <4>5 DEF TypeOK
      <3>2. Running'
        BY <2>1, <3>0 DEF Start
      <3>3. Holding'
        BY <2>1, <3>0 DEF Start
      <3>4. SetupKeepsOrReplaces'
        BY <2>1, <3>0 DEF Start
      <3>5. SimplefinKept'
        BY <2>1, <3>0 DEF Start
      <3>6. SnaptradeKept'
        BY <2>1, <3>0 DEF Start
      <3>7. Deleting'
        BY <2>1, <3>0 DEF Start
      <3>8. NoOrphans'
        BY <2>1, <3>0 DEF Start
      <3>9. DeleteIsComplete'
        BY <2>1, <3>0 DEF Start
      <3>10. SetupEnablesFetch'
        BY <2>1, <3>0 DEF Start
      <3> QED
        BY <3>1, <3>2, <3>3, <3>4, <3>5, <3>6, <3>7, <3>8, <3>9, <3>10 DEF IInv
    <2>2. ASSUME snaptrade \notin Users,
                 NEW u \in Users, account[u] = "new",
                 Start("snaptrade setup", "register", u)
          PROVE  IInv'
      BY <1>3, <2>2 DEF SetupPartner, Start
    <2> QED
      BY <1>3, <2>1, <2>2 DEF SetupPartner, LoadUserCredentials
  <1>4. ASSUME StoreMarker PROVE IInv'
    BY <1>4 DEF StoreMarker, GoOn, Forgotten, LoadUserCredentials
  <1>5. ASSUME VerifyAnswered PROVE IInv'
    BY <1>5 DEF VerifyAnswered, End
  <1>6. ASSUME VerifyFails PROVE IInv'
    BY <1>6, EndsEarly DEF VerifyFails, RequestFails
  <1>7. ASSUME RegisterAnswered PROVE IInv'
    BY <1>7 DEF RegisterAnswered, Register, GoOn
  <1>8. ASSUME RegisterLost PROVE IInv'
    <2>1. TypeOK'
      <3>1. /\ keys' \in {"none", "partner", "personal"}
            /\ spent' \subseteq Tokens
            /\ account' \in [Users -> {"new", "registered", "deleted"}]
        BY <1>8 DEF RegisterLost, Register, End
      <3>2. /\ simplefin' \in Urls \cup {None}
            /\ snaptrade' \in Users \cup {Personal, None}
            /\ lost' \subseteq Users
        BY <1>8 DEF RegisterLost, Register, End
      <3>3. /\ pc' \in Steps \cup {"idle"}
            /\ held' \in Tokens \cup Urls \cup Users \cup {Personal, None}
        BY <1>8 DEF RegisterLost, Register, End
      <3>4. last' \in [cmd : Commands, ended : Endings, wiped : BOOLEAN,
                       url : Urls \cup {None}]
        BY <1>8 DEF RegisterLost, Register, End
      <3>5. before' \in [simplefin : Urls \cup {None},
                        snaptrade : Users \cup {Personal, None}]
        BY <1>8 DEF RegisterLost, Register, End
      <3> QED
        BY <3>1, <3>2, <3>3, <3>4, <3>5 DEF TypeOK
    <2>2. Running'
      BY <1>8 DEF RegisterLost, Register, End
    <2>3. Holding'
      BY <1>8 DEF RegisterLost, Register, End
    <2>4. SetupKeepsOrReplaces'
      BY <1>8 DEF RegisterLost, Register, End
    <2>5. SimplefinKept'
      BY <1>8 DEF RegisterLost, Register, End
    <2>6. SnaptradeKept'
      BY <1>8 DEF RegisterLost, Register, End
    <2>7. Deleting'
      BY <1>8 DEF RegisterLost, Register, End
    <2>8. NoOrphans'
      BY <1>8 DEF RegisterLost, Register, End
    <2>9. DeleteIsComplete'
      BY <1>8 DEF RegisterLost, Register, End
    <2>10. SetupEnablesFetch'
      BY <1>8 DEF RegisterLost, Register, End
    <2> QED
      BY <2>1, <2>2, <2>3, <2>4, <2>5, <2>6, <2>7, <2>8, <2>9, <2>10 DEF IInv
  <1>9. ASSUME RegisterFails PROVE IInv'
    BY <1>9, EndsEarly DEF RegisterFails, RequestFails
  <1>10. ASSUME StoreSecret PROVE IInv'
    BY <1>10 DEF StoreSecret, GoOn
  <1>11. ASSUME LoginAnswered PROVE IInv'
    BY <1>11 DEF LoginAnswered, End
  <1>12. ASSUME LoginFails PROVE IInv'
    BY <1>12, EndsEarly DEF LoginFails, RequestFails
  <1> QED
    BY <1>1, <1>2, <1>3, <1>4, <1>5, <1>6, <1>7, <1>8, <1>9, <1>10, <1>11, <1>12

\* `finstore snaptrade status` and `finstore snaptrade delete`.
LEMMA DeleteKeeps ==
  ASSUME IInv
  PROVE  /\ Status => IInv'
         /\ NoKeys("delete") => IInv'
         /\ StartDelete => IInv'
         /\ Confirm => IInv'
         /\ DeregisterAnswered \/ DeregisterLost \/ DeregisterFails => IInv'
         /\ Unlink => IInv'
  <1> USE DEF IInv, TypeOK, Running, Holding, SetupKeepsOrReplaces, SimplefinKept,
              SnaptradeKept, Deleting, NoOrphans, DeleteIsComplete,
              SetupEnablesFetch, FetchCredential
  <1>1. ASSUME Status PROVE IInv'
    BY <1>1, EndsAtOnce DEF Status, IsConfigured, LoadUserCredentials
  <1>2. ASSUME NoKeys("delete") PROVE IInv'
    BY <1>2, EndsAtOnce DEF NoKeys
  <1>3. ASSUME StartDelete PROVE IInv'
    <2>1. CASE snaptrade = None
      BY <1>3, <2>1, EndsAtOnce DEF StartDelete, IsConfigured
    <2>2. CASE snaptrade # None
      <3> DEFINE user == IF keys = "partner" THEN LoadUserCredentials ELSE None
      <3>a. /\ user \in Users \cup {None}
            /\ user # None => user = snaptrade
            /\ keys = "partner" /\ snaptrade \in Users => user = snaptrade
        BY DEF LoadUserCredentials
      <3>b. /\ Start("delete", "confirm", user)
            /\ UNCHANGED <<keys, services, blobs, lost>>
        BY <1>3, <2>2 DEF StartDelete, IsConfigured
      <3> HIDE DEF user
      <3>1. TypeOK'
        <4>1. /\ keys' \in {"none", "partner", "personal"}
              /\ spent' \subseteq Tokens
              /\ account' \in [Users -> {"new", "registered", "deleted"}]
          BY <2>2, <3>a, <3>b DEF Start
        <4>2. /\ simplefin' \in Urls \cup {None}
              /\ snaptrade' \in Users \cup {Personal, None}
              /\ lost' \subseteq Users
          BY <2>2, <3>a, <3>b DEF Start
        <4>3. /\ pc' \in Steps \cup {"idle"}
              /\ held' \in Tokens \cup Urls \cup Users \cup {Personal, None}
          BY <2>2, <3>a, <3>b DEF Start
        <4>4. last' \in [cmd : Commands, ended : Endings, wiped : BOOLEAN,
                         url : Urls \cup {None}]
          BY <2>2, <3>a, <3>b DEF Start
        <4>5. before' \in [simplefin : Urls \cup {None},
                          snaptrade : Users \cup {Personal, None}]
          BY <2>2, <3>a, <3>b DEF Start
        <4> QED
          BY <4>1, <4>2, <4>3, <4>4, <4>5 DEF TypeOK
      <3>2. Running'
        BY <2>2, <3>a, <3>b DEF Start
      <3>3. Holding'
        BY <2>2, <3>a, <3>b DEF Start
      <3>4. SetupKeepsOrReplaces'
        BY <2>2, <3>a, <3>b DEF Start
      <3>5. SimplefinKept'
        BY <2>2, <3>a, <3>b DEF Start
      <3>6. SnaptradeKept'
        BY <2>2, <3>a, <3>b DEF Start
      <3>7. Deleting'
        BY <2>2, <3>a, <3>b DEF Start
      <3>8. NoOrphans'
        BY <2>2, <3>a, <3>b DEF Start
      <3>9. DeleteIsComplete'
        BY <2>2, <3>a, <3>b DEF Start
      <3>10. SetupEnablesFetch'
        BY <2>2, <3>a, <3>b DEF Start
      <3> QED
        BY <3>1, <3>2, <3>3, <3>4, <3>5, <3>6, <3>7, <3>8, <3>9, <3>10 DEF IInv
    <2> QED
      BY <2>1, <2>2
  <1>4. ASSUME Confirm PROVE IInv'
    <2>1. CASE End("aborted")
      BY <1>4, <2>1, EndsEarly DEF Confirm
    <2>2. CASE GoOn("deregister") /\ held # None
      <3>1. TypeOK'
        <4>1. /\ keys' \in {"none", "partner", "personal"}
              /\ spent' \subseteq Tokens
              /\ account' \in [Users -> {"new", "registered", "deleted"}]
          BY <1>4, <2>2 DEF Confirm, GoOn
        <4>2. /\ simplefin' \in Urls \cup {None}
              /\ snaptrade' \in Users \cup {Personal, None}
              /\ lost' \subseteq Users
          BY <1>4, <2>2 DEF Confirm, GoOn
        <4>3. /\ pc' \in Steps \cup {"idle"}
              /\ held' \in Tokens \cup Urls \cup Users \cup {Personal, None}
          BY <1>4, <2>2 DEF Confirm, GoOn
        <4>4. last' \in [cmd : Commands, ended : Endings, wiped : BOOLEAN,
                         url : Urls \cup {None}]
          BY <1>4, <2>2 DEF Confirm, GoOn
        <4>5. before' \in [simplefin : Urls \cup {None},
                          snaptrade : Users \cup {Personal, None}]
          BY <1>4, <2>2 DEF Confirm, GoOn
        <4> QED
          BY <4>1, <4>2, <4>3, <4>4, <4>5 DEF TypeOK
      <3>2. Running'
        BY <1>4, <2>2 DEF Confirm, GoOn
      <3>3. Holding'
        BY <1>4, <2>2 DEF Confirm, GoOn
      <3>4. SetupKeepsOrReplaces'
        BY <1>4, <2>2 DEF Confirm, GoOn
      <3>5. SimplefinKept'
        BY <1>4, <2>2 DEF Confirm, GoOn
      <3>6. SnaptradeKept'
        BY <1>4, <2>2 DEF Confirm, GoOn
      <3>7. Deleting'
        BY <1>4, <2>2 DEF Confirm, GoOn
      <3>8. NoOrphans'
        BY <1>4, <2>2 DEF Confirm, GoOn
      <3>9. DeleteIsComplete'
        BY <1>4, <2>2 DEF Confirm, GoOn
      <3>10. SetupEnablesFetch'
        BY <1>4, <2>2 DEF Confirm, GoOn
      <3> QED
        BY <3>1, <3>2, <3>3, <3>4, <3>5, <3>6, <3>7, <3>8, <3>9, <3>10 DEF IInv
    <2>3. CASE GoOn("unlink") /\ held = None
      <3>1. TypeOK'
        BY <1>4, <2>3 DEF Confirm, GoOn
      <3>2. Running'
        BY <1>4, <2>3 DEF Confirm, GoOn
      <3>3. Holding'
        BY <1>4, <2>3 DEF Confirm, GoOn
      <3>4. SetupKeepsOrReplaces'
        BY <1>4, <2>3 DEF Confirm, GoOn
      <3>5. SimplefinKept'
        BY <1>4, <2>3 DEF Confirm, GoOn
      <3>6. SnaptradeKept'
        BY <1>4, <2>3 DEF Confirm, GoOn
      <3>7. Deleting'
        BY <1>4, <2>3 DEF Confirm, GoOn
      <3>8. NoOrphans'
        BY <1>4, <2>3 DEF Confirm, GoOn
      <3>9. DeleteIsComplete'
        BY <1>4, <2>3 DEF Confirm, GoOn
      <3>10. SetupEnablesFetch'
        BY <1>4, <2>3 DEF Confirm, GoOn
      <3> QED
        BY <3>1, <3>2, <3>3, <3>4, <3>5, <3>6, <3>7, <3>8, <3>9, <3>10 DEF IInv
    <2> QED
      BY <1>4, <2>1, <2>2, <2>3 DEF Confirm
  <1>5. ASSUME DeregisterAnswered PROVE IInv'
    <2>1. TypeOK'
      BY <1>5 DEF DeregisterAnswered, Deregister, GoOn
    <2>2. Running'
      BY <1>5 DEF DeregisterAnswered, Deregister, GoOn
    <2>3. Holding'
      BY <1>5 DEF DeregisterAnswered, Deregister, GoOn
    <2>4. SetupKeepsOrReplaces'
      BY <1>5 DEF DeregisterAnswered, Deregister, GoOn
    <2>5. SimplefinKept'
      BY <1>5 DEF DeregisterAnswered, Deregister, GoOn
    <2>6. SnaptradeKept'
      BY <1>5 DEF DeregisterAnswered, Deregister, GoOn
    <2>7. Deleting'
      BY <1>5 DEF DeregisterAnswered, Deregister, GoOn
    <2>8. NoOrphans'
      BY <1>5 DEF DeregisterAnswered, Deregister, GoOn
    <2>9. DeleteIsComplete'
      BY <1>5 DEF DeregisterAnswered, Deregister, GoOn
    <2>10. SetupEnablesFetch'
      BY <1>5 DEF DeregisterAnswered, Deregister, GoOn
    <2> QED
      BY <2>1, <2>2, <2>3, <2>4, <2>5, <2>6, <2>7, <2>8, <2>9, <2>10 DEF IInv
  <1>6. ASSUME DeregisterLost PROVE IInv'
    <2>1. TypeOK'
      BY <1>6 DEF DeregisterLost, Deregister, End
    <2>2. Running'
      BY <1>6 DEF DeregisterLost, Deregister, End
    <2>3. Holding'
      BY <1>6 DEF DeregisterLost, Deregister, End
    <2>4. SetupKeepsOrReplaces'
      BY <1>6 DEF DeregisterLost, Deregister, End
    <2>5. SimplefinKept'
      BY <1>6 DEF DeregisterLost, Deregister, End
    <2>6. SnaptradeKept'
      BY <1>6 DEF DeregisterLost, Deregister, End
    <2>7. Deleting'
      BY <1>6 DEF DeregisterLost, Deregister, End
    <2>8. NoOrphans'
      BY <1>6 DEF DeregisterLost, Deregister, End
    <2>9. DeleteIsComplete'
      BY <1>6 DEF DeregisterLost, Deregister, End
    <2>10. SetupEnablesFetch'
      BY <1>6 DEF DeregisterLost, Deregister, End
    <2> QED
      BY <2>1, <2>2, <2>3, <2>4, <2>5, <2>6, <2>7, <2>8, <2>9, <2>10 DEF IInv
  <1>7. ASSUME DeregisterFails PROVE IInv'
    BY <1>7, EndsEarly DEF DeregisterFails, RequestFails
  <1>8. ASSUME Unlink PROVE IInv'
    <2>1. TypeOK'
      BY <1>8 DEF Unlink, GoOn, Forgotten, LoadUserCredentials
    <2>2. Running'
      BY <1>8 DEF Unlink, GoOn, Forgotten, LoadUserCredentials
    <2>3. Holding'
      BY <1>8 DEF Unlink, GoOn, Forgotten, LoadUserCredentials
    <2>4. SetupKeepsOrReplaces'
      BY <1>8 DEF Unlink, GoOn, Forgotten, LoadUserCredentials
    <2>5. SimplefinKept'
      BY <1>8 DEF Unlink, GoOn, Forgotten, LoadUserCredentials
    <2>6. SnaptradeKept'
      BY <1>8 DEF Unlink, GoOn, Forgotten, LoadUserCredentials
    <2>7. Deleting'
      BY <1>8 DEF Unlink, GoOn, Forgotten, LoadUserCredentials
    <2>8. NoOrphans'
      BY <1>8 DEF Unlink, GoOn, Forgotten, LoadUserCredentials
    <2>9. DeleteIsComplete'
      BY <1>8 DEF Unlink, GoOn, Forgotten, LoadUserCredentials
    <2>10. SetupEnablesFetch'
      BY <1>8 DEF Unlink, GoOn, Forgotten, LoadUserCredentials
    <2> QED
      BY <2>1, <2>2, <2>3, <2>4, <2>5, <2>6, <2>7, <2>8, <2>9, <2>10 DEF IInv
  <1> QED
    BY <1>1, <1>2, <1>3, <1>4, <1>5, <1>6, <1>7, <1>8

\* The user, the dashboard's reset, a crash.
LEMMA OthersKeep ==
  ASSUME IInv
  PROVE  /\ EditSettings => IInv'
         /\ WipeCredentials => IInv'
         /\ Crash => IInv'
  <1> USE DEF IInv, TypeOK, Running, Holding, SetupKeepsOrReplaces, SimplefinKept,
              SnaptradeKept, Deleting, NoOrphans, DeleteIsComplete,
              SetupEnablesFetch, FetchCredential
  <1>1. ASSUME EditSettings PROVE IInv'
    <2>1. TypeOK'
      BY <1>1 DEF EditSettings, NoCommand
    <2>2. Running'
      BY <1>1 DEF EditSettings, NoCommand
    <2>3. Holding'
      BY <1>1 DEF EditSettings, NoCommand
    <2>4. SetupKeepsOrReplaces'
      BY <1>1 DEF EditSettings, NoCommand
    <2>5. SimplefinKept'
      BY <1>1 DEF EditSettings, NoCommand
    <2>6. SnaptradeKept'
      BY <1>1 DEF EditSettings, NoCommand
    <2>7. Deleting'
      BY <1>1 DEF EditSettings, NoCommand
    <2>8. NoOrphans'
      BY <1>1 DEF EditSettings, NoCommand
    <2>9. DeleteIsComplete'
      BY <1>1 DEF EditSettings, NoCommand
    <2>10. SetupEnablesFetch'
      BY <1>1 DEF EditSettings, NoCommand
    <2> QED
      BY <2>1, <2>2, <2>3, <2>4, <2>5, <2>6, <2>7, <2>8, <2>9, <2>10 DEF IInv
  <1>2. ASSUME WipeCredentials PROVE IInv'
    <2>1. TypeOK'
      BY <1>2 DEF WipeCredentials, Forgotten, LoadUserCredentials
    <2>2. Running'
      BY <1>2 DEF WipeCredentials, Forgotten, LoadUserCredentials
    <2>3. Holding'
      BY <1>2 DEF WipeCredentials, Forgotten, LoadUserCredentials
    <2>4. SetupKeepsOrReplaces'
      BY <1>2 DEF WipeCredentials, Forgotten, LoadUserCredentials
    <2>5. SimplefinKept'
      BY <1>2 DEF WipeCredentials, Forgotten, LoadUserCredentials
    <2>6. SnaptradeKept'
      BY <1>2 DEF WipeCredentials, Forgotten, LoadUserCredentials
    <2>7. Deleting'
      BY <1>2 DEF WipeCredentials, Forgotten, LoadUserCredentials
    <2>8. NoOrphans'
      BY <1>2 DEF WipeCredentials, Forgotten, LoadUserCredentials
    <2>9. DeleteIsComplete'
      BY <1>2 DEF WipeCredentials, Forgotten, LoadUserCredentials
    <2>10. SetupEnablesFetch'
      BY <1>2 DEF WipeCredentials, Forgotten, LoadUserCredentials
    <2> QED
      BY <2>1, <2>2, <2>3, <2>4, <2>5, <2>6, <2>7, <2>8, <2>9, <2>10 DEF IInv
  <1>3. ASSUME Crash PROVE IInv'
    <2>1. CASE pc = "store secret"
      <3>1. held \in Users /\ lost' = lost \cup {held}
        BY <1>3, <2>1 DEF Crash
      <3> QED
        BY <1>3, <2>1, <3>1, EndsEarly DEF Crash
    <2>2. CASE pc # "store secret"
      BY <1>3, <2>2, EndsEarly DEF Crash
    <2> QED
      BY <2>1, <2>2
  <1> QED
    BY <1>1, <1>2, <1>3

LEMMA NextIInv ==
  ASSUME IInv, [Next]_vars
  PROVE  IInv'
  BY Stuttering, SetupKeeps, SnapTradeSetupKeeps, DeleteKeeps, OthersKeep
     DEF Next, SnapTradeStep

LEMMA Inductive == Spec => []IInv
  BY InitIInv, NextIInv, PTL DEF Spec

(***************************************************************************)
(* The services, the blobs and the command in progress keep their form.    *)
(***************************************************************************)
THEOREM TypeCorrect == Spec => []TypeOK
  <1>1. IInv => TypeOK
    BY DEF IInv
  <1> QED
    BY <1>1, Inductive, PTL

(***************************************************************************)
(* A `finstore setup` that fails leaves the stored access URL as it was,   *)
(* one that ends well has stored the one that was vouched for, and one     *)
(* that dies at any step has done one or the other.                        *)
(***************************************************************************)
THEOREM SetupIsAtomic == Spec => []SetupKeepsOrReplaces
  <1>1. IInv => SetupKeepsOrReplaces
    BY DEF IInv
  <1> QED
    BY <1>1, Inductive, PTL

(***************************************************************************)
(* The registered users that no blob names are those whose loss NoOrphans  *)
(* excuses, whatever the order of setups, deletes, failures and crashes.   *)
(***************************************************************************)
THEOREM NothingOrphaned == Spec => []NoOrphans
  <1>1. IInv => NoOrphans
    BY DEF IInv
  <1> QED
    BY <1>1, Inductive, PTL

(***************************************************************************)
(* A `finstore snaptrade delete` that ends well has deregistered the user  *)
(* and wiped the blob.                                                     *)
(***************************************************************************)
THEOREM DeleteDoesBoth == Spec => []DeleteIsComplete
  <1>1. IInv => DeleteIsComplete
    BY DEF IInv
  <1> QED
    BY <1>1, Inductive, PTL

(***************************************************************************)
(* After a `finstore snaptrade setup` that ends well, the fetch finds a    *)
(* blob that it understands and that SnapTrade knows.                      *)
(***************************************************************************)
THEOREM SetupFetches == Spec => []SetupEnablesFetch
  <1>1. IInv => SetupEnablesFetch
    BY DEF IInv
  <1> QED
    BY <1>1, Inductive, PTL
=============================================================================
