------------------------------- MODULE Records -------------------------------
(***************************************************************************)
(* What becomes of the fields of an account and its transactions: decoded  *)
(* from the answer of SimpleFIN or SnapTrade, normalised, merged into a    *)
(* file, read back, and judged by `finstore validate`, which walks the     *)
(* directory file by file while a fetch or a reset may be changing it.     *)
(*                                                                         *)
(* Abstractions.  A field is the class of values its conversions and rules *)
(* tell apart:                                                             *)
(*   amounts   "cents" (-12.34), "padded" (the same between blanks),       *)
(*             "other" (12.5, 1E+2), "bad" (Decimal or .strip raises),     *)
(*             "null";                                                     *)
(*   epochs    "day", "zero" and "wild" (before 2000, after 2100),         *)
(*             "bad" (int raises), "null";                                 *)
(*   texts     "short", "long", "null": the worst of payee, description    *)
(*             and memo, which have the same rule;                         *)
(*   currency  "iso", "lower", "".                                         *)
(* Symbols of one id have one type; the positions of an account are the set*)
(* of their securities.  Files are read at one instant; the index is left  *)
(* to FilesystemStorage.                                                   *)
(***************************************************************************)
EXTENDS Naturals, Sequences

CONSTANTS
    SimplefinAnswers,  \* sequences of SimpleFIN accounts
    SnaptradeAnswers,  \* sequences of SnapTrade accounts
    Conns,             \* normalised connection ids, "_unknown" among them
    Display(_),        \* sanitize_account_name; names may collide
    Displays,          \* its values
    Absent,            \* no file; no transaction
    Bounded            \* a bound, or FALSE: the writer begins each thing once in a walk

VARIABLES
    files,       \* account files
    positions,   \* positions files of the investment accounts
    securities,  \* the registry of securities.json, {} when there is none
    temps,       \* temporary files that crashes left behind
    todo,        \* writes that the running merge_chunk has still to do
    scan,        \* where `finstore validate` is
    report,      \* the violations it has found
    \* History variables.
    always,      \* violations that have held ever since it began
    sometimes,   \* violations that have held at some time since
    meanwhile,   \* what the writer began since: an answer, a removal
    repeats      \* <<path, id>>: one answer gave the id of a cash transaction twice

disk == <<files, positions, securities, temps>>
validator == <<scan, report, always, sometimes, meanwhile>>
vars == <<disk, todo, validator, repeats>>

Kinds == {"accounts", "investment"}
Paths == Kinds \X Conns \X Displays

CashTransaction ==
    [id : STRING, posted : {"day", "zero", "wild"}, amount : {"cents", "other"},
     text : {"short", "long", "null"}, transacted : {"day", "zero", "wild", "null"}]

CashFile ==
    [path : Paths, id : STRING, name : STRING, currency : {"iso", "lower", ""},
     balance : {"cents", "other"}, available : {"cents", "other", "null"},
     date : {"day", "zero", "wild"}, conn : STRING, txns : Seq(CashTransaction)]

InvestmentTransaction ==
    [id : STRING, trade_date : {"day", "zero"}, trntype : {"known", "OTHER"}]

InvestmentFile ==
    [path : Paths, id : STRING, name : STRING, broker : Conns, conn : Conns,
     txns : Seq(InvestmentTransaction)]

SecurityId == [uid : STRING, type : {"FIGI", "CUSIP", "ISIN", "TICKER"}]

(***************************************************************************)
(* Every field on disk is of a class that _dict_to_account and             *)
(* _dict_to_investment_account convert: nothing an upstream sends makes a  *)
(* file unreadable.                                                        *)
(***************************************************************************)
TypeOK ==
    /\ \A p \in Paths :
         files[p] # Absent =>
           files[p] \in (IF p[1] = "accounts" THEN CashFile ELSE InvestmentFile)
    /\ \A p \in Paths : positions[p] # Absent => positions[p] \subseteq SecurityId
    /\ securities \subseteq SecurityId
    /\ scan.at \in Kinds \cup {"none", "securities", "done"}
    /\ scan.dirs \subseteq Conns
    /\ meanwhile \subseteq {"answer", "removal"}
    /\ \A x \in repeats : x[1] \in Paths

-----------------------------------------------------------------------------
(***************************************************************************)
(* SimpleFIN: decoding and normalising.                                    *)
(***************************************************************************)

\* str(Decimal(s.strip())) for a class of amounts that Decimal accepts.
Amount(s) == IF s = "padded" THEN "cents" ELSE s

SimplefinTransaction ==
    [id : STRING, posted : {"day", "zero", "wild", "bad", "null"},
     amount : {"cents", "padded", "other", "bad", "null"},
     text : {"short", "long", "null"},
     transacted : {"day", "zero", "wild", "bad", "null"}]

SimplefinAccount ==
    [id : STRING, name : STRING, currency : {"iso", "lower", ""},
     balance : {"cents", "padded", "other", "bad", "null"},
     available : {"cents", "padded", "other", "bad", "null"},
     date : {"day", "zero", "wild", "bad", "null"},
     sfin : STRING, domain : STRING, txns : Seq(SimplefinTransaction)]

DecodableTransaction(t) == t.amount \notin {"bad", "null"}
                           /\ t.posted \notin {"bad", "null"}
                           /\ t.transacted # "bad"

DecodableAccount(a) ==
    /\ a.balance \notin {"bad", "null"}
    /\ a.available # "bad"
    /\ a.date \notin {"bad", "null"}
    /\ \A i \in DOMAIN a.txns : DecodableTransaction(a.txns[i])

\* Mutant: the available balance is not looked at.
DecodableButForAvailable(answer) ==
    \A i \in DOMAIN answer :
      DecodableAccount([answer[i] EXCEPT !.available = "null"])

\* _decode raises on the first field that is not what it should be.
Decodable(answer) == \A i \in DOMAIN answer : DecodableAccount(answer[i])

DecodeTransaction(t) ==
    [id |-> t.id, posted |-> t.posted, amount |-> Amount(t.amount),
     text |-> t.text, transacted |-> t.transacted]

NormalizeConnId(c) == IF c = "" THEN "_unknown" ELSE c

\* _decode, _to_account.
DecodeAccount(a) ==
    [path |-> <<"accounts",
                NormalizeConnId(IF a.sfin # "" THEN a.sfin ELSE a.domain),
                Display(a.name)>>,
     id |-> a.id, name |-> a.name, currency |-> a.currency,
     balance |-> Amount(a.balance), available |-> Amount(a.available),
     date |-> a.date,
     conn |-> IF a.sfin # "" THEN a.sfin ELSE a.domain,
     txns |-> [i \in DOMAIN a.txns |-> DecodeTransaction(a.txns[i])]]

-----------------------------------------------------------------------------
(***************************************************************************)
(* SnapTrade: what cannot be decoded has a substitute, so nothing raises.  *)
(***************************************************************************)

Symbol == [figi : STRING, cusip : STRING, isin : STRING, ticker : STRING]

Activity ==
    [id : STRING, date : {"day", "bad", "null"}, type : {"known", "other", "null"},
     symbol : Symbol \cup {Absent}]

SnaptradeAccount ==
    [id : STRING, name : STRING, number : STRING, slug : STRING,
     activities : Seq(Activity), positions : Seq(Symbol \cup {Absent})]

PickSecurityId(sym) ==
    IF sym.figi # "" THEN [uid |-> sym.figi, type |-> "FIGI"]
    ELSE IF sym.cusip # "" THEN [uid |-> sym.cusip, type |-> "CUSIP"]
    ELSE IF sym.isin # "" THEN [uid |-> sym.isin, type |-> "ISIN"]
    ELSE [uid |-> sym.ticker, type |-> "TICKER"]

\* Mutant: a date that does not parse stays None.
NormalizeActivityLoosely(act) ==
    [id |-> act.id,
     trade_date |-> IF act.date = "day" THEN "day" ELSE "null",
     trntype |-> IF act.type = "known" THEN "known" ELSE "OTHER"]

\* _decode_activity, _normalize_activity.
NormalizeActivity(act) ==
    [id |-> act.id,
     trade_date |-> IF act.date = "day" THEN "day" ELSE "zero",
     trntype |-> IF act.type = "known" THEN "known" ELSE "OTHER"]

\* The symbols of the positions; a position without one is dropped.
Symbols(a) == {a.positions[i] : i \in DOMAIN a.positions} \ {Absent}

SymbolsOf(a) ==
    Symbols(a) \cup ({a.activities[i].symbol : i \in DOMAIN a.activities} \ {Absent})

Held(a) == {PickSecurityId(sym) : sym \in Symbols(a)}

\* all_symbols, as the keys of the registry.
Registered(answer) ==
    {PickSecurityId(sym) : sym \in UNION {SymbolsOf(answer[i]) : i \in DOMAIN answer}}

NormalizeAccount(a) ==
    [path |-> <<"investment", NormalizeConnId(a.slug),
                Display(IF a.name # "" THEN a.name ELSE a.number)>>,
     id |-> a.id, name |-> IF a.name # "" THEN a.name ELSE a.number,
     broker |-> NormalizeConnId(a.slug), conn |-> NormalizeConnId(a.slug),
     txns |-> [i \in DOMAIN a.activities |-> NormalizeActivity(a.activities[i])]]

-----------------------------------------------------------------------------
(***************************************************************************)
(* merge_chunk: the files it writes, one after the other.                  *)
(***************************************************************************)

Write(what, path, content) == [what |-> what, path |-> path, content |-> content]
Registry == <<"securities">>

CashWrites(answer) ==
    [i \in DOMAIN answer |->
        Write("account", DecodeAccount(answer[i]).path, DecodeAccount(answer[i]))]

\* Of each account its file, then its positions; the registry last.
InvestmentWrites(answer) ==
    LET account(n) == NormalizeAccount(answer[(n + 1) \div 2])
    IN  [n \in 1..(2 * Len(answer)) |->
            IF n % 2 = 1
            THEN Write("account", account(n).path, account(n))
            ELSE Write("positions", account(n).path, Held(answer[n \div 2]))]
        \o IF Registered(answer) = {} THEN <<>>
           ELSE <<Write("securities", Registry, Registered(answer))>>

IdsOf(txns) == {txns[i].id : i \in DOMAIN txns}

\* Mutant: a transaction that comes again takes the place of the stored one.
AddRevising(stored, txns) ==
    SelectSeq(stored, LAMBDA t : t.id \notin IdsOf(txns)) \o txns

\* Mutant: whatever the window brings is added.
AddAll(stored, txns) == stored \o txns

\* Those of txns whose indices are taken, in their order.
Picked(txns, taken) ==
    LET picked[n \in 0..Len(txns)] ==
          IF n = 0 THEN <<>>
          ELSE IF n \in taken THEN Append(picked[n - 1], txns[n])
          ELSE picked[n - 1]
    IN  picked[Len(txns)]

NewTo(stored, txns) == {i \in DOMAIN txns : txns[i].id \notin IdsOf(stored)}

\* What a cash merge adds; repeats within the answer are not looked for.
AddCash(stored, txns) == stored \o Picked(txns, NewTo(stored, txns))

\* What an investment merge adds; of the entries of one id the first is taken.
AddInvestment(stored, txns) ==
    LET new == NewTo(stored, txns)
        first == {i \in new : \A j \in new : j < i => txns[j].id # txns[i].id}
    IN  stored \o Picked(txns, first)

\* Name and currency stay as they were first written.
MergeCash(old, new) ==
    IF old = Absent THEN new
    ELSE [old EXCEPT !.id = new.id, !.conn = new.conn,
                     !.balance = new.balance, !.available = new.available,
                     !.date = new.date,
                     !.txns = AddCash(old.txns, new.txns)]

MergeInvestment(old, new) ==
    [new EXCEPT !.txns = AddInvestment(IF old = Absent THEN <<>> ELSE old.txns, new.txns)]

(***************************************************************************)
(* The answers are of these classes, and Conns and Displays have what      *)
(* becomes of the connections and names in them.                           *)
(***************************************************************************)
ASSUME RecordsAssumption ==
    /\ \A answer \in SimplefinAnswers :
         /\ answer \in Seq(SimplefinAccount)
         /\ \A i \in DOMAIN answer : DecodeAccount(answer[i]).path \in Paths
    /\ \A answer \in SnaptradeAnswers :
         /\ answer \in Seq(SnaptradeAccount)
         /\ \A i \in DOMAIN answer : /\ NormalizeAccount(answer[i]).path \in Paths
                                     /\ Held(answer[i]) # Absent
    /\ Absent \notin STRING \cup CashFile \cup InvestmentFile
    /\ Bounded \in BOOLEAN

\* Ids that one answer gives to several transactions of a cash account.
RepeatedIn(txns) ==
    {id \in IdsOf(txns) : \E i, j \in DOMAIN txns : i < j /\ txns[i].id = id
                                                          /\ txns[j].id = id}

\* The writer begins what the walk in progress, if any, may meet.
Begin(what) ==
    /\ Bounded => what \notin meanwhile
    /\ meanwhile' = IF scan.at = "none" THEN {} ELSE meanwhile \cup {what}

\* The answer for one window: one that cannot be decoded is not merged at all.
AnswerSimplefin(answer) ==
    /\ todo = <<>>
    /\ Decodable(answer)
    /\ todo' = CashWrites(answer)
    /\ repeats' = repeats \cup
         UNION {{DecodeAccount(answer[i]).path} \X RepeatedIn(answer[i].txns) :
                  i \in DOMAIN answer}
    /\ Begin("answer")
    /\ UNCHANGED <<disk, scan, report>>

AnswerSnaptrade(answer) ==
    /\ todo = <<>>
    /\ todo' = InvestmentWrites(answer)
    /\ Begin("answer")
    /\ UNCHANGED <<disk, scan, report, repeats>>

\* _atomic_write_json of the next file: its temporary file takes its place.
WriteNext ==
    LET w == Head(todo)
    IN  /\ todo # <<>>
        /\ todo' = Tail(todo)
        /\ temps' = temps \ {<<w.what, w.path>>}
        /\ \/ /\ w.what = "account"
              /\ files' = [files EXCEPT ![w.path] =
                             IF w.path[1] = "accounts"
                             THEN MergeCash(files[w.path], w.content)
                             ELSE MergeInvestment(files[w.path], w.content)]
              /\ UNCHANGED <<positions, securities>>
           \/ /\ w.what = "positions"
              /\ positions' = [positions EXCEPT ![w.path] = w.content]
              /\ UNCHANGED <<files, securities>>
           \/ /\ w.what = "securities"
              /\ securities' = securities \cup w.content
              /\ UNCHANGED <<files, positions>>
        /\ UNCHANGED <<scan, report, meanwhile, repeats>>

\* The process dies, before a temporary file is begun or before it is renamed.
Crash ==
    /\ todo # <<>>
    /\ todo' = <<>>
    /\ temps' \in {temps, temps \cup {<<Head(todo).what, Head(todo).path>>}}
    /\ UNCHANGED <<files, positions, securities, scan, report, meanwhile, repeats>>

\* One file that a reset, which may be cut short, takes away.
RemoveFile ==
    /\ todo = <<>>
    /\ \/ \E p \in Paths : /\ files[p] # Absent
                           /\ files' = [files EXCEPT ![p] = Absent]
                           /\ repeats' = {x \in repeats : x[1] # p}
                           /\ UNCHANGED <<positions, securities>>
       \/ \E p \in Paths : /\ positions[p] # Absent
                           /\ positions' = [positions EXCEPT ![p] = Absent]
                           /\ UNCHANGED <<files, securities, repeats>>
       \/ /\ securities # {}
          /\ securities' = {}
          /\ UNCHANGED <<files, positions, repeats>>
    /\ Begin("removal")
    /\ UNCHANGED <<temps, todo, scan, report>>

-----------------------------------------------------------------------------
(***************************************************************************)
(* The rules of validate.py, each named as there and true when broken.     *)
(***************************************************************************)
Broken(rules) == {rule \in DOMAIN rules : rules[rule]}

ACCOUNT_RULES(f) ==
    [acct_id_nonempty               |-> f.id = "",
     acct_name_nonempty             |-> f.name = "",
     acct_currency_iso              |-> f.currency = "lower",
     acct_balance_decimal           |-> f.balance # "cents",
     acct_available_balance_decimal |-> f.available \notin {"cents", "null"},
     acct_balance_date_epoch        |-> f.date # "day",
     acct_conn_id_nonempty          |-> f.conn = ""]

TRANSACTION_RULES(t) ==
    [txn_id_nonempty         |-> t.id = "",
     txn_posted_epoch        |-> t.posted # "day",
     txn_amount_decimal      |-> t.amount # "cents",
     txn_texts_string        |-> t.text # "short",
     txn_transacted_at_epoch |-> t.transacted \notin {"day", "null"}]

InvestmentAccountRules(f) ==
    [inv_acct_id_nonempty        |-> f.id = "",
     inv_acct_name_nonempty      |-> f.name = "",
     inv_acct_broker_id_nonempty |-> f.broker = "",
     inv_acct_conn_id_nonempty   |-> f.conn = ""]

InvestmentTransactionRules(t) ==
    [inv_txn_id_nonempty      |-> t.id = "",
     inv_txn_trntype_nonempty |-> t.trntype = "",
     inv_txn_trade_date_int   |-> t.trade_date = "null"]

Violation(what, path, txn, rule) ==
    [what |-> what, path |-> path, txn |-> txn, rule |-> rule]

\* Ids that a file holds more than once; empty ones are not compared.
Repeated(txns) == RepeatedIn(txns) \ {""}

Faults(p, txn, rules) == {Violation("account", p, txn, rule) : rule \in Broken(rules)}

Twice(p, txns, unique) == {Violation("account", p, id, unique) : id \in Repeated(txns)}

validate_account_file(p, f) ==
    Faults(p, Absent, ACCOUNT_RULES(f))
    \cup (UNION {Faults(p, f.txns[i].id, TRANSACTION_RULES(f.txns[i])) :
                   i \in DOMAIN f.txns})
    \cup Twice(p, f.txns, "txn_ids_unique_within_account")

validate_investment_account_file(p, f) ==
    Faults(p, Absent, InvestmentAccountRules(f))
    \cup (UNION {Faults(p, f.txns[i].id, InvestmentTransactionRules(f.txns[i])) :
                   i \in DOMAIN f.txns})
    \cup Twice(p, f.txns, "inv_txn_ids_unique")

validate_positions_file(p, held) ==
    IF \E s \in held : s.uid = ""
    THEN {Violation("positions", p, Absent, "pos_security_id_nonempty")} ELSE {}

validate_securities_file(registry) ==
    IF \E s \in registry : s.uid = ""
    THEN {Violation("securities", Registry, Absent, "sec_uniqueid_nonempty")} ELSE {}

json_parse(what, p) == {Violation(what, p, Absent, "json_parse")}

\* What a file is found guilty of; one that cannot be opened, too.
Verdict(what, p) ==
    CASE what = "account" /\ files[p] # Absent ->
           IF p[1] = "accounts" THEN validate_account_file(p, files[p])
           ELSE validate_investment_account_file(p, files[p])
      [] what = "positions" /\ positions[p] # Absent ->
           validate_positions_file(p, positions[p])
      [] what = "securities" /\ securities # {} ->
           validate_securities_file(securities)
      [] OTHER -> json_parse(what, p)

\* All that is wrong with the directory at this moment.
Violations ==
    (UNION {Verdict("account", p) : p \in {q \in Paths : files[q] # Absent}})
    \cup (UNION {Verdict("positions", p) : p \in {q \in Paths : positions[q] # Absent}})
    \cup IF securities = {} THEN {} ELSE Verdict("securities", Registry)

-----------------------------------------------------------------------------
(***************************************************************************)
(* validate_cache: a walk of the two subtrees, connection by connection,   *)
(* then the registry.                                                      *)
(***************************************************************************)
NoScan == [at |-> "none", dirs |-> {}, left |-> {}]

\* Mutant: temporary files are listed with the others.
GlobWithTemps(kind, c) ==
    {<<"account", p>> : p \in {q \in Paths : q[1] = kind /\ q[2] = c /\ files[q] # Absent}}
    \cup {<<"positions", p>> :
            p \in {q \in Paths : q[1] = kind /\ q[2] = c /\ positions[q] # Absent}}
    \cup {<<"temp", x[2]>> : x \in {y \in temps : y[2][1] = kind}}

\* conn_dir.glob("*.json"): x.json.tmp is none of them.
Glob(kind, c) ==
    {<<"account", p>> : p \in {q \in Paths : q[1] = kind /\ q[2] = c /\ files[q] # Absent}}
    \cup {<<"positions", p>> :
            p \in {q \in Paths : q[1] = kind /\ q[2] = c /\ positions[q] # Absent}}

\* A directory may be there without a file.
Walk(kind) ==
    \E dirs \in SUBSET Conns :
      /\ {c \in Conns : Glob(kind, c) # {}} \subseteq dirs
      /\ scan' = [at |-> kind, dirs |-> dirs, left |-> {}]

StartValidate ==
    /\ scan.at = "none"
    /\ Walk("accounts")
    /\ UNCHANGED <<disk, todo, report, meanwhile, repeats>>

\* They are sorted; every order is taken.
ListConnection ==
    /\ scan.at \in Kinds /\ scan.left = {}
    /\ \E c \in scan.dirs :
         scan' = [scan EXCEPT !.dirs = @ \ {c}, !.left = Glob(scan.at, c)]
    /\ UNCHANGED <<disk, todo, report, meanwhile, repeats>>

ValidateFile ==
    /\ scan.at \in Kinds
    /\ \E f \in scan.left :
         /\ report' = report \cup Verdict(f[1], f[2])
         /\ scan' = [scan EXCEPT !.left = @ \ {f}]
    /\ UNCHANGED <<disk, todo, meanwhile, repeats>>

EndSubtree ==
    /\ scan.at \in Kinds /\ scan.left = {} /\ scan.dirs = {}
    /\ IF scan.at = "accounts" THEN Walk("investment")
       ELSE scan' = [scan EXCEPT !.at = "securities"]
    /\ UNCHANGED <<disk, todo, report, meanwhile, repeats>>

ValidateRegistry ==
    /\ scan.at = "securities"
    /\ report' = IF securities = {} THEN report
                 ELSE report \cup Verdict("securities", Registry)
    /\ scan' = [scan EXCEPT !.at = "done"]
    /\ UNCHANGED <<disk, todo, meanwhile, repeats>>

\* The violations are printed; what is scanned next begins afresh.
TakeReport ==
    /\ scan.at = "done"
    /\ scan' = NoScan
    /\ report' = {}
    /\ meanwhile' = {}
    /\ UNCHANGED <<disk, todo, repeats>>

ScanStep ==
    \/ StartValidate
    \/ ListConnection
    \/ ValidateFile
    \/ EndSubtree
    \/ ValidateRegistry
    \/ TakeReport

\* The writer, another process; once the report is out it is of no concern.
WriterStep ==
    /\ scan.at # "done"
    /\ \/ \E answer \in SimplefinAnswers : AnswerSimplefin(answer)
       \/ \E answer \in SnaptradeAnswers : AnswerSnaptrade(answer)
       \/ WriteNext
       \/ Crash
       \/ RemoveFile

\* The history of the scan in progress.
Watch ==
    \/ /\ scan'.at = "none"
       /\ always' = {} /\ sometimes' = {}
    \/ /\ scan'.at # "none" /\ scan.at = "none"
       /\ always' = Violations' /\ sometimes' = Violations'
    \/ /\ scan'.at # "none" /\ scan.at # "none"
       /\ always' = always \cap Violations'
       /\ sometimes' = sometimes \cup Violations'

Init ==
    /\ files = [p \in Paths |-> Absent]
    /\ positions = [p \in Paths |-> Absent]
    /\ securities = {}
    /\ temps = {}
    /\ todo = <<>>
    /\ scan = NoScan
    /\ report = {}
    /\ always = {} /\ sometimes = {}
    /\ meanwhile = {}
    /\ repeats = {}

Next == (ScanStep \/ WriterStep) /\ Watch

Spec == Init /\ [][Next]_vars

-----------------------------------------------------------------------------
(***************************************************************************)
(* Properties.                                                             *)
(***************************************************************************)

(***************************************************************************)
(* "check all stored files for integrity violations" (running-locally.md,  *)
(* 132), while a fetch or a reset is at work: the report names all that was*)
(* wrong throughout the walk, and nothing that never was, a file replaced  *)
(* or a temporary file left by a crash included.  Only a file that a reset *)
(* takes away between the listing and the read is reported for no fault.   *)
(***************************************************************************)
ReportFaithful ==
    scan.at = "done" =>
      /\ always \subseteq report
      /\ {v \in report : v.rule # "json_parse"} \subseteq sometimes
      /\ (\E v \in report : v.rule = "json_parse") => "removal" \in meanwhile

(***************************************************************************)
(* The rules about what the program itself supplies are never broken,      *)
(* whatever the upstreams leave out, repeat or misspell: the normalised    *)
(* connection, the transaction type, the trade date, and one entry per id  *)
(* of an investment account.                                               *)
(***************************************************************************)
OwnRules ==
    {"inv_acct_broker_id_nonempty", "inv_acct_conn_id_nonempty",
     "inv_txn_trntype_nonempty", "inv_txn_trade_date_int", "inv_txn_ids_unique"}

OwnRulesHold == \A v \in Violations : v.rule \notin OwnRules

(***************************************************************************)
(* A transaction id that a cash file holds twice came twice in one answer: *)
(* windows that overlap, fetches that are repeated and accounts that share *)
(* a file never double one (merge_chunk looks for the ids of the file, not  *)
(* for those of the batch).                                                *)
(***************************************************************************)
DuplicatesFromOneAnswer ==
    \A p \in Paths :
      p[1] = "accounts" /\ files[p] # Absent =>
        \A id \in Repeated(files[p].txns) : <<p, id>> \in repeats

(***************************************************************************)
(* The verdict on a stored transaction is final: no later answer, repeated *)
(* or revised, heals it or worsens it.  Only a reset does away with it.    *)
(***************************************************************************)
VerdictOn(p, id) ==
    {v.rule : v \in {x \in Verdict("account", p) : x.txn = id}}

VerdictSticks ==
    [][\A p \in Paths :
         files[p] # Absent /\ files'[p] # Absent =>
           \A id \in IdsOf(files[p].txns) : VerdictOn(p, id)' = VerdictOn(p, id)]_files
=============================================================================
