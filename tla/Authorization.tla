--------------------------- MODULE Authorization ---------------------------
(***************************************************************************)
(* Logging in to Telegram: the auth operations of the Telethon backend,    *)
(* asked for one at a time by a host in any order, or by the authorize     *)
(* script in its own.  An operation may raise before Telegram did what was *)
(* asked, or after, when its reply is lost.                                *)
(*                                                                         *)
(* A value that may be missing is a set of at most one element.            *)
(***************************************************************************)
EXTENDS Naturals

CONSTANTS
    Phones,       \* phone numbers
    MaxCodes,     \* codes that Telegram sends
    MaxRequests   \* operations that the host asks for

ASSUME AuthAssumption == MaxCodes \in Nat /\ MaxRequests \in Nat

VARIABLES
    account,           \* Telegram: whether the session is authorized
    sent,              \* Telegram: the latest code, [phone, number]
    locked,            \* Telegram: the code was right, the password is missing
    codes,             \* Telegram: codes sent so far
    twoFactor,         \* Telegram: the account has a password
    authPhone,         \* _auth_phone
    phoneCodeHash,     \* _phone_code_hash: names the code that was sent
    passwordRequired,  \* _password_required
    answer,            \* the last answer
    lost,              \* history: a reply of Telegram was lost
    script,            \* where authorize is, "host" when a host asks instead
    requests           \* operations the host asked for

telegram == <<account, sent, locked, codes>>
backend == <<authPhone, phoneCodeHash, passwordRequired>>
authVars == <<telegram, twoFactor, backend, answer, lost, script, requests>>

ScriptAt == {"status", "phone", "code", "password"}
Drivers == ScriptAt \cup {"host", "exit 0", "exit 1", "exit 2"}

Status == [kind : {"status"}, authorized : BOOLEAN, password : BOOLEAN]
Failure == [kind |-> "error"]
CodeSent == [kind |-> "sent"]

AuthTypeOK ==
    /\ account \in BOOLEAN /\ locked \in BOOLEAN /\ twoFactor \in BOOLEAN
    /\ codes \in 0..MaxCodes
    /\ sent \in SUBSET [phone : Phones, number : 1..MaxCodes]
    /\ authPhone \in SUBSET Phones
    /\ phoneCodeHash \in SUBSET [phone : Phones, number : 1..MaxCodes]
    /\ passwordRequired \in BOOLEAN /\ lost \in BOOLEAN
    /\ answer \in Status \cup {Failure, CodeSent}
    /\ script \in Drivers
    /\ requests \in 0..MaxRequests

AuthInit ==
    /\ account \in BOOLEAN /\ twoFactor \in BOOLEAN
    /\ sent = {} /\ locked = FALSE /\ codes = 0
    /\ authPhone \in {{}} \cup {{p} : p \in Phones}  \* config.phone
    /\ phoneCodeHash = {} /\ passwordRequired = FALSE
    /\ answer = Failure /\ lost = FALSE
    /\ script \in {"status", "host"} /\ requests = 0

(***************************************************************************)
(* What an operation does to the caller.  The script goes on, or exits.    *)
(***************************************************************************)
ScriptNext(s) ==
    CASE s.kind = "error"                      -> "exit 2"
      [] s.kind = "sent"                       -> "code"
      [] s.kind = "status" /\ s.authorized     -> "exit 0"
      [] s.kind = "status" /\ script = "status" -> "phone"
      [] s.kind = "status" /\ script = "code" /\ s.password -> "password"
      [] OTHER                                 -> "exit 1"

Asks(stage) ==
    \/ script = stage /\ UNCHANGED requests
    \/ script = "host" /\ requests < MaxRequests /\ requests' = requests + 1

Tells(s) ==
    /\ answer' = s
    /\ script' = IF script = "host" THEN "host" ELSE ScriptNext(s)

\* An operation that raises: before it reached Telegram, or its argument is empty.
Fails(stage) ==
    /\ Asks(stage) /\ Tells(Failure)
    /\ UNCHANGED <<telegram, twoFactor, backend, lost>>

StatusOf(authorized, flag) ==
    [kind |-> "status", authorized |-> authorized, password |-> flag /\ ~authorized]

AuthStatus ==
    /\ Asks("status") /\ Tells(StatusOf(account, passwordRequired))
    /\ UNCHANGED <<telegram, twoFactor, backend, lost>>
-----------------------------------------------------------------------------
\* Telegram: send_code_request invalidates the code before.
SendsCode(p) ==
    /\ codes < MaxCodes
    /\ codes' = codes + 1
    /\ sent' = {[phone |-> p, number |-> codes']}
    /\ locked' = FALSE
    /\ UNCHANGED <<account, twoFactor>>

SendCodeKeepsFlag(p) ==  \* Mutant: the new login keeps the old one's flag.
    /\ Asks("phone") /\ SendsCode(p)
    /\ authPhone' = {p}
    /\ phoneCodeHash' = sent'
    /\ Tells(CodeSent)
    /\ UNCHANGED <<passwordRequired, lost>>

\* The phone that is asked for, or else the one of an earlier request.
SendCode(p) ==
    /\ Asks("phone") /\ SendsCode(p)
    /\ authPhone' = {p}
    /\ phoneCodeHash' = sent'
    /\ passwordRequired' = FALSE
    /\ Tells(CodeSent)
    /\ UNCHANGED lost

SendCodeLost(p) ==
    /\ Asks("phone") /\ SendsCode(p)
    /\ lost' = TRUE
    /\ Tells(Failure)
    /\ UNCHANGED backend

\* Telethon: sign_in asks Telegram nothing when the session is authorized.
SignedInBefore == account /\ UNCHANGED <<telegram, twoFactor>>

\* Telegram: a code is taken with its own hash, and only the latest one.
TakesCode ==
    /\ ~account
    /\ phoneCodeHash # {} /\ phoneCodeHash = sent
    /\ \A c \in sent : authPhone = {c.phone}
    /\ locked' = twoFactor /\ account' = ~twoFactor
    /\ UNCHANGED <<sent, codes, twoFactor>>

\* Signed in; the status asked for next may fail although the code was taken.
SubmitCode ==
    /\ Asks("code") /\ authPhone # {}
    /\ SignedInBefore \/ (TakesCode /\ ~twoFactor)
    /\ passwordRequired' = FALSE
    /\ Tells(StatusOf(account', FALSE)) \/ Tells(Failure)
    /\ UNCHANGED <<authPhone, phoneCodeHash, lost>>

PasswordNeeded ==
    /\ Asks("code") /\ TakesCode /\ twoFactor
    /\ passwordRequired' = TRUE
    /\ Tells(StatusOf(FALSE, TRUE))
    /\ UNCHANGED <<authPhone, phoneCodeHash, lost>>

SubmitCodeLost ==
    /\ Asks("code") /\ TakesCode
    /\ lost' = TRUE
    /\ Tells(Failure)
    /\ UNCHANGED backend

TakesPassword ==
    /\ ~account /\ locked
    /\ locked' = FALSE /\ account' = TRUE
    /\ UNCHANGED <<sent, codes, twoFactor>>

SubmitPassword ==
    /\ Asks("password")
    /\ SignedInBefore \/ TakesPassword
    /\ passwordRequired' = FALSE
    /\ Tells(StatusOf(account', FALSE)) \/ Tells(Failure)
    /\ UNCHANGED <<authPhone, phoneCodeHash, lost>>

SubmitPasswordLost ==
    /\ Asks("password") /\ TakesPassword
    /\ lost' = TRUE
    /\ Tells(Failure)
    /\ UNCHANGED backend

OperationFails == \E stage \in ScriptAt : Fails(stage)

AuthNext ==
    \/ AuthStatus \/ OperationFails
    \/ \E p \in Phones : SendCode(p) \/ SendCodeLost(p)
    \/ SubmitCode \/ PasswordNeeded \/ SubmitCodeLost
    \/ SubmitPassword \/ SubmitPasswordLost

AuthSpec == AuthInit /\ [][AuthNext]_authVars
-----------------------------------------------------------------------------
(***************************************************************************)
(* A code is submitted with the phone it was sent to, also after requests  *)
(* that failed, and nobody is told that he is authorized, or asked for the *)
(* password, when Telegram sees it otherwise (a lost reply may leave       *)
(* _password_required behind).                                             *)
(***************************************************************************)
CodeOfPhone == \A c \in phoneCodeHash : authPhone = {c.phone}

LoginConsistent ==
    /\ CodeOfPhone
    /\ answer.kind = "status" =>
         /\ answer.authorized => account
         /\ answer.password => ~answer.authorized /\ (locked \/ lost)

\* The authorize script exits with 0 only when the session is authorized.
AuthorizeExitTells == script = "exit 0" => account
=============================================================================
