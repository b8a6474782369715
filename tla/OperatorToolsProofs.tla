------------------------ MODULE OperatorToolsProofs ------------------------
(***************************************************************************)
(* Theorems about Authorization, for every set of phones and any number of *)
(* codes and requests, and about the exit codes of both commands in the    *)
(* composition of the tools.                                               *)
(***************************************************************************)
EXTENDS MCOperatorTools, OperatorExportProofs, TLAPS

(***************************************************************************)
(* The answers.                                                            *)
(***************************************************************************)
LEMMA AnswerFacts ==
    /\ Failure.kind = "error" /\ CodeSent.kind = "sent"
    /\ \A a, f \in BOOLEAN :
         LET s == StatusOf(a, f)
         IN  s \in Status /\ s.kind = "status" /\ s.authorized = a /\ s.password = (f /\ ~a)
  BY DEF Failure, CodeSent, StatusOf, Status

\* The script goes on within its stages, and to its good end only by a status that is authorized.
LEMMA ScriptFacts ==
    ASSUME NEW s \in Status \cup {Failure, CodeSent}, script \in Drivers, Tells(s)
    PROVE  /\ answer' = s
           /\ script' \in Drivers
           /\ script # "host" /\ script' = "exit 0" => s.kind = "status" /\ s.authorized
           /\ script = "host" => script' = "host"
  <1>1. s.kind \in {"error", "sent", "status"}
    BY DEF Failure, CodeSent, Status
  <1>2. ScriptNext(s) \in Drivers
    BY <1>1 DEF ScriptNext, Drivers, ScriptAt
  <1>3. ScriptNext(s) = "exit 0" => s.kind = "status" /\ s.authorized
    BY <1>1 DEF ScriptNext
  <1> QED
    BY <1>2, <1>3 DEF Tells, Drivers

LEMMA AsksFacts ==
    ASSUME AuthTypeOK, NEW stage, Asks(stage)
    PROVE  requests' \in 0..MaxRequests
  BY AuthAssumption DEF Asks, AuthTypeOK

\* Telegram's part of a step, and what it leaves.
LEMMA TelegramFacts ==
    ASSUME AuthTypeOK,
           \/ UNCHANGED <<telegram, twoFactor>>
           \/ \E p \in Phones : SendsCode(p)
           \/ TakesCode
           \/ TakesPassword
    PROVE  /\ account' \in BOOLEAN /\ locked' \in BOOLEAN /\ twoFactor' \in BOOLEAN
           /\ codes' \in 0..MaxCodes
           /\ sent' \in SUBSET [phone : Phones, number : 1..MaxCodes]
           /\ account => account'
  <1>1. CASE UNCHANGED <<telegram, twoFactor>>
    BY <1>1 DEF AuthTypeOK, telegram
  <1>2. ASSUME NEW p \in Phones, SendsCode(p)
        PROVE  /\ codes' \in 0..MaxCodes
               /\ sent' \in SUBSET [phone : Phones, number : 1..MaxCodes]
    <2>1. codes' \in 1..MaxCodes
      BY <1>2, AuthAssumption DEF SendsCode, AuthTypeOK
    <2>2. [phone |-> p, number |-> codes'] \in [phone : Phones, number : 1..MaxCodes]
      BY <2>1
    <2> QED
      BY <1>2, <2>1, <2>2 DEF SendsCode
  <1>3. CASE \E p \in Phones : SendsCode(p)
    <2>1. PICK p \in Phones : SendsCode(p)
      BY <1>3
    <2>2. /\ codes' \in 0..MaxCodes
          /\ sent' \in SUBSET [phone : Phones, number : 1..MaxCodes]
      BY <1>2, <2>1
    <2> QED
      BY <2>1, <2>2 DEF SendsCode, AuthTypeOK
  <1>4. CASE TakesCode
    BY <1>4 DEF TakesCode, AuthTypeOK
  <1>5. CASE TakesPassword
    BY <1>5 DEF TakesPassword, AuthTypeOK
  <1> QED
    BY <1>1, <1>3, <1>4, <1>5
-----------------------------------------------------------------------------
(***************************************************************************)
(* Type correctness.                                                       *)
(***************************************************************************)
LEMMA AuthTypeInit == AuthInit => AuthTypeOK
  <1> SUFFICES ASSUME AuthInit PROVE AuthTypeOK
    OBVIOUS
  <1>1. authPhone \in SUBSET Phones
    BY DEF AuthInit
  <1>2. codes \in 0..MaxCodes /\ requests \in 0..MaxRequests
    BY AuthAssumption DEF AuthInit
  <1>3. script \in Drivers
    BY DEF AuthInit, Drivers, ScriptAt
  <1> QED
    BY <1>1, <1>2, <1>3 DEF AuthInit, AuthTypeOK

\* A step whose answer and whose effects have their types.
LEMMA AuthStepTyped ==
    ASSUME AuthTypeOK, NEW stage, Asks(stage),
           NEW s \in Status \cup {Failure, CodeSent}, Tells(s),
           \/ UNCHANGED <<telegram, twoFactor>>
           \/ \E p \in Phones : SendsCode(p)
           \/ TakesCode
           \/ TakesPassword,
           authPhone' \in SUBSET Phones,
           phoneCodeHash' \in SUBSET [phone : Phones, number : 1..MaxCodes],
           passwordRequired' \in BOOLEAN, lost' \in BOOLEAN
    PROVE  AuthTypeOK'
  <1>1. script \in Drivers
    BY DEF AuthTypeOK
  <1> QED
    BY <1>1, AsksFacts, ScriptFacts, TelegramFacts DEF AuthTypeOK

LEMMA AuthTypeStep == AuthTypeOK /\ [AuthNext]_authVars => AuthTypeOK'
  <1> SUFFICES ASSUME AuthTypeOK, [AuthNext]_authVars PROVE AuthTypeOK'
    OBVIOUS
  <1> USE DEF backend
  <1>a. /\ authPhone \in SUBSET Phones /\ passwordRequired \in BOOLEAN /\ lost \in BOOLEAN
        /\ phoneCodeHash \in SUBSET [phone : Phones, number : 1..MaxCodes]
        /\ account \in BOOLEAN
    BY DEF AuthTypeOK
  <1>f. Failure \in Status \cup {Failure, CodeSent} /\ CodeSent \in Status \cup {Failure, CodeSent}
    OBVIOUS
  <1>1. CASE AuthStatus
    <2>1. StatusOf(account, passwordRequired) \in Status
      BY <1>a, AnswerFacts
    <2> QED
      BY <1>1, <1>a, <2>1, AuthStepTyped DEF AuthStatus
  <1>2. CASE OperationFails
    BY <1>2, <1>a, <1>f, AuthStepTyped DEF OperationFails, Fails
  <1>3. ASSUME NEW p \in Phones, SendCode(p) PROVE AuthTypeOK'
    <2>1. sent' \in SUBSET [phone : Phones, number : 1..MaxCodes]
      BY <1>3, TelegramFacts DEF SendCode
    <2> QED
      BY <1>3, <1>a, <1>f, <2>1, AuthStepTyped DEF SendCode
  <1>4. ASSUME NEW p \in Phones, SendCodeLost(p) PROVE AuthTypeOK'
    BY <1>4, <1>a, <1>f, AuthStepTyped DEF SendCodeLost
  <1>5. ASSUME account' \in BOOLEAN PROVE StatusOf(account', FALSE) \in Status \cup {Failure, CodeSent}
    BY <1>5, AnswerFacts
  <1>6. CASE SubmitCode
    <2>1. UNCHANGED <<telegram, twoFactor>> \/ TakesCode
      BY <1>6 DEF SubmitCode, SignedInBefore
    <2>2. account' \in BOOLEAN
      BY <2>1, TelegramFacts
    <2>3. PICK s \in {StatusOf(account', FALSE), Failure} : Tells(s)
      BY <1>6 DEF SubmitCode
    <2>4. s \in Status \cup {Failure, CodeSent}
      BY <2>2, <1>5, <1>f
    <2> QED
      BY <1>6, <1>a, <2>1, <2>3, <2>4, AuthStepTyped DEF SubmitCode
  <1>7. CASE PasswordNeeded
    <2>1. StatusOf(FALSE, TRUE) \in Status
      BY AnswerFacts
    <2> QED
      BY <1>7, <1>a, <2>1, AuthStepTyped DEF PasswordNeeded
  <1>8. CASE SubmitCodeLost
    BY <1>8, <1>a, <1>f, AuthStepTyped DEF SubmitCodeLost
  <1>9. CASE SubmitPassword
    <2>1. UNCHANGED <<telegram, twoFactor>> \/ TakesPassword
      BY <1>9 DEF SubmitPassword, SignedInBefore
    <2>2. account' \in BOOLEAN
      BY <2>1, TelegramFacts
    <2>3. PICK s \in {StatusOf(account', FALSE), Failure} : Tells(s)
      BY <1>9 DEF SubmitPassword
    <2>4. s \in Status \cup {Failure, CodeSent}
      BY <2>2, <1>5, <1>f
    <2> QED
      BY <1>9, <1>a, <2>1, <2>3, <2>4, AuthStepTyped DEF SubmitPassword
  <1>10. CASE SubmitPasswordLost
    BY <1>10, <1>a, <1>f, AuthStepTyped DEF SubmitPasswordLost
  <1>11. CASE UNCHANGED authVars
    BY <1>11 DEF authVars, telegram, AuthTypeOK
  <1> QED
    BY <1>1, <1>2, <1>3, <1>4, <1>6, <1>7, <1>8, <1>9, <1>10, <1>11 DEF AuthNext

\* Every variable keeps its type.
THEOREM AuthTypeCorrect == AuthSpec => []AuthTypeOK
  <1> QED
    BY AuthTypeInit, AuthTypeStep, PTL DEF AuthSpec
-----------------------------------------------------------------------------
(***************************************************************************)
(* The login.  The flag tells the truth as long as no reply was lost.      *)
(***************************************************************************)
FlagInv == passwordRequired /\ ~account => locked \/ lost

LoginInv == LoginConsistent /\ FlagInv /\ AuthorizeExitTells

LEMMA LoginInit == AuthInit => LoginInv
  BY AnswerFacts DEF AuthInit, LoginInv, LoginConsistent, CodeOfPhone, FlagInv, AuthorizeExitTells

\* A step that answers s: what has to be known of it.
LEMMA LoginAnswered ==
    ASSUME AuthTypeOK, LoginInv, account => account', NEW stage, Asks(stage),
           NEW s \in Status \cup {Failure, CodeSent}, Tells(s),
           s.kind = "status" => /\ s.authorized => account'
                                /\ s.password => ~s.authorized /\ (locked' \/ lost'),
           CodeOfPhone', FlagInv'
    PROVE  LoginInv'
  <1>1. script \in Drivers
    BY DEF AuthTypeOK
  <1>2. LoginConsistent'
    BY <1>1, ScriptFacts DEF LoginConsistent
  <1>3. CASE script = "host"
    BY <1>1, <1>2, <1>3, ScriptFacts DEF LoginInv, AuthorizeExitTells
  <1>4. CASE script # "host"
    BY <1>1, <1>2, <1>4, ScriptFacts DEF LoginInv, AuthorizeExitTells
  <1> QED
    BY <1>3, <1>4

\* An operation that fails without having changed the backend.
LEMMA LoginFailed ==
    ASSUME AuthTypeOK, LoginInv, NEW stage, Asks(stage), Tells(Failure), UNCHANGED backend,
           account => account',
           (lost' \/ UNCHANGED <<account, locked, lost>>)
    PROVE  LoginInv'
  <1>1. Failure.kind = "error"
    BY AnswerFacts
  <1>2. CodeOfPhone' /\ FlagInv'
    BY DEF LoginInv, LoginConsistent, CodeOfPhone, FlagInv, backend
  <1> QED
    BY <1>1, <1>2, LoginAnswered

\* A sign-in that was told of: the status that follows, or its failure.
LEMMA LoginSignedIn ==
    ASSUME AuthTypeOK, LoginInv, NEW stage, Asks(stage), account', account' \in BOOLEAN,
           Tells(StatusOf(account', FALSE)) \/ Tells(Failure),
           UNCHANGED <<authPhone, phoneCodeHash, lost>>
    PROVE  LoginInv'
  <1>1. CodeOfPhone' /\ FlagInv'
    BY DEF LoginInv, LoginConsistent, CodeOfPhone, FlagInv
  <1>2. CASE Tells(Failure)
    BY <1>1, <1>2, AnswerFacts, LoginAnswered
  <1>3. CASE Tells(StatusOf(account', FALSE))
    <2>1. /\ StatusOf(account', FALSE) \in Status
          /\ StatusOf(account', FALSE).password = (FALSE /\ ~account')
      BY AnswerFacts
    <2>2. ~StatusOf(account', FALSE).password
      BY <2>1
    <2> QED
      BY <1>1, <1>3, <2>1, <2>2, LoginAnswered
  <1> QED
    BY <1>2, <1>3

LEMMA LoginStep == AuthTypeOK /\ AuthTypeOK' /\ LoginInv /\ [AuthNext]_authVars => LoginInv'
  <1> SUFFICES ASSUME AuthTypeOK, AuthTypeOK', LoginInv, [AuthNext]_authVars PROVE LoginInv'
    OBVIOUS
  <1>a. account \in BOOLEAN /\ passwordRequired \in BOOLEAN /\ account' \in BOOLEAN
    BY DEF AuthTypeOK
  <1>b. CodeOfPhone /\ FlagInv
    BY DEF LoginInv, LoginConsistent
  <1>1. CASE AuthStatus
    <2> DEFINE s == StatusOf(account, passwordRequired)
    <2>1. /\ s \in Status /\ s.authorized = account
          /\ s.password = (passwordRequired /\ ~account)
      BY <1>a, AnswerFacts
    <2>2. UNCHANGED <<account, locked, passwordRequired, authPhone, phoneCodeHash, lost>>
      BY <1>1 DEF AuthStatus, telegram, backend
    <2>3. s.password => ~s.authorized /\ (locked' \/ lost')
      BY <2>1, <2>2, <1>b DEF FlagInv
    <2>4. CodeOfPhone' /\ FlagInv'
      BY <2>2, <1>b DEF CodeOfPhone, FlagInv
    <2>5. Asks("status") /\ Tells(s)
      BY <1>1 DEF AuthStatus
    <2> QED
      BY <2>1, <2>2, <2>3, <2>4, <2>5, LoginAnswered
  <1>2. CASE OperationFails
    BY <1>2, LoginFailed DEF OperationFails, Fails, telegram
  <1>3. ASSUME NEW p \in Phones, SendCode(p) PROVE LoginInv'
    <2>1. account => account'
      BY <1>3 DEF SendCode, SendsCode
    <2>2. CodeOfPhone' /\ FlagInv'
      BY <1>3 DEF SendCode, SendsCode, CodeOfPhone, FlagInv
    <2> QED
      BY <1>3, <2>1, <2>2, AnswerFacts, LoginAnswered DEF SendCode
  <1>4. ASSUME NEW p \in Phones, SendCodeLost(p) PROVE LoginInv'
    BY <1>4, LoginFailed DEF SendCodeLost, SendsCode
  <1>5. CASE SubmitCode
    BY <1>5, <1>a, LoginSignedIn DEF SubmitCode, SignedInBefore, TakesCode, telegram
  <1>6. CASE PasswordNeeded
    <2> DEFINE s == StatusOf(FALSE, TRUE)
    <2>1. s \in Status /\ s.authorized = FALSE
      BY AnswerFacts
    <2>2. (account => account') /\ locked'
      BY <1>6, <1>a DEF PasswordNeeded, TakesCode
    <2>3. CodeOfPhone' /\ FlagInv'
      BY <1>6, <2>2, <1>b DEF PasswordNeeded, CodeOfPhone, FlagInv
    <2> QED
      BY <1>6, <2>1, <2>2, <2>3, LoginAnswered DEF PasswordNeeded
  <1>7. CASE SubmitCodeLost
    BY <1>7, LoginFailed DEF SubmitCodeLost, TakesCode
  <1>8. CASE SubmitPassword
    BY <1>8, <1>a, LoginSignedIn DEF SubmitPassword, SignedInBefore, TakesPassword, telegram
  <1>9. CASE SubmitPasswordLost
    BY <1>9, LoginFailed DEF SubmitPasswordLost, TakesPassword
  <1>10. CASE UNCHANGED authVars
    BY <1>10 DEF authVars, telegram, backend, LoginInv, LoginConsistent, CodeOfPhone, FlagInv,
              AuthorizeExitTells
  <1> QED
    BY <1>1, <1>2, <1>3, <1>4, <1>5, <1>6, <1>7, <1>8, <1>9, <1>10 DEF AuthNext

\* However the operations follow each other, fail or lose their replies, the phone, the code and
\* the answers agree with Telegram.
THEOREM LoginAgrees == AuthSpec => []LoginConsistent
  <1>1. AuthSpec => []LoginInv
    BY AuthTypeInit, AuthTypeStep, LoginInit, LoginStep, PTL DEF AuthSpec
  <1>2. LoginInv => LoginConsistent
    BY DEF LoginInv
  <1> QED
    BY <1>1, <1>2, PTL

\* The authorize script exits with 0 only when the session is authorized.
THEOREM AuthorizeTells == AuthSpec => []AuthorizeExitTells
  <1>1. AuthSpec => []LoginInv
    BY AuthTypeInit, AuthTypeStep, LoginInit, LoginStep, PTL DEF AuthSpec
  <1>2. LoginInv => AuthorizeExitTells
    BY DEF LoginInv
  <1> QED
    BY <1>1, <1>2, PTL
-----------------------------------------------------------------------------
(***************************************************************************)
(* The tools together.  A tool that does not run rests.                    *)
(***************************************************************************)
ToolsInv ==
    /\ tool \in {"ask", "export", "authorize", "parse"}
    /\ tool = "export" => ExportInv
    /\ tool # "export" => runs = 0
    /\ tool = "authorize" => AuthTypeOK /\ LoginInv
    /\ tool # "authorize" => script = "host"

LEMMA ToolsInit == Init => ToolsInv
  BY ExportInvInit, AuthTypeInit, LoginInit DEF Init, ToolsInv, ExportRests, AuthRests

LEMMA ToolsStep ==
    ToolsInv /\ [Next]_<<tool, exportVars, authVars, parserVars>> => ToolsInv'
  <1> SUFFICES ASSUME ToolsInv, [Next]_<<tool, exportVars, authVars, parserVars>> PROVE ToolsInv'
    OBVIOUS
  <1> USE DEF ToolsInv
  <1>1. CASE tool = "export" /\ ExportNext /\ UNCHANGED <<tool, authVars, parserVars>>
    BY <1>1, ExportInvStep DEF authVars
  <1>2. CASE tool = "authorize" /\ AuthNext /\ UNCHANGED <<tool, exportVars, parserVars>>
    <2>1. AuthTypeOK'
      BY <1>2, AuthTypeStep
    <2> QED
      BY <1>2, <2>1, LoginStep DEF exportVars
  <1>3. CASE \/ tool = "parse" /\ ParserNext /\ UNCHANGED <<tool, exportVars, authVars>>
             \/ UNCHANGED <<tool, exportVars, authVars>>
    <2>1. UNCHANGED <<tool, exportVars, authVars>>
      BY <1>3
    <2>2. tool = "export" => ExportInv'
      BY <2>1, ExportInvStep
    <2>3. tool = "authorize" => AuthTypeOK' /\ LoginInv'
      BY <2>1, AuthTypeStep, LoginStep
    <2> QED
      BY <2>1, <2>2, <2>3 DEF exportVars, authVars
  <1> QED
    BY <1>1, <1>2, <1>3 DEF Next

\* Whichever command runs, its exit code tells what it left behind: a file as it was or whole, a
\* session that is authorized when the code is 0.
THEOREM ExitsTell == Spec => []ExitCodesTell
  <1>1. ToolsInv => ExportExitTells
    <2>1. ExportInv => ExportExitTells
      BY DEF ExportInv, RunInv, Told, ExportExitTells
    <2>2. runs = 0 => ExportExitTells
      BY DEF ExportExitTells
    <2> QED
      BY <2>1, <2>2 DEF ToolsInv
  <1>2. ToolsInv => AuthorizeExitTells
    <2>1. script = "host" => AuthorizeExitTells
      BY DEF AuthorizeExitTells
    <2> QED
      BY <2>1 DEF ToolsInv, LoginInv
  <1>3. ToolsInv => ExitCodesTell
    BY <1>1, <1>2 DEF ExitCodesTell
  <1> QED
    BY <1>3, ToolsInit, ToolsStep, PTL DEF Spec
=============================================================================
