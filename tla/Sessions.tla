------------------------------ MODULE Sessions ------------------------------
(***************************************************************************)
(* IdentityService and AuthService of core-api over the document store.    *)
(*                                                                         *)
(* A refresh token is the number of the record it was stored as; records   *)
(* are never removed.  markUsed and revokeFamily read records and write    *)
(* them back whole, across awaits, so each can undo what the other wrote.  *)
(* An email stands for all its spellings: trim and toLowerCase make them   *)
(* one.  Access tokens are stateless and not modelled.                     *)
(***************************************************************************)
EXTENDS Handlers, Sequences, FiniteSets, Functions

CONSTANTS
    Users,           \* the ids randomUUID can hand out, and the users there are
    Emails, Phones,
    MaxTokens,       \* bound on the refresh tokens stored
    MaxExpired       \* bound on those of them that expire

VARIABLES
    users,           \* PersistentIdentityRepository: user -> record, or Null
    registered,      \* history: identity.user_registered.v1 in order
    tokens,          \* PersistentSessionStore: the records in the order stored
    expired,         \* the tokens whose thirty days are over
    held,            \* the tokens a client was answered
    exchanged,       \* history: token -> refreshes that issued a session for it
    replayed         \* history: the families a replay was answered for

sessionVars == <<users, registered, tokens, expired, held, exchanged, replayed>>
identityVars == <<users, registered>>
tokenVars == <<tokens, expired, held, exchanged, replayed>>

Roles == {"consumer", "system_admin"}
privilegedRoles == {"support_agent", "finance_ops", "system_admin"}
User == [email : Emails, phone : Phones, role : Roles]
\* The family of a token is the first token of its login.
Token == [user : Users, family : 1..MaxTokens, used : BOOLEAN, revoked : BOOLEAN]

RegisterCall == [phase : {"findByEmail", "findByPhone", "saveUser", "announce"},
                 subject : Users, user : User]

\* A handler of login and refresh, by where it awaits.
RefreshCall == [phase : {"get", "findToMark", "findById", "listFamily", "answer"},
                subject : 1..MaxTokens, token : 1..MaxTokens]
MarkCall == [phase : {"mark"}, subject : 1..MaxTokens, token : 1..MaxTokens, copy : Token]
RevokeCall == [phase : {"revoke"}, subject : 1..MaxTokens, token : 1..MaxTokens,
               copies : UNION {[copied -> Token] : copied \in SUBSET (1..MaxTokens)}]
LoginCall == [phase : {"login"}, subject : {0}, user : Users]
IssueCall == [phase : {"saveSession"}, subject : 0..MaxTokens, user : Users, token : 0..MaxTokens]
SessionCall == RefreshCall \cup MarkCall \cup RevokeCall \cup LoginCall \cup IssueCall

ASSUME SessionsAssumption ==
    /\ MaxTokens \in Nat /\ MaxExpired \in Nat
    /\ Null \notin User /\ Idle \notin RegisterCall \cup SessionCall

Dead(t) == tokens[t].used \/ tokens[t].revoked \/ t \in expired

Known == {u \in Users : users[u] # Null}

\* Sessions are about a user who registered before.
SessionsInit ==
    /\ \E role \in IF part = "sessions" THEN Roles ELSE {"consumer"} : users = [u \in Users |->
          IF part = "sessions" /\ u = CHOOSE v \in Users : TRUE
          THEN [email |-> CHOOSE e \in Emails : TRUE, phone |-> CHOOSE p \in Phones : TRUE,
                role |-> role]
          ELSE Null]
    /\ registered = <<>>
    /\ tokens = <<>> /\ expired = {} /\ held = {} /\ replayed = {}
    /\ exchanged = [t \in 1..MaxTokens |-> 0]

-----------------------------------------------------------------------------
(* register *)

\* A registration's subject is the id it will save; it overlaps another one
\* that shares its email or its phone.
Register(s, id, user) ==
    /\ id \notin Known
    /\ \A t \in Slots : call[t] # Idle => call[t].subject # id
    /\ BeginBeside(s, [phase |-> "findByEmail", subject |-> id, user |-> user],
           \E t \in Slots : call[t] # Idle /\
               (call[t].user.email = user.email \/ call[t].user.phone = user.phone))
    /\ UNCHANGED sessionVars

FindsEmail(s) ==
    /\ At(s, "findByEmail")
    /\ IF \E u \in Known : users[u].email = call[s].user.email
       THEN Answer(s) ELSE Await(s, "findByPhone")
    /\ UNCHANGED sessionVars

\* Mutant of FindsPhone: only the email is unique.
FindsAnyPhone(s) ==
    /\ At(s, "findByPhone")
    /\ Await(s, "saveUser")
    /\ UNCHANGED sessionVars

FindsPhone(s) ==
    /\ At(s, "findByPhone")
    /\ IF \E u \in Known : users[u].phone = call[s].user.phone
       THEN Answer(s) ELSE Await(s, "saveUser")
    /\ UNCHANGED sessionVars

\* The user is stored and, when the store has answered, announced.
SavesUser(s) ==
    /\ At(s, "saveUser")
    /\ users' = [users EXCEPT ![call[s].subject] = call[s].user]
    /\ Await(s, "announce")
    /\ UNCHANGED <<registered, tokenVars>>

AnnouncesUser(s) ==
    /\ At(s, "announce")
    /\ registered' = Append(registered, call[s].subject)
    /\ Answer(s)
    /\ UNCHANGED <<users, tokenVars>>

-----------------------------------------------------------------------------
(* login, refresh and the sessions they issue *)

\* The subject of a handler is the family it works on, 0 for a login, which has
\* none yet.
Login(s, u) ==
    /\ BeginBeside(s, [phase |-> "login", subject |-> 0, user |-> u], FALSE)
    /\ UNCHANGED sessionVars

\* A password that is right or not, and a code for a privileged user.
Authenticates(s) ==
    /\ At(s, "login")
    /\ \E passwordRight \in BOOLEAN, mfaCode \in {"none", "123456", "other"} :
         IF passwordRight /\ call[s].user \in Known /\ (users[call[s].user].role \in privilegedRoles => mfaCode = "123456")
         THEN Continue(s, [phase |-> "saveSession", subject |-> 0, user |-> call[s].user, token |-> 0])
         ELSE Answer(s)
    /\ UNCHANGED sessionVars

\* Whoever holds a token presents it, as often as they like.
Refresh(s, t) ==
    /\ t \in held
    /\ Begin(s, [phase |-> "get", subject |-> tokens[t].family, token |-> t])
    /\ UNCHANGED sessionVars

\* Mutant of GetsRecord: a used token is refused and its family left alone.
GetsRecordOnly(s) ==
    /\ At(s, "get")
    /\ IF Dead(call[s].token) THEN Answer(s) ELSE Await(s, "findToMark")
    /\ replayed' = IF tokens[call[s].token].used THEN replayed \cup {call[s].subject} ELSE replayed
    /\ UNCHANGED <<tokens, expired, held, exchanged, identityVars>>

GetsRecord(s) ==
    /\ At(s, "get")
    /\ LET t == call[s].token
       IN IF t \in expired \/ tokens[t].revoked THEN Answer(s)
          ELSE Await(s, IF tokens[t].used THEN "listFamily" ELSE "findToMark")
    /\ UNCHANGED sessionVars

\* markUsed reads the record again ...
ReadsToMark(s) ==
    /\ At(s, "findToMark")
    /\ Continue(s, [phase |-> "mark", subject |-> call[s].subject, token |-> call[s].token,
                    copy |-> tokens[call[s].token]])
    /\ UNCHANGED sessionVars

\* ... and puts it back whole.
MarksUsed(s) ==
    /\ At(s, "mark")
    /\ tokens' = [tokens EXCEPT ![call[s].token] = [call[s].copy EXCEPT !.used = TRUE]]
    /\ Continue(s, [phase |-> "findById", subject |-> call[s].subject, token |-> call[s].token])
    /\ UNCHANGED <<identityVars, expired, held, exchanged, replayed>>

\* No user is ever removed.
FindsById(s) ==
    /\ At(s, "findById")
    /\ Continue(s, [phase |-> "saveSession", subject |-> call[s].subject,
                    user |-> tokens[call[s].token].user, token |-> call[s].token])
    /\ UNCHANGED sessionVars

\* issueSession: a new token of the family is stored ...
SavesSession(s) ==
    /\ At(s, "saveSession")
    /\ Len(tokens) < MaxTokens
    /\ LET token == Len(tokens) + 1
           family == IF call[s].token = 0 THEN token ELSE call[s].subject
       IN /\ tokens' = Append(tokens, [user |-> call[s].user, family |-> family, used |-> FALSE,
                                       revoked |-> FALSE])
          /\ Continue(s, [phase |-> "answer", subject |-> family, token |-> token])
    /\ exchanged' = IF call[s].token = 0 THEN exchanged
                    ELSE [exchanged EXCEPT ![call[s].token] = @ + 1]
    /\ UNCHANGED <<identityVars, expired, held, replayed>>

\* ... announced, and answered; the answer may be lost on its way.
AnswersSession(s) ==
    /\ At(s, "answer")
    /\ held' \in {held, held \cup {call[s].token}}
    /\ Answer(s)
    /\ UNCHANGED <<identityVars, tokens, expired, exchanged, replayed>>

\* revokeFamily lists the records of the family ...
ListsFamily(s) ==
    /\ At(s, "listFamily")
    /\ Continue(s, [phase |-> "revoke", subject |-> call[s].subject, token |-> call[s].token,
                    copies |-> [t \in {t \in DOMAIN tokens : tokens[t].family = call[s].subject}
                                  |-> tokens[t]]])
    /\ UNCHANGED sessionVars

\* ... and puts each back revoked, in an order of the store's; when all are
\* there the replay is answered.
RevokesOne(s, t) ==
    /\ At(s, "revoke")
    /\ t \in DOMAIN call[s].copies
    /\ tokens' = [tokens EXCEPT ![t] = [call[s].copies[t] EXCEPT !.revoked = TRUE]]
    /\ LET left == DOMAIN call[s].copies \ {t}
       IN IF left = {}
          THEN Answer(s) /\ replayed' = replayed \cup {call[s].subject}
          ELSE /\ Continue(s, [call[s] EXCEPT !.copies = [r \in left |-> call[s].copies[r]]])
               /\ UNCHANGED replayed
    /\ UNCHANGED <<identityVars, expired, held, exchanged>>

\* Thirty days pass for a token.
Expires(t) ==
    /\ t \in DOMAIN tokens \ expired /\ Cardinality(expired) < MaxExpired
    /\ expired' = expired \cup {t}
    /\ UNCHANGED <<handlerVars, identityVars, tokens, held, exchanged, replayed>>

SessionsRestart == Restart /\ UNCHANGED sessionVars

-----------------------------------------------------------------------------

IdentityNext ==
    \/ \E s \in Slots :
         \/ \E id \in Users, user \in User : Register(s, id, user)
         \/ FindsEmail(s) \/ FindsPhone(s) \/ SavesUser(s) \/ AnnouncesUser(s)
    \/ SessionsRestart

SessionsNext ==
    \/ \E s \in Slots :
         \/ \E u \in Users : Login(s, u)
         \/ \E t \in DOMAIN tokens : Refresh(s, t) \/ RevokesOne(s, t)
         \/ Authenticates(s) \/ GetsRecord(s) \/ ReadsToMark(s) \/ MarksUsed(s)
         \/ FindsById(s) \/ SavesSession(s) \/ AnswersSession(s) \/ ListsFamily(s)
    \/ \E t \in DOMAIN tokens : Expires(t)
    \/ SessionsRestart

-----------------------------------------------------------------------------

\* Two users never share an email or a phone, unless their registrations were
\* handled at once; and every user that is announced is stored, once announced.
IdentitiesUnique ==
    /\ IsInjective(registered) /\ Range(registered) \subseteq Known
    /\ \A u, v \in Known :
          \/ u = v \/ u \in overlapped \/ v \in overlapped
          \/ users[u].email # users[v].email /\ users[u].phone # users[v].phone

\* A token that was exchanged is dead for good, however the writes of markUsed
\* and revokeFamily fall.  Unless two handlers worked on a family at once, a
\* token is exchanged at most once, a family has at most one live token, and a
\* family whose replay was answered has none, whatever restarts came between.
RefreshFamiliesDie ==
    \A t \in DOMAIN tokens :
        /\ exchanged[t] > 0 => Dead(t)
        /\ tokens[t].family \notin overlapped =>
              /\ exchanged[t] <= 1
              /\ tokens[t].family \in replayed => Dead(t)
              /\ \A r \in DOMAIN tokens \ {t} :
                    tokens[r].family = tokens[t].family => Dead(r) \/ Dead(t)
=============================================================================
