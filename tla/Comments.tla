------------------------------- MODULE Comments -------------------------------
(***************************************************************************)
(* The comments of one user on products (modules/comments).  A request     *)
(* looks its key up, waits for the moderation of the text, and only then   *)
(* writes, in one transaction that claims the key, looks at the product    *)
(* again and inserts the comment.  A comment is named by a number.         *)
(***************************************************************************)
EXTENDS Integers, FiniteSets

CONSTANTS Products, CommentTexts, SafeTexts, CommentKeys, Posters,
          MaxComments   \* bound of the model: comments ever made

ASSUME CommentsAssumption == SafeTexts \subseteq CommentTexts /\ MaxComments \in Nat

VARIABLES published,   \* the products shown in an active store
          comments,    \* the rows, by number
          keyRows,     \* comment_create_requests, by key
          posts,       \* the request of each poster
          answers,     \* history: what creations were answered
          numbers      \* numbers handed out

commentVars == <<published, comments, keyRows, posts, answers, numbers>>

NoComment == [there |-> FALSE]
UnusedKey == [claimed |-> FALSE]
NotPosting == [step |-> "idle"]
PosterEnds(r) == posts' = [posts EXCEPT ![r] = NotPosting]
Has(p) == \E n \in 1..MaxComments : comments[n].there /\ comments[n].product = p

CommentsInit ==
    /\ published = Products
    /\ comments = [n \in 1..MaxComments |-> NoComment]
    /\ keyRows = [k \in CommentKeys |-> UnusedKey]
    /\ posts = [r \in Posters |-> NotPosting]
    /\ answers = {} /\ numbers = 0

(* Slip: the row of a key answers whatever was asked. *)
AnyRequest(k, request) == keyRows[k].claimed

IsReplay(k, request) == keyRows[k].claimed /\ keyRows[k].request = request

AnswersFromKey(k, request) ==
    answers' = IF IsReplay(k, request)
               THEN answers \cup {[key |-> k, request |-> request, number |-> keyRows[k].number]}
               ELSE answers

(* create: an answered key ends the request at once, a product that is not *)
(* shown refuses it.                                                       *)
CreateComment(r, p, t, k) ==
    LET request == [product |-> p, text |-> t]
    IN /\ posts[r] = NotPosting
       /\ IF keyRows[k].claimed
          THEN AnswersFromKey(k, request) /\ UNCHANGED posts
          ELSE /\ p \in published /\ UNCHANGED answers
               /\ posts' = [posts EXCEPT ![r] =
                      [step |-> "moderating", kind |-> "create", key |-> k, request |-> request]]
       /\ UNCHANGED <<published, comments, keyRows, numbers>>

Update(r, n, t) ==
    /\ posts[r] = NotPosting /\ comments[n].there
    /\ posts' = [posts EXCEPT ![r] =
           [step |-> "moderating", kind |-> "update", row |-> n, text |-> t, saw |-> comments[n]]]
    /\ UNCHANGED <<published, comments, keyRows, answers, numbers>>

TextOf(post) == IF post.kind = "create" THEN post.request.text ELSE post.text

\* The verdict of the model; when it does not answer, nothing is written.
CheckContent(r) ==
    /\ posts[r].step = "moderating"
    /\ \/ TextOf(posts[r]) \in SafeTexts /\ posts' = [posts EXCEPT ![r].step = "passed"]
       \/ PosterEnds(r)
    /\ UNCHANGED <<published, comments, keyRows, answers, numbers>>

Claimed(k, request, n) ==
    [keyRows EXCEPT ![k] = [claimed |-> TRUE, request |-> request, number |-> n]]

ClaimAfterRefusal(k, request, n) == keyRows

(* The transaction: a key claimed by now answers; otherwise the claim, the *)
(* look at the product and the insert stand or fall together.              *)
CreateTransaction(r) ==
    LET k == posts[r].key
        request == posts[r].request
        n == numbers + 1
    IN /\ posts[r].step = "passed" /\ posts[r].kind = "create" /\ PosterEnds(r)
       /\ numbers < MaxComments
       /\ \/ /\ keyRows[k].claimed /\ AnswersFromKey(k, request)
             /\ UNCHANGED <<comments, keyRows, numbers>>
          \/ /\ ~keyRows[k].claimed /\ request.product \in published /\ ~Has(request.product)
             /\ keyRows' = Claimed(k, request, n)
             /\ comments' = [comments EXCEPT ![n] = [there |-> TRUE, version |-> 1,
                    product |-> request.product, text |-> request.text]]
             /\ answers' = answers \cup {[key |-> k, request |-> request, number |-> n]}
             /\ numbers' = n
          \/ /\ ~keyRows[k].claimed
             /\ request.product \notin published \/ Has(request.product)
             /\ keyRows' = ClaimAfterRefusal(k, request, n)
             /\ UNCHANGED <<comments, answers, numbers>>
       /\ UNCHANGED published

IsUnchanged(r) == comments[posts[r].row] = posts[r].saw

UpdateAtVersion(r) ==
    /\ posts[r].step = "passed" /\ posts[r].kind = "update" /\ PosterEnds(r)
    /\ comments' = IF IsUnchanged(r)
                   THEN [comments EXCEPT ![posts[r].row].text = posts[r].text,
                                         ![posts[r].row].version = @ + 1]
                   ELSE comments
    /\ UNCHANGED <<published, keyRows, answers, numbers>>

DeleteOwn(n) ==
    /\ comments[n].there /\ comments' = [comments EXCEPT ![n] = NoComment]
    /\ UNCHANGED <<published, keyRows, posts, answers, numbers>>

\* A merchant publishes or takes back a product, or the store closes.
Shows(ps) ==
    /\ published' = ps /\ ps # published
    /\ UNCHANGED <<comments, keyRows, posts, answers, numbers>>

CommentsNext ==
    \/ \E r \in Posters :
        \/ \E p \in Products, t \in CommentTexts, k \in CommentKeys : CreateComment(r, p, t, k)
        \/ \E n \in 1..MaxComments, t \in CommentTexts : Update(r, n, t)
        \/ CheckContent(r) \/ CreateTransaction(r) \/ UpdateAtVersion(r)
    \/ \E n \in 1..MaxComments : DeleteOwn(n)
    \/ \E ps \in SUBSET Products : Shows(ps)

CommentsSpec == CommentsInit /\ [][CommentsNext]_commentVars

(***************************************************************************)
(* Properties                                                              *)
(***************************************************************************)
\* Two answers to one key are the same answer to the same request, also when
\* both requests waited for their moderation at once.
OneAnswerPerKey == \A a, b \in answers : a.key = b.key => a = b

\* A key is spent on a comment that was made, never on a refusal: a request
\* that was refused can be repeated with its key.
KeysNameComments ==
    \A k \in CommentKeys : keyRows[k].claimed => keyRows[k].number \in 1..numbers

\* A text is replaced only by one written over it: an edit that waited for
\* its moderation gives way to another edit or a deletion.
EditsFollowWhatWasSeen ==
    [][\A n \in 1..MaxComments :
        (comments[n].there /\ comments'[n].there /\ comments'[n] # comments[n])
            => \E r \in Posters : posts[r].step = "passed" /\ posts[r].kind = "update"
                                   /\ posts[r].row = n /\ posts[r].saw = comments[n]]_commentVars
\* A key is answered in one way, and only for a comment that was made.
KeysAnswerOnce == OneAnswerPerKey /\ KeysNameComments

===============================================================================
