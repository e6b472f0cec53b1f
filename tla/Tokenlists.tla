----------------------------- MODULE Tokenlists -----------------------------
(***************************************************************************)
(* The token lists of the browser UI: the state and the localStorage of    *)
(* frontend/src/lib/stores/tokenlist.ts with the dialog that works on      *)
(* them, components/TokenlistModal.svelte.  initTokenlists awaits a fetch  *)
(* of every saved list while the user may already work; adding by URL and  *)
(* retrying await a fetch, too.  No other tab writes localStorage.         *)
(*                                                                         *)
(* Entries are objects shared by _lists, _userLists and waiting handlers;  *)
(* heap holds those of the current page.  Left out: the tokens of a list,  *)
(* but for the local ones, and the pairs per chain, which nobody saves.    *)
(***************************************************************************)
EXTENDS Integers, SequencesExt

CONSTANTS
    Urls, Files,    \* the sources a user may add lists from
    Name,           \* the name that the list of a source gives itself
    Tokens,         \* tokens a user may save
    MaxLists,       \* bound: lists of the user at a time
    MaxEarly,       \* bound: entries made on one page while it loads
    MaxObjects,     \* bound: entries on one page
    MaxAwaiting     \* bound: fetches of the dialog in flight

Sources == Urls \cup Files

ASSUME SourceAssumption ==
    /\ DOMAIN Name = Sources /\ Urls \cap Files = {}
    /\ Sources \cap {"default", "builtin", "local"} = {}   \* the names of the bundled lists

VARIABLES
    heap,           \* the entries of this page in the order they were made
    lists,          \* _lists, as indexes into heap
    userLists,      \* _userLists
    localTokens,    \* _localTokens
    ready,          \* initTokenlists has returned
    read,           \* what it has read from localStorage before its await
    adding,         \* addByUrl in flight, by URL
    retrying,       \* retryList in flight, by index and entry
    deleting,       \* deleteIndex of the open confirmation, or 0
    stored          \* localStorage: tokenlists, tokenlistStates, localTokens

page == <<heap, lists, userLists, localTokens, ready, read, adding, retrying, deleting>>
vars == <<page, stored>>

Entry(id, on, failed) == [id |-> id, on |-> on, failed |-> failed]

(* getListKey: the bundled lists share one key. *)
Key(e) == IF e.id \in Sources THEN e.id ELSE "default"

Init ==
    /\ stored = [metas |-> <<>>, states |-> <<>>, tokens |-> {}]
    /\ read = [metas |-> <<>>, states |-> <<>>] /\ ready = FALSE
    /\ heap = <<>> /\ lists = <<>> /\ userLists = <<>> /\ localTokens = {}
    /\ adding = <<>> /\ retrying = <<>> /\ deleting = 0

-----------------------------------------------------------------------------
(* initTokenlists. *)

Saved(key, otherwise) == IF key \in DOMAIN read.states THEN read.states[key] ELSE otherwise

(* The user's lists as restored; fetching those at the positions in failing *)
(* has failed.  A list from a file is not fetched.                          *)
Restored(failing) ==
    [k \in DOMAIN read.metas |->
        Entry(read.metas[k].id, Saved(read.metas[k].id, read.metas[k].on), k \in failing)]

(* Local tokens are read after the await; none stored leaves the variable. *)
TokensFound == IF stored.tokens = {} THEN localTokens ELSE stored.tokens

FinishLoad(failing) ==
    /\ ~ready /\ ready' = TRUE
    /\ \A k \in failing : read.metas[k].id \in Urls
    /\ heap' = <<Entry("default", Saved("default", TRUE), FALSE), Entry("builtin", TRUE, FALSE)>>
                 \o Restored(failing) \o <<Entry("local", TRUE, FALSE)>>
    /\ lists' = [k \in DOMAIN heap' |-> k]
    /\ userLists' = [k \in DOMAIN read.metas |-> k + 2]
    /\ localTokens' = TokensFound
    /\ read' = [metas |-> <<>>, states |-> <<>>]
    /\ UNCHANGED <<adding, retrying, deleting, stored>>

(* The page is loaded again: only localStorage remains. *)
Reload ==
    /\ read' = [metas |-> stored.metas, states |-> stored.states] /\ ready' = FALSE
    /\ heap' = <<>> /\ lists' = <<>> /\ userLists' = <<>> /\ localTokens' = {}
    /\ adding' = <<>> /\ retrying' = <<>> /\ deleting' = 0
    /\ UNCHANGED stored

-----------------------------------------------------------------------------
(* toggleList, by the switch of an entry that has not failed. *)

SameKey(i) == {j \in DOMAIN lists : Key(heap[lists[j]]) = Key(heap[lists[i]])}

(* Faulty: the loop goes on. *)
ToggledAll(i) == SameKey(i)

(* The loop ends at the first entry with the key. *)
Toggled(i) == {CHOOSE j \in SameKey(i) : \A k \in SameKey(i) : j <= k}

(* saveTokenlistStates: of entries with the same key the last one counts. *)
StatesOf(hp) ==
    [key \in {Key(hp[i]) : i \in Range(lists)} |->
        hp[lists[SelectLastInSeq(lists, LAMBDA i : Key(hp[i]) = key)]].on]

Toggle(i) ==
    /\ ~heap[lists[i]].failed
    /\ LET hit == {lists[j] : j \in Toggled(i)}
       IN  heap' = [o \in DOMAIN heap |->
                       IF o \in hit THEN [heap[o] EXCEPT !.on = ~@] ELSE heap[o]]
    /\ stored' = [stored EXCEPT !.states = StatesOf(heap')]
    /\ UNCHANGED <<lists, userLists, localTokens, ready, read, adding, retrying, deleting>>

-----------------------------------------------------------------------------
(* addList and removeList; both save the user's lists without tokens. *)

Metas == [k \in DOMAIN userLists |->
             [id |-> heap[userLists[k]].id, on |-> heap[userLists[k]].on]]

(* Faulty: saved before the entry has left _userLists, or come to it. *)
SavedTooEarly == stored' = [stored EXCEPT !.metas = Metas]

SaveUserLists == stored' = [stored EXCEPT !.metas = Metas']

(* Before the last entry, which should be Local Tokens. *)
Placed(o, seq) == IF seq = <<>> THEN <<o>> ELSE InsertAt(seq, Len(seq), o)

(* addList(e), given what is in the two lists. *)
AddTo(e, ls, us) ==
    /\ Len(heap) < (IF ready THEN MaxObjects ELSE MaxEarly) /\ Len(us) < MaxLists
    /\ heap' = Append(heap, e)
    /\ lists' = Placed(Len(heap'), ls)
    /\ userLists' = Append(us, Len(heap'))
    /\ SaveUserLists

(* removeList(i): what it leaves in the two; an index past the end is ignored. *)
Without(i) == IF i \in DOMAIN lists THEN RemoveAt(lists, i) ELSE lists

(* Faulty: the list stays among the user's. *)
UsersAsBefore(i) == userLists

UsersWithout(i) ==
    IF i \in DOMAIN lists THEN RemoveFirst(userLists, lists[i]) ELSE userLists

Taken(name) == \E i \in Range(lists) : heap[i].id \in Sources /\ Name[heap[i].id] = name

(* addByUrl up to its await; Enter works while the button is disabled. *)
AddByUrl(u) ==
    /\ Len(adding) + Len(retrying) < MaxAwaiting
    /\ \A i \in Range(lists) : heap[i].id # u
    /\ adding' = Append(adding, u)
    /\ UNCHANGED <<heap, lists, userLists, localTokens, ready, read, retrying, deleting, stored>>

(* The answer: refused for its name, or added; or a failure or timeout. *)
Answered(k) ==
    /\ adding' = RemoveAt(adding, k)
    /\ \/ ~Taken(Name[adding[k]]) /\ AddTo(Entry(adding[k], TRUE, FALSE), lists, userLists)
       \/ UNCHANGED <<heap, lists, userLists, stored>>
    /\ UNCHANGED <<localTokens, ready, read, retrying, deleting>>

Import(f) ==
    /\ ~Taken(Name[f])
    /\ AddTo(Entry(f, TRUE, FALSE), lists, userLists)
    /\ UNCHANGED <<localTokens, ready, read, adding, retrying, deleting>>

(* Every entry but the default list has a delete button. *)
ConfirmDelete(i) ==
    /\ deleting = 0 /\ heap[lists[i]].id # "default"
    /\ deleting' = i
    /\ UNCHANGED <<heap, lists, userLists, localTokens, ready, read, adding, retrying, stored>>

(* Confirmed, or the confirmation is closed. *)
EndDelete ==
    /\ deleting # 0 /\ deleting' = 0 /\ UNCHANGED heap
    /\ \/ /\ deleting \in DOMAIN lists
          /\ lists' = Without(deleting) /\ userLists' = UsersWithout(deleting)
          /\ SaveUserLists
       \/ UNCHANGED <<lists, userLists, stored>>
    /\ UNCHANGED <<localTokens, ready, read, adding, retrying>>

(* retryList up to its await. *)
Retry(i) ==
    /\ Len(adding) + Len(retrying) < MaxAwaiting
    /\ heap[lists[i]].failed
    /\ retrying' = Append(retrying, [index |-> i, entry |-> lists[i]])
    /\ UNCHANGED <<heap, lists, userLists, localTokens, ready, read, adding, deleting, stored>>

(* The answer: whatever is at the index by now goes, the list is added. *)
Retried(k) ==
    /\ retrying' = RemoveAt(retrying, k)
    /\ LET r == retrying[k] IN
          \/ AddTo([heap[r.entry] EXCEPT !.failed = FALSE], Without(r.index), UsersWithout(r.index))
          \/ UNCHANGED <<heap, lists, userLists, stored>>
    /\ UNCHANGED <<localTokens, ready, read, adding, deleting>>

-----------------------------------------------------------------------------
(* addLocalToken, called by the quote form. *)

(* Faulty: saved only together with the entry that shows the tokens. *)
SavedIfShown(t) ==
    IF \E i \in Range(lists) : heap[i].id = "local" THEN localTokens \cup {t} ELSE stored.tokens

SavedTokens(t) == localTokens \cup {t}

AddLocalToken(t) ==
    /\ t \notin localTokens
    /\ localTokens' = localTokens \cup {t}
    /\ stored' = [stored EXCEPT !.tokens = SavedTokens(t)]
    /\ UNCHANGED <<heap, lists, userLists, ready, read, adding, retrying, deleting>>

Next ==
    \/ \E failing \in SUBSET DOMAIN read.metas : FinishLoad(failing)
    \/ Reload
    \/ \E i \in DOMAIN lists : Toggle(i) \/ ConfirmDelete(i) \/ Retry(i)
    \/ \E u \in Urls : AddByUrl(u)
    \/ \E k \in DOMAIN adding : Answered(k)
    \/ \E f \in Files : Import(f)
    \/ EndDelete
    \/ \E k \in DOMAIN retrying : Retried(k)
    \/ \E t \in Tokens : AddLocalToken(t)

Spec == Init /\ [][Next]_vars

-----------------------------------------------------------------------------
(***************************************************************************)
(* "enabled: true, // always enabled" (tokenlist.ts:351, of the built-in   *)
(* pair tokens; the local tokens are made the same way).  The three share  *)
(* a key, so the switch of any of them works on the first one that is      *)
(* there.  That is the default list wherever entries are inserted or       *)
(* removed, and as long as it is there the other two are on.  A deletion   *)
(* confirmed at a position from before the end of loading can remove it;   *)
(* the next use of such a switch then turns an "always enabled" list off.  *)
(***************************************************************************)
Present(id) == \E i \in Range(lists) : heap[i].id = id

LocalListsStayOn ==
    Present("default") =>
        \A i \in Range(lists) : heap[i].id \in {"builtin", "local"} => heap[i].on

(***************************************************************************)
(* The two sequences in memory agree: _userLists holds the entries that    *)
(* _lists shows besides the bundled ones, and _lists shows none twice,     *)
(* though a retry or a deletion removes by a position from before its wait *)
(* and entries come and go meanwhile.  It may remove another list than the *)
(* one that was meant, but then from both.                                 *)
(***************************************************************************)
UserListsAreShown ==
    /\ IsInjective(lists)
    /\ Range(userLists) = {i \in Range(lists) : heap[i].id \in Sources}

(***************************************************************************)
(* "User-added lists (persisted to localStorage)" (tokenlist.ts:106):      *)
(* whatever is written, and whatever changes the lists of a loaded page or *)
(* loads a page that was left alone meanwhile, leaves exactly the shown    *)
(* lists of the user in localStorage.  A list added while the page loads   *)
(* replaces those stored before, and the end of loading then shows these   *)
(* without the new one; the property leaves that out, and a reload before  *)
(* the next change loses what the page shows.                              *)
(***************************************************************************)
ShownIds == {heap[i].id : i \in Range(lists)} \cap Sources
SavedIds == {stored.metas[k].id : k \in DOMAIN stored.metas}

SavedAsShown ==
    [][\/ stored'.metas # stored.metas
       \/ ready' /\ lists' # lists /\ (ready \/ heap = <<>>)
       => SavedIds' = ShownIds']_vars

(* Once loading is over the local tokens in use are those that are stored, *)
(* also if the user saved one while the lists were being fetched or has    *)
(* deleted the list that shows them.                                       *)
LocalTokensSaved == ready => localTokens = stored.tokens

(***************************************************************************)
(* README.md line 234, "All tokenlist state lives in localStorage", and    *)
(* tokenlist.ts line 341, "default on unless explicitly disabled": what is *)
(* stored for the default list, once it is, is the state it has.           *)
(***************************************************************************)
DefaultStateStored ==
    ready /\ "default" \in DOMAIN stored.states =>
        \A i \in Range(lists) : heap[i].id = "default" => heap[i].on = stored.states["default"]
=============================================================================
