------------------------------ MODULE MCBTree -------------------------------
(***************************************************************************)
(* Runs of BTree with pages of two entries or two separators.  From an     *)
(* empty file a client opens and closes the index and makes any calls on   *)
(* few keys; from a tree of three levels, in which internal nodes split,   *)
(* rotate and merge, it makes at most MaxCalls calls.  A file with entries *)
(* not of the first RID has one page less than one without, and a built    *)
(* tree has at most one such entry.                                        *)
(***************************************************************************)
EXTENDS BTreeBuilt

CONSTANTS MaxPages,     \* bound on the length of a file that was empty
          FewKeys,      \* the largest key in it
          MaxKey,       \* the largest key in a built tree
          MaxTwins,     \* bound on the entries with a RID of their own
          MaxCalls,     \* bound on the calls on a built tree
          Orderly       \* whether the client makes no insertion that Misplaces a page

Unbounded == -1
None      == <<"none">>

VARIABLES
  calls,        \* the calls left
  last          \* history: the operation and the entry of the last call

MCKeys == 1..MaxKey

\* VarChar keys of one character and, two of them, of six.
MixedLen  == [k \in Keys |-> IF k \in {2, 6} THEN 10 ELSE 5]

EmptyInit == Init /\ calls = Unbounded /\ last = None
DeepInit  == BuiltInit(MaxKey) /\ calls = MaxCalls /\ last = None

Call(E) ==
  \E h \in Handles, e \in E :
     \/ /\ New(h, e)
        /\ Orderly => ~Misplaces(ViewOf(h), e)
        /\ insertEntry(h, e)
        /\ last' = <<"insertEntry", e>>
     \/ deleteEntry(h, e) /\ last' = <<"deleteEntry", e>>

\* The entries in the file's leaves, those the tree has left included.
Held == UNION {ToSet(nodes[p].entries) : p \in {q \in DOMAIN nodes : nodes[q].leaf}}

\* Whether some of them are not of the first RID.
Twinned == \E e \in Held : e.rid # FirstRid

AnyCall ==
  /\ calls = Unbounded
  /\ \/ /\ \E h \in Handles : \/ (\A g \in Handles : ~handles[g].open) /\ openFile(h)
                              \/ closeFile(h)
        /\ last' = None
     \/ Call({e \in Entry : e.key <= FewKeys})
  /\ Len(nodes') <= MaxPages
  /\ Twinned' => Len(nodes') < MaxPages
  /\ UNCHANGED calls

DeepCall ==
  /\ calls > 0
  /\ Call(Entry)
  /\ Twins' <= 1
  /\ calls' = calls - 1

MCNext == (AnyCall \/ DeepCall) /\ Twins' <= MaxTwins

mcVars == <<vars, calls, last>>

\* RIDs other than the first are alike.
Alike == Permutations(Rids \ {FirstRid})

\* The last call does not tell states apart.
LastAside == <<vars, calls>>

MCSpec    == (EmptyInit \/ DeepInit) /\ [][MCNext]_mcVars
EmptySpec == EmptyInit /\ [][MCNext]_mcVars

\* insertEntry adds exactly the entry it is given and deleteEntry removes exactly the
\* entry it is given, which must be there.
CallsActOnTheirEntry ==
  [][LET before == Contents(Root)
         after  == Contents(Root)'
     IN  /\ last'[1] = "insertEntry" => after = before \cup {last'[2]}
         /\ last'[1] = "deleteEntry" => last'[2] \in before /\ after = before \ {last'[2]}]_mcVars

\* src/report/project3.md:107: duplicates that span pages stay next to each other, a scan
\* lands on the first leaf that can hold the key and walks the chain forward, and so gets
\* all entries of the key.
KeyScansMeetAll ==
  Root # 0 =>
    \A k \in Keys :
      LET order == FoldLeft(LAMBDA es, p : es \o nodes[p].entries, << >>,
                            Chain(Last(Path([nodes |-> nodes, root |-> Root], k,
                                            findInternalChildIdsLeft))))
          met   == {order[i] : i \in {j \in DOMAIN order : \A m \in 1..j : order[m].key <= k}}
      IN  \A p \in ToSet(TreeLeaves(Root)) :
            {e \in ToSet(nodes[p].entries) : e.key = k} \subseteq met
=============================================================================
