----------------------------- MODULE Languages -----------------------------
(***************************************************************************)
(* The texts of an ecosystem in several languages (packages/language): the *)
(* rows of 1_languages and their cache.  Contracts change both inside the  *)
(* database transaction of a block; pages, and contracts through LangRes,  *)
(* read the cache, which is loaded from what is committed at the first     *)
(* request.  One ecosystem here: others have caches of their own.          *)
(***************************************************************************)
EXTENDS Integers, Sequences

CONSTANTS
  Resources,  \* names of texts
  Dictionaries, \* texts by language: functions from some languages
  Accepts,    \* what readers accept: sequences of languages
  BaseOf,     \* the language of a regional one, itself for others
  MaxLangOps  \* bound on what happens

VARIABLES
  stored,     \* 1_languages, committed
  pending,    \* as the block that is being played sees it
  earlier,    \* as it was before the last block
  lang,       \* the cache: <<>>, or <<names to texts>>
  loaders,    \* tables that were read by requests and are not in the cache yet
  inBlock,    \* whether a block is being played
  astray,     \* history: names whose text in the cache is known to differ
  answer,     \* history: the last request and what it got
  langOps

langVars == <<stored, pending, earlier, lang, loaders, inBlock, astray, answer, langOps>>

None == [l \in {} |-> ""]
Row(text) == [there |-> TRUE, res |-> text]
NoRow == [there |-> FALSE, res |-> None]
Nobody == [name |-> "", accept |-> <<>>, stored |-> NoRow, sure |-> FALSE, text |-> ""]

\* One text is there already.
FirstTexts == {[m \in Resources |-> IF m = n THEN Row(d) ELSE NoRow] : n \in Resources, d \in Dictionaries}

Init ==
  /\ stored \in FirstTexts
  /\ pending = stored /\ earlier = stored
  /\ lang = <<>> /\ loaders = {} /\ inBlock = FALSE
  /\ astray = {} /\ answer = Nobody /\ langOps = 0

Count == langOps < MaxLangOps /\ langOps' = langOps + 1

-----------------------------------------------------------------------------
\* A slip: what the cache has of other names is dropped.
UpdateLangAlone(name, d) == <<[m \in Resources |-> IF m = name THEN Row(d) ELSE NoRow]>>

\* UpdateLang: a cache that was not loaded begins with this name alone, and is
\* not loaded any more; a dictionary without texts is passed over.
UpdateLang(name, d) ==
  LET old == IF lang = <<>> THEN [m \in Resources |-> NoRow] ELSE lang[1]
  IN  <<IF d = None THEN old ELSE [old EXCEPT ![name] = Row(d)]>>

\* CreateLanguage and EditLanguage, whose contract goes on to end well or not.
Write(name, d, well) ==
  /\ inBlock /\ Count
  /\ lang' = UpdateLang(name, d)
  /\ pending' = IF well THEN [pending EXCEPT ![name] = Row(d)] ELSE pending
  /\ LET left == IF lang = <<>> THEN {m \in Resources \ {name} : pending[m].there} ELSE {}
     IN  astray' = left \cup IF well /\ d # None THEN astray \ {name} ELSE astray \cup {name}
  /\ UNCHANGED <<stored, earlier, loaders, inBlock, answer>>

\* A block begins, and is committed or not.
BeginBlock ==
  /\ ~inBlock /\ inBlock' = TRUE
  /\ UNCHANGED <<stored, pending, earlier, lang, loaders, astray, answer, langOps>>

EndBlock(well) ==
  /\ inBlock /\ inBlock' = FALSE
  /\ IF well THEN stored' = pending /\ earlier' = stored /\ UNCHANGED <<pending, astray>>
     ELSE /\ pending' = stored /\ UNCHANGED <<stored, earlier>>
          /\ astray' = astray \cup {n \in Resources : pending[n] # stored[n]}
  /\ UNCHANGED <<lang, loaders, answer, langOps>>

\* RollbackBlock: the rows, and not the cache.
Undo ==
  /\ ~inBlock /\ Count /\ earlier # stored
  /\ stored' = earlier /\ pending' = earlier
  /\ astray' = astray \cup {n \in Resources : earlier[n] # stored[n]}
  /\ UNCHANGED <<earlier, lang, loaders, inBlock, answer>>

Restart ==
  /\ Count /\ lang # <<>>
  /\ lang' = <<>> /\ loaders' = {} /\ inBlock' = FALSE /\ pending' = stored
  /\ astray' = {}
  /\ UNCHANGED <<stored, earlier, answer>>

-----------------------------------------------------------------------------
\* loadLang reads what is committed, without the mutex ...
BeginLoad ==
  /\ Count /\ lang = <<>>
  /\ loaders' = loaders \cup {stored}
  /\ UNCHANGED <<stored, pending, earlier, lang, inBlock, astray, answer>>

\* ... and puts it into the place of whatever the cache has by then.
EndLoad(rows) ==
  /\ lang' = <<rows>> /\ loaders' = loaders \ {rows}
  /\ astray' = {n \in Resources : rows[n] # pending[n]}
  /\ UNCHANGED <<stored, pending, earlier, inBlock, answer, langOps>>

\* The first of the languages that is there, or its base; English if none is.
Lng(res, accept) ==
  LET fits(i) == accept[i] \in DOMAIN res \/ BaseOf[accept[i]] \in DOMAIN res
      first == CHOOSE i \in DOMAIN accept : fits(i) /\ \A j \in 1..(i - 1) : ~fits(j)
  IN  IF ~\E i \in DOMAIN accept : fits(i) THEN "en"
      ELSE IF accept[first] \in DOMAIN res THEN accept[first] ELSE BaseOf[accept[first]]

\* LangText of a name that the cache has: without a text in that language it is
\* any of the texts, in the order of a map.
LangTexts(res, accept) ==
  LET lng == Lng(res, accept)
  IN  IF lng \in DOMAIN res THEN (IF res[lng] # "" THEN {res[lng]} ELSE {res[l] : l \in DOMAIN res})
      ELSE IF res = None THEN {""} ELSE {res[l] : l \in DOMAIN res}

\* LangText, LangRes: what is not in the cache is answered with its name.
LangText(name, accept) ==
  /\ lang # <<>> /\ ~inBlock
  /\ \E text \in IF lang[1][name].there THEN LangTexts(lang[1][name].res, accept) ELSE {name} :
       answer' = [name |-> name, accept |-> accept, stored |-> stored[name], sure |-> name \notin astray, text |-> text]
  /\ UNCHANGED <<stored, pending, earlier, lang, loaders, inBlock, astray, langOps>>

Next ==
  \/ \E n \in Resources, d \in Dictionaries, well \in BOOLEAN : Write(n, d, well)
  \/ BeginBlock \/ Undo \/ Restart \/ BeginLoad
  \/ \E well \in BOOLEAN : EndBlock(well)
  \/ \E rows \in loaders : EndLoad(rows)
  \/ \E n \in Resources, a \in Accepts : LangText(n, a)

-----------------------------------------------------------------------------
\* A reader gets the stored text in the first language that he accepts and that
\* has one, and the name of a text that is not stored. The cache goes astray in
\* no other way than these: the first edit after a start comes before the first
\* reading, the contract or the block of an edit fails or is undone, a load
\* passes an edit, an edit takes all texts away (UpdateLang, loadLang, LangText).
TextIsTheStored ==
  answer.sure =>
    IF ~answer.stored.there THEN answer.text = answer.name
    ELSE LET res == answer.stored.res
             lng == Lng(res, answer.accept)
         IN  lng \in DOMAIN res /\ res[lng] # "" => answer.text = res[lng]
=============================================================================
