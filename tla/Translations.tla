---------------------------- MODULE Translations ----------------------------
(***************************************************************************)
(* The translation catalogue of one language (core/i18n_catalog.py and the *)
(* commands pomessages and pocompile): the strings of the sources are      *)
(* extracted into a .po file, translators fill it in, and it is compiled   *)
(* into the .mo file that pages are translated with.  Both commands have a *)
(* --check that CI runs instead of writing.                                *)
(*                                                                         *)
(* A string is a key, its context and msgid; it is used in the singular    *)
(* (gettext) or with a plural (ngettext).  The text formats of the files,  *)
(* and arguments that are not literals, are left out.                      *)
(***************************************************************************)
EXTENDS FiniteSets, Sequences, Integers

CONSTANTS
    Phrase,          \* Entry.key: (msgctxt, msgid)
    Word,            \* what translators write
    Empty,           \* the empty msgstr
    MaxEdits,        \* bound: edits of the sources
    MaxTranslations  \* bound: edits of the .po file

ASSUME TranslationsAssumption ==
    /\ Empty \notin Word
    /\ MaxEdits \in Nat /\ MaxTranslations \in Nat

VARIABLES
    source,        \* the calls in templates and Python: keys with or without a plural
    po,            \* the entries of django.po
    mo,            \* those of django.mo
    extracted,     \* history: the sources at the last pomessages
    work,          \* history: per key, what a translator wrote last, for one thing, as
                   \* long as no pomessages has found the key gone
    edits,
    translations

catalogueVars == <<source, po, mo, extracted, work, edits, translations>>

Use == [key : Phrase, plural : BOOLEAN]
Keys(S) == {e.key : e \in S}
Forms == {<<w>> : w \in Word \cup {Empty}} \cup ((Word \cup {Empty}) \X (Word \cup {Empty}))

translated(e) == \E i \in DOMAIN e.msgstr : e.msgstr[i] # Empty

TranslationsInit ==
    /\ source \in SUBSET Use
    /\ po = {} /\ mo = {} /\ extracted = {}
    /\ work = [k \in Phrase |-> Empty]
    /\ edits = 0 /\ translations = 0

-----------------------------------------------------------------------------
(* Extraction                                                              *)

\* Mutant: of two uses of a string, the first decides whether it has a plural.
Pluralised_First(k, U) == [key |-> k, plural |-> FALSE] \notin U

Pluralised(k, U) == [key |-> k, plural |-> TRUE] \in U

\* One entry per key, with a plural if any use has one, and nothing translated yet.
merge_extracted(U) ==
    {[key |-> k, plural |-> Pluralised(k, U), fuzzy |-> FALSE,
      msgstr |-> IF Pluralised(k, U) THEN <<Empty, Empty>> ELSE <<Empty>>] : k \in Keys(U)}

\* The old translation of a string, in as many forms as it has now; not fuzzy any more.
Carried(e, old) ==
    [e EXCEPT !.msgstr =
        IF ~e.plural THEN <<old.msgstr[1]>>
        ELSE IF Len(old.msgstr) >= 2 THEN old.msgstr
        ELSE <<old.msgstr[1], old.msgstr[1]>>]

apply_existing(fresh, existing) ==
    {e \in fresh : ~\E o \in existing : o.key = e.key /\ translated(o)}
        \cup {Carried(p[1], p[2]) :
                 p \in {q \in fresh \X existing : q[1].key = q[2].key /\ translated(q[2])}}

\* What pomessages would write: strings that are gone are left out.
Catalogue == apply_existing(merge_extracted(source), po)

pomessages ==
    /\ po' = Catalogue
    /\ extracted' = source
    /\ work' = [k \in Phrase |-> IF k \in Keys(source) THEN work[k] ELSE Empty]
    /\ UNCHANGED <<source, mo, edits, translations>>

pomessages_check == \A e \in Catalogue : translated(e)

-----------------------------------------------------------------------------
(* Compilation and lookup                                                  *)

\* Fuzzy and untranslated entries are left out, for gettext to fall back on the msgid.
compile_mo(entries) == {e \in entries : ~e.fuzzy /\ translated(e)}

pocompile == mo' = compile_mo(po) /\ UNCHANGED <<source, po, extracted, work, edits, translations>>

pocompile_check == mo = compile_mo(po)

\* gettext finds an entry with or without a plural, ngettext only one that has it.
Found(u) == {e \in mo : e.key = u.key /\ (u.plural => e.plural)}

-----------------------------------------------------------------------------
(* Developers and translators                                              *)

EditSource(u) ==
    /\ edits < MaxEdits /\ edits' = edits + 1
    /\ source' = IF u \in source THEN source \ {u} ELSE source \cup {u}
    /\ UNCHANGED <<po, mo, extracted, work, translations>>

\* Any form may be left blank, and the entry may be marked fuzzy.
Translate(e, msgstr, fuzzy) ==
    /\ translations < MaxTranslations /\ translations' = translations + 1
    /\ Len(msgstr) = Len(e.msgstr)
    /\ po' = (po \ {e}) \cup {[e EXCEPT !.msgstr = msgstr, !.fuzzy = fuzzy]}
    /\ work' = [work EXCEPT ![e.key] = msgstr[1]]
    /\ UNCHANGED <<source, mo, extracted, edits>>

-----------------------------------------------------------------------------
TranslationsNext ==
    \/ pomessages \/ pocompile
    \/ \E u \in Use : EditSource(u)
    \/ \E e \in po, msgstr \in Forms, fuzzy \in BOOLEAN : Translate(e, msgstr, fuzzy)

-----------------------------------------------------------------------------
(* Properties                                                              *)

Entry == [key : Phrase, plural : BOOLEAN, msgstr : Forms, fuzzy : BOOLEAN]

TranslationsTypeOK ==
    /\ source \subseteq Use /\ extracted \subseteq Use
    /\ po \subseteq Entry /\ mo \subseteq Entry
    /\ \A e \in po : Len(e.msgstr) = IF e.plural THEN 2 ELSE 1
    /\ Cardinality(Keys(po)) = Cardinality(po)
    /\ work \in [Phrase -> Word \cup {Empty}]

\* No string that stays in the sources loses its translation, whatever plurals come and go.
WorkSurvives ==
    \A k \in Phrase :
        work[k] # Empty => \E e \in po : e.key = k /\ e.msgstr[1] = work[k]

\* If both checks pass, every string of the sources is shown as its translator wrote it
\* last, in the singular and with a plural.  Excepted are entries marked fuzzy, and
\* strings that got a plural after the last extraction, which the check does not notice.
CheckedIsShown ==
    pomessages_check /\ pocompile_check =>
        \A u \in source :
            \/ \E e \in po : e.key = u.key /\ e.fuzzy
            \/ u.plural /\ u \notin extracted
            \/ \E e \in Found(u) : e.msgstr[1] = work[u.key]

\* A translator's text reaches the visitors: no extraction loses it, and when CI is green
\* it is what pages show.
TranslationsArrive == WorkSurvives /\ CheckedIsShown
=============================================================================
