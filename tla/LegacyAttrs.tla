---------------------------- MODULE LegacyAttrs ----------------------------
(***************************************************************************)
(* _LegacyAttrInjector: one pass over the tags of a page, with a stack     *)
(* that carries inherited style down to the tags whose text is then put    *)
(* inside <font>, <b> and <u>.  color stands for the properties that go    *)
(* into <font>, weight for those that get a tag of their own.              *)
(*                                                                         *)
(* The page is a tree that is written tag by tag; element is the chain of  *)
(* its open elements, output the chain a reader of the result sees.        *)
(***************************************************************************)
EXTENDS Naturals, Sequences, SequencesExt

CONSTANTS
    Tags,       \* the tags a page uses
    Styles,     \* what a tag's resolved style may set
    Omissible,  \* tags whose end tag the page may leave out
    MayHold,    \* the tags that may stand directly in a tag, or in the page
    MaxDepth    \* bound: open elements

Nothing == "none"
PageTop == "page"

ASSUME LegacyAttrsAssumption ==
    /\ MaxDepth \in Nat /\ Omissible \subseteq Tags
    /\ MayHold \in [Tags \cup {PageTop} -> SUBSET Tags]
    /\ Styles \subseteq [color : STRING, weight : {Nothing, "bold", "normal"}]

VARIABLES
    injector,   \* "idle", "feeding" or "done"
    element,    \* the open elements of the page: tag and own style
    frames,     \* the parallel stacks: effective style and wrappers
    output,     \* the open elements of the output; inserted ones are not the page's
    crossed,    \* an end tag was written that does not close the innermost one
    inStyle     \* _in_style_block

attrVars == <<injector, element, frames, output, crossed, inStyle>>

\* _ALIGN_CONTAINER_TAGS and _COLOR_APPLY_TAGS.
Containers == {"table", "tr", "td", "th", "div", "p", "span"}
Decorated == {"td", "th", "div", "p", "span"}

AttrInit ==
    /\ injector = "idle"
    /\ element = <<>> /\ frames = <<>> /\ output = <<>>
    /\ crossed = FALSE /\ inStyle = FALSE

-----------------------------------------------------------------------------
\* own_props.get(k) or inherited[k]
Over(own, inherited) ==
    [color |-> IF own.color # Nothing THEN own.color ELSE inherited.color,
     weight |-> IF own.weight # Nothing THEN own.weight ELSE inherited.weight]

Plain == [color |-> Nothing, weight |-> Nothing]

\* The mutated forms of the definitions below stand before them.
NothingInherited == Plain

Inherited == IF frames = <<>> THEN Plain ELSE Last(frames).effective

Own(tag) == [tag |-> tag, color |-> Nothing, inserted |-> FALSE]
Inserted(tag, color) == [tag |-> tag, color |-> color, inserted |-> TRUE]

\* The tags handle_starttag puts inside the element, outermost first.
WrappersOf(tag, style) ==
    IF tag \notin Decorated THEN <<>>
    ELSE (IF style.color # Nothing THEN <<Inserted("font", style.color)>> ELSE <<>>)
         \o (IF style.weight = "bold" THEN <<Inserted("b", Nothing)>> ELSE <<>>)

\* A reader closes the innermost element if the end tag is its own, else the
\* nearest of that name with all that is inside it.
Closed(out, tag) ==
    LET opened == {i \in DOMAIN out : out[i].tag = tag}
    IN  IF opened = {} THEN out
        ELSE SubSeq(out, 1, (CHOOSE i \in opened : \A k \in opened : i >= k) - 1)

Crosses(out, tag) == out = <<>> \/ Last(out).tag # tag

BeginPage ==
    /\ injector = "idle"
    /\ injector' = "feeding"
    /\ UNCHANGED <<element, frames, output, crossed, inStyle>>

Parent == IF element = <<>> THEN PageTop ELSE Last(element).tag

\* handle_starttag, for a tag that may stand where it stands: a second <p> in an open one
\* would end that first.
StartTag(tag, own) ==
    /\ injector = "feeding" /\ ~inStyle
    /\ tag \in MayHold[Parent]
    /\ Len(element) < MaxDepth
    /\ element' = Append(element, [tag |-> tag, own |-> own])
    /\ LET effective == Over(own, Inherited)
           wrappers == WrappersOf(tag, effective)
       IN  /\ output' = output \o <<Own(tag)>> \o wrappers
           /\ frames' = IF tag \in Containers
                        THEN Append(frames, [effective |-> effective, wrappers |-> wrappers])
                        ELSE frames
    /\ UNCHANGED <<injector, crossed, inStyle>>

WrittenInOrder(tag) ==
    (IF tag \in Containers /\ frames # <<>>
     THEN [i \in DOMAIN Last(frames).wrappers |-> Last(frames).wrappers[i].tag]
     ELSE <<>>) \o <<tag>>

\* handle_endtag: the frame is the top one, whichever tag is closed; its
\* wrappers are closed in reverse, then the tag.
Written(tag) ==
    (IF tag \in Containers /\ frames # <<>>
     THEN [i \in DOMAIN Last(frames).wrappers |-> Reverse(Last(frames).wrappers)[i].tag]
     ELSE <<>>) \o <<tag>>

\* What a reader is left with after the end tags, one after the other.
ReaderAfter(ends) ==
    LET read[k \in 0..Len(ends)] ==
            IF k = 0 THEN [out |-> output, crossed |-> crossed]
            ELSE [out |-> Closed(read[k - 1].out, ends[k]),
                  crossed |-> read[k - 1].crossed \/ Crosses(read[k - 1].out, ends[k])]
    IN  read[Len(ends)]

EndTag ==
    /\ injector = "feeding" /\ ~inStyle
    /\ \E n \in DOMAIN element :
        /\ \A i \in (n + 1)..Len(element) : element[i].tag \in Omissible
        /\ LET tag == element[n].tag
               after == ReaderAfter(Written(tag))
           IN  /\ element' = SubSeq(element, 1, n - 1)
               /\ frames' = IF tag \in Containers /\ frames # <<>> THEN Front(frames) ELSE frames
               /\ output' = after.out
               /\ crossed' = after.crossed
    /\ UNCHANGED <<injector, inStyle>>

\* <style> and </style> are left out, with the text between them.
StartStyle ==
    /\ injector = "feeding" /\ ~inStyle
    /\ inStyle' = TRUE
    /\ UNCHANGED <<injector, element, frames, output, crossed>>

EndStyle ==
    /\ injector = "feeding" /\ inStyle
    /\ inStyle' = FALSE
    /\ UNCHANGED <<injector, element, frames, output, crossed>>

EndPage ==
    /\ injector = "feeding" /\ element = <<>> /\ ~inStyle
    /\ injector' = "done"
    /\ UNCHANGED <<element, frames, output, crossed, inStyle>>

AttrNext ==
    \/ BeginPage \/ EndTag \/ StartStyle \/ EndStyle \/ EndPage
    \/ \E tag \in Tags, own \in Styles : StartTag(tag, own)

AttrSpec == AttrInit /\ [][AttrNext]_attrVars

-----------------------------------------------------------------------------
(* Properties.  The first and the last are of pages that leave out no end   *)
(* tag.                                                                    *)

\* The style CSS gives the innermost container: each property comes from the
\* nearest enclosing element that sets it, containers only.
Nearest(property) ==
    LET c == {i \in DOMAIN element : /\ element[i].tag \in Containers
                                     /\ element[i].own[property] # Nothing}
    IN  IF c = {} THEN Nothing
        ELSE element[CHOOSE i \in c : \A k \in c : i >= k].own[property]

CascadedStyle == [color |-> Nearest("color"), weight |-> Nearest("weight")]

InnermostContainer ==
    LET c == {i \in DOMAIN element : element[i].tag \in Containers}
    IN  IF c = {} THEN Nothing ELSE element[CHOOSE i \in c : \A k \in c : i >= k].tag

\* The color of the nearest <font> that has one.
FontColor ==
    LET f == {i \in DOMAIN output : output[i].tag = "font" /\ output[i].color # Nothing}
    IN  IF f = {} THEN Nothing ELSE output[CHOOSE i \in f : \A k \in f : i >= k].color

ShowsCascade ==
    InnermostContainer \in Decorated =>
        /\ FontColor = CascadedStyle.color
        /\ CascadedStyle.weight = "bold" =>
                \E i \in DOMAIN output : output[i].tag = "b" /\ output[i].inserted

\* Text that stands in a cell, paragraph, block or span shows, once CSS is
\* gone, the color and the boldness the cascade gives it, whatever was opened
\* and closed before it and whichever other tags it is in.
TextKeepsItsStyle == Omissible = {} => ShowsCascade

\* mht_unpack.py:516-518, _boost_legacy_attrs: "walk the DOM, propagate inherited CSS
\* (...) through the ancestor chain" - on every page, those too that leave out an end tag.
StyleComesFromAncestors == ShowsCascade

\* "the DOM stays structurally identical" (mht_unpack.py:147-148): no end tag
\* of the output crosses another element, and without the inserted elements
\* the open elements are those of the page, in their order, although the page
\* may have a <b> or a <font> of its own.
StructureIsKept ==
    Omissible = {} =>
        /\ ~crossed
        /\ LET kept == {i \in DOMAIN output : ~output[i].inserted}
           IN  \E at \in [DOMAIN element -> kept] :
                    /\ \A i \in kept : \E k \in DOMAIN element : at[k] = i
                    /\ \A k \in DOMAIN element : output[at[k]].tag = element[k].tag
                    /\ \A j, k \in DOMAIN element : j < k => at[j] < at[k]
=============================================================================
