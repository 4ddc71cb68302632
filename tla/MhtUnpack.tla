----------------------------- MODULE MhtUnpack -----------------------------
(***************************************************************************)
(* unpack_mht: one walk over the parts of an MHT archive that writes the   *)
(* resources next to each other under safe names, then one pass over the   *)
(* references of the root page that makes them point at those files.       *)
(*                                                                         *)
(* A name or an address is a sequence of tokens, and its length stands     *)
(* for its width: an address is its directory, if any, followed by the     *)
(* tokens of its last segment.                                             *)
(***************************************************************************)
EXTENDS Naturals, Sequences, FiniteSets, SequencesExt

CONSTANTS
    Tokens,        \* what names and addresses are made of
    Directories,   \* tokens that end with a path separator
    Unsafe,        \* tokens outside the allowed characters of a file name
    Locations,     \* the Content-Locations a part may have; NoName for none
    ContentIds,    \* the Content-IDs a part may have; NoName for none
    Payloads,      \* what a part may decode to
    Size,          \* how long each of them is
    MaxParts,      \* _MAX_MHT_PARTS
    MaxBytes,      \* _MAX_MHT_TOTAL_BYTES
    MaxWalk,       \* bound: parts of an archive
    Numbers        \* the tokens _1, _2, ... that tell equal names apart

NoName == <<>>
Document == <<"document.html">>

ASSUME MhtAssumption ==
    /\ MaxParts \in Nat \ {0} /\ MaxBytes \in Nat \ {0} /\ MaxWalk \in Nat
    /\ Size \in [Payloads -> Nat \ {0}]
    /\ NoName \in Locations /\ NoName \in ContentIds

\* A number can always be found for one more name, a directory stands only at
\* the beginning of an address, and the tokens the unpacker makes names of are
\* safe.
ASSUME TokenAssumption ==
    /\ Locations \cup ContentIds \subseteq Seq(Tokens)
    /\ Numbers \in Seq(Tokens) /\ MaxWalk <= Len(Numbers)
    /\ \A i, k \in DOMAIN Numbers : Numbers[i] = Numbers[k] => i = k
    /\ \A l \in Locations : \A i \in DOMAIN l : l[i] \in Directories => i = 1
    /\ \A n \in DOMAIN Numbers : Numbers[n] \notin Directories \cup Unsafe \cup {"_"}
    /\ {"_", "part"} \cup Payloads \subseteq Tokens \ Directories

VARIABLES
    mht,        \* "idle", "walking", "walked", "rewritten", "page" or "none"
    parts,      \* parts walked past so far
    rootFound,  \* html_part is not None
    usedNames,  \* used_names
    placed,     \* the parts written so far with their names, in order
    bytesWritten,
    cidMap,     \* cid_map, as a sequence of key and value
    urlMap,     \* url_map, in the order of the dict
    files,      \* the output directory: name -> payload
    links       \* the references of the page, as they now read

mhtVars == <<mht, parts, rootFound, usedNames, placed, bytesWritten, cidMap, urlMap, files, links>>

Part == [cid : ContentIds, loc : Locations, payload : Payloads]

\* What the page may refer to: a part by its location, by the bare name in
\* it, or by its id.
CidLink(c) == <<"cid:">> \o c

LastSegment(loc) == IF loc # NoName /\ Head(loc) \in Directories THEN Tail(loc) ELSE loc

References ==
    (Locations \cup {LastSegment(l) : l \in Locations}
        \cup {CidLink(c) : c \in ContentIds \ {NoName}}) \ {NoName}

MhtInit ==
    /\ mht = "idle" /\ parts = 0 /\ rootFound = FALSE
    /\ usedNames = {} /\ placed = <<>> /\ bytesWritten = 0
    /\ cidMap = <<>> /\ urlMap = <<>>
    /\ files = [n \in {} |-> NoName] /\ links = [r \in {} |-> NoName]

-----------------------------------------------------------------------------
(* Names.                                                                  *)

\* _safe_filename: the last segment, its unsafe characters replaced and its
\* outer ones stripped.
Underscored(name) == [i \in DOMAIN name |-> IF name[i] \in Unsafe THEN "_" ELSE name[i]]

Stripped(name) ==
    LET kept == {i \in DOMAIN name : name[i] # "_"}
    IN  IF kept = {} THEN NoName
        ELSE SubSeq(name, CHOOSE i \in kept : \A k \in kept : i <= k,
                          CHOOSE i \in kept : \A k \in kept : i >= k)

SafeFilename(loc, fallback) ==
    LET name == Stripped(Underscored(LastSegment(loc)))
    IN  IF name = NoName THEN fallback ELSE name

Fallback(part) == <<"part", part.payload>>

NameAsIs(base) == base

\* The first of base, base_1, base_2, ... that no part took.
FreeName(base) ==
    IF base \notin usedNames THEN base
    ELSE LET n == CHOOSE k \in DOMAIN Numbers :
                    /\ Append(base, Numbers[k]) \notin usedNames
                    /\ \A i \in 1..(k - 1) : Append(base, Numbers[i]) \in usedNames
         IN  Append(base, Numbers[n])

\* dict assignment: a key that is there keeps its place.
Put(map, key, value) ==
    IF \E i \in DOMAIN map : map[i].key = key
    THEN [i \in DOMAIN map |-> IF map[i].key = key THEN [key |-> key, value |-> value] ELSE map[i]]
    ELSE Append(map, [key |-> key, value |-> value])

PutCid(part, name) ==
    IF part.cid = NoName THEN cidMap ELSE Put(cidMap, part.cid, name)

PutLocation(part, name) ==
    LET bare == SafeFilename(part.loc, NoName)
        whole == Put(urlMap, part.loc, name)
    IN  IF part.loc = NoName THEN urlMap
        ELSE IF bare \in {NoName, part.loc} THEN whole
        ELSE Put(whole, bare, name)

-----------------------------------------------------------------------------
(* The walk.                                                               *)

BeginWalk ==
    /\ mht = "idle"
    /\ mht' = "walking"
    /\ UNCHANGED <<parts, rootFound, usedNames, placed, bytesWritten, cidMap, urlMap, files, links>>

\* The archive cannot be read, or its envelope cannot be parsed.
Unreadable ==
    /\ mht = "idle"
    /\ mht' = "none"
    /\ UNCHANGED <<parts, rootFound, usedNames, placed, bytesWritten, cidMap, urlMap, files, links>>

NextPart == mht = "walking" /\ parts < MaxWalk /\ parts' = parts + 1

\* A container, or a part that does not decode to bytes.
SkipPart ==
    /\ NextPart
    /\ UNCHANGED <<mht, rootFound, usedNames, placed, bytesWritten, cidMap, urlMap, files, links>>

\* The first text/html part is the page; a later one is a resource.
TakeRoot ==
    /\ NextPart
    /\ ~rootFound /\ rootFound' = TRUE
    /\ UNCHANGED <<mht, usedNames, placed, bytesWritten, cidMap, urlMap, files, links>>

AtCap == Len(placed) >= MaxParts \/ bytesWritten >= MaxBytes

StorePart(part) ==
    /\ NextPart /\ ~AtCap
    /\ LET name == FreeName(SafeFilename(part.loc, Fallback(part)))
       IN  /\ usedNames' = usedNames \cup {name}
           /\ files' = [n \in DOMAIN files \cup {name} |->
                            IF n = name THEN part.payload ELSE files[n]]
           /\ placed' = Append(placed, [part |-> part, name |-> name])
           /\ bytesWritten' = bytesWritten + Size[part.payload]
           /\ cidMap' = PutCid(part, name)
           /\ urlMap' = PutLocation(part, name)
    /\ UNCHANGED <<mht, rootFound, links>>

\* write_bytes raises OSError: the name stays taken, the part is left out.
StoreFails(part) ==
    /\ NextPart /\ ~AtCap
    /\ usedNames' = usedNames \cup {FreeName(SafeFilename(part.loc, Fallback(part)))}
    /\ UNCHANGED <<mht, rootFound, placed, bytesWritten, cidMap, urlMap, files, links>>

\* One resource too many ends the walk, and a page behind it is not seen.
CapReached ==
    /\ NextPart /\ AtCap
    /\ mht' = "walked"
    /\ UNCHANGED <<rootFound, usedNames, placed, bytesWritten, cidMap, urlMap, files, links>>

EndWalk ==
    /\ mht = "walking"
    /\ mht' = "walked"
    /\ UNCHANGED <<parts, rootFound, usedNames, placed, bytesWritten, cidMap, urlMap, files, links>>

-----------------------------------------------------------------------------
(* The page.                                                               *)

\* No root page, or one whose charset or payload does not decode.
NoPage ==
    /\ mht = "walked"
    /\ mht' = "none"
    /\ UNCHANGED <<parts, rootFound, usedNames, placed, bytesWritten, cidMap, urlMap, files, links>>

\* rewrite_cid
RewriteCid(link) ==
    IF \E i \in DOMAIN cidMap : CidLink(cidMap[i].key) = link
    THEN cidMap[CHOOSE i \in DOMAIN cidMap : CidLink(cidMap[i].key) = link].value
    ELSE link

BeforeAsMet(i, k) == i < k

\* sorted(url_map, key=len, reverse=True): a stable sort, longest first.
Before(i, k) ==
    \/ Len(urlMap[i].key) > Len(urlMap[k].key)
    \/ Len(urlMap[i].key) = Len(urlMap[k].key) /\ i < k

LastKey(keys) == CHOOSE k \in keys : \A i \in keys \ {k} : Before(i, k)

Earlier(k) == {i \in DOMAIN urlMap : Before(i, k)}

ReplaceKey(i, link) == ReplaceFirstSubSeq(urlMap[i].value, urlMap[i].key, link)

\* repl of _rewrite_html_resource_urls: every key in turn is replaced in what
\* the keys before it left; no reference has a key twice.
RewriteUrl(link) ==
    LET rewritten[k \in DOMAIN urlMap] ==
            ReplaceKey(k, IF Earlier(k) = {} THEN link
                          ELSE rewritten[LastKey(Earlier(k))])
    IN  IF urlMap = <<>> THEN link ELSE rewritten[LastKey(DOMAIN urlMap)]

RewriteLinks ==
    /\ mht = "walked" /\ rootFound
    /\ mht' = "rewritten"
    /\ links' = [r \in References |-> RewriteUrl(RewriteCid(r))]
    /\ UNCHANGED <<parts, rootFound, usedNames, placed, bytesWritten, cidMap, urlMap, files>>

\* document.html is written last, over a resource of that name.
WritePage ==
    /\ mht = "rewritten"
    /\ \/ /\ mht' = "page"
          /\ files' = [n \in DOMAIN files \cup {Document} |->
                            IF n = Document THEN "page" ELSE files[n]]
       \/ mht' = "none" /\ UNCHANGED files
    /\ UNCHANGED <<parts, rootFound, usedNames, placed, bytesWritten, cidMap, urlMap, links>>

MhtNext ==
    \/ BeginWalk \/ Unreadable
    \/ SkipPart \/ TakeRoot \/ CapReached \/ EndWalk
    \/ \E part \in Part : StorePart(part) \/ StoreFails(part)
    \/ NoPage \/ RewriteLinks \/ WritePage

MhtSpec == MhtInit /\ [][MhtNext]_mhtVars

-----------------------------------------------------------------------------
(* Properties.                                                             *)

\* The bytes of the parts.
Total(stored) ==
    LET sum[i \in 0..Len(stored)] ==
            IF i = 0 THEN 0 ELSE sum[i - 1] + Size[stored[i].part.payload]
    IN  sum[Len(stored)]

\* A resource that was written is still there, whole, under the name it was
\* given, whatever its neighbours are called and whichever writes failed; only
\* the page itself may take the place of one, the one named like it.  No more
\* than MaxParts are written, and the last one alone may pass MaxBytes.
ResourcesSurvive ==
    /\ \A i \in DOMAIN placed :
            placed[i].name # Document => files[placed[i].name] = placed[i].part.payload
    /\ Len(placed) <= MaxParts
    /\ placed # <<>> => Total(Front(placed)) < MaxBytes

\* The parts a reference may be meant for.
Meant(ref) ==
    {i \in DOMAIN placed : \/ placed[i].part.loc = ref
                           \/ /\ placed[i].part.cid # NoName
                              /\ ref = CidLink(placed[i].part.cid)}

Resolved == mht \in {"rewritten", "page"}

\* Every part has the bare name in its location, as it stands: no name needed
\* a number or a safe spelling, and none is the page's.
PlainNames ==
    \A i \in DOMAIN placed :
        LastSegment(placed[i].part.loc) # NoName =>
            placed[i].name = LastSegment(placed[i].part.loc) /\ placed[i].name # Document

\* In an archive with plain names a reference to one part, by location or by
\* id, ends as the name of that part's file, although the address of one part
\* may be the beginning of another's: the longest key is replaced first.
PlainLinksResolve ==
    Resolved /\ PlainNames =>
        \A ref \in References :
            Cardinality(Meant(ref)) = 1 =>
                \E i \in Meant(ref) : links[ref] = placed[i].name

\* "write sibling parts (images, CSS) next to it, rewrite cid: and
\* Content-Location references to point at the local copies"
\* (mht_unpack.py:10-12): a reference that names one part of the archive
\* exactly ends as the name of that part's file.
LinksResolve ==
    Resolved =>
        \A ref \in References :
            Cardinality(Meant(ref)) = 1 =>
                \E i \in Meant(ref) : links[ref] = placed[i].name
=============================================================================
