------------------------------- MODULE PeImages -------------------------------
(***************************************************************************)
(* What is read of a PE file: the exports and the identity that            *)
(* windbg-tool reports (pe_symbols.rs) and the identity that               *)
(* windbg-symbols looks up at the symbol server, with a reader of its own. *)
(*                                                                         *)
(* RVAs and file offsets are 0..Top, Top standing for 2^32 - 1.  A field   *)
(* is one cell of the file.  A string is known by the offset it starts at. *)
(* A table is given by the entries of it that are in the file.             *)
(***************************************************************************)
EXTENDS Integers, SequencesExt, FiniteSetsExt

Top == 7
Error == -1
Nothing == -2                  (* an Option that is None                   *)

MaxOf(a, b) == IF a < b THEN b ELSE a

\* Faulty: the sum wraps.
SaturatingAddWraps(a, b) == (a + b) % (Top + 1)

SaturatingAdd(a, b) == IF a + b > Top THEN Top ELSE a + b

-----------------------------------------------------------------------------
(* Sections: an address, the two sizes, and an offset into the file.       *)

Covers(section, rva) ==
  /\ section.address <= rva
  /\ rva < SaturatingAdd(section.address, MaxOf(section.virtual, section.raw))

\* Of the first section that covers it, also where the section has no bytes in the file.
UnboundedOffset(rva, sections) ==
  LET covering == SelectInSeq(sections, LAMBDA s : Covers(s, rva))
  IN IF covering = 0 THEN Error
     ELSE sections[covering].offset + (rva - sections[covering].address)

\* windbg-tool adds in 32 bits, windbg-symbols in 64.
FileOffset(rva, sections) ==
  LET offset == UnboundedOffset(rva, sections)
  IN IF offset = Error THEN Error ELSE offset % (Top + 1)

\* read_rva_c_string: from there to a zero or the end of the file.
StringAt(rva, image) ==
  LET offset == FileOffset(rva, image.sections)
  IN IF offset = Error \/ offset > image.length THEN Error ELSE offset

-----------------------------------------------------------------------------
(* Exports.                                                                *)

Failed == [ok |-> FALSE, exports |-> <<>>]
NoExports == [ok |-> TRUE, exports |-> <<>>]

\* Faulty: the byte behind the directory counts as part of it.
ForwardedClosed(rva, directory) ==
  directory.rva <= rva /\ rva <= SaturatingAdd(directory.rva, directory.size)

\* The RVA of a forwarder is inside the export directory.
Forwarded(rva, directory) ==
  directory.rva <= rva /\ rva < SaturatingAdd(directory.rva, directory.size)

\* The names in the order of their table: a later one takes the place of an earlier one.
NameOf(index, image) ==
  LET d == image.directory
      named == SelectLastInSubSeq(d.names, 1, d.nameCount, LAMBDA name : name.index = index)
  IN IF named = 0 THEN Nothing ELSE StringAt(d.names[named].rva, image)

ExportAt(index, image) ==
  LET rva == image.directory.functions[index + 1]
  IN [name |-> NameOf(index, image),
      ordinal |-> image.directory.base + index,
      rva |-> rva,
      forwarder |-> IF Forwarded(rva, image.directory) THEN StringAt(rva, image) ELSE Nothing]

(* One string that cannot be read and there are no exports at all.  The    *)
(* tables of names and of their ordinals stand for one.                    *)
ReadExports(image) ==
  LET d == image.directory
      Mapped(rva) == FileOffset(rva, image.sections) # Error
      used == SelectSeq([i \in 1..d.count |-> i - 1], LAMBDA index : d.functions[index + 1] # 0)
  IN IF d.rva = 0 \/ d.size = 0 THEN NoExports
     ELSE IF ~Mapped(d.rva) THEN Failed
     ELSE IF d.count = 0 THEN NoExports
     ELSE IF ~Mapped(d.functionsRva) \/ (d.nameCount > 0 /\ ~Mapped(d.namesRva)) THEN Failed
     ELSE IF d.nameCount > Len(d.names) \/ d.count > Len(d.functions) THEN Failed
     ELSE IF \E k \in 1..d.nameCount :
               d.names[k].index < d.count /\ StringAt(d.names[k].rva, image) = Error
          THEN Failed
     ELSE IF \E index \in ToSet(used) : ExportAt(index, image).forwarder = Error THEN Failed
     ELSE [ok |-> TRUE, exports |-> [i \in DOMAIN used |-> ExportAt(used[i], image)]]

SampleLimit == 1               (* 16 in the code                           *)

ExportSummary(exports) ==
  LET named == Cardinality({i \in DOMAIN exports : exports[i].name # Nothing})
  IN [count |-> Len(exports),
      named |-> named,
      ordinalOnly |-> Len(exports) - named,
      forwarded |-> Cardinality({i \in DOMAIN exports : exports[i].forwarder # Nothing}),
      sample |-> SubSeq(exports, 1, SampleLimit),
      truncated |-> Len(exports) > SampleLimit]

-----------------------------------------------------------------------------
(* The debug directory and the identity.                                   *)

(* What an entry is: of another type, a CodeView record outside the file,  *)
(* too short or of an unknown format, an RSDS record without a file name,  *)
(* a usable one, or the older NB10.                                        *)
DebugEntries == {"other", "outside", "short", "unnamed", "RSDS", "NB10"}

\* The entries at an offset that is given; behind the end they cannot be read.
EntriesAt(offset, image) ==
  [i \in 1..image.debugSize |->
     IF offset + i \in DOMAIN image.entries THEN image.entries[offset + i] ELSE "outside"]

\* The first of those the reader takes; one it cannot read before it is an error.
FirstOf(entries, taken) ==
  LET first == SelectInSeq(entries, LAMBDA entry : entry \in taken \cup {"outside"})
  IN IF first = 0 THEN "none" ELSE IF entries[first] = "outside" THEN "error" ELSE entries[first]

CodeView(image) ==
  IF image.debugRva = 0 \/ image.debugSize = 0 THEN "none"
  ELSE LET offset == FileOffset(image.debugRva, image.sections)
       IN IF offset = Error THEN "error"
          ELSE FirstOf(EntriesAt(offset, image), {"unnamed", "RSDS", "NB10"})

\* windbg-symbols: a name is needed, and NB10 is not known.
SymbolCodeView(image) ==
  IF image.debugRva = 0 \/ image.debugSize = 0 THEN "error"
  ELSE LET offset == UnboundedOffset(image.debugRva, image.sections)
           found == FirstOf(EntriesAt(offset, image), {"unnamed", "RSDS"})
       IN IF offset = Error \/ found \in {"none", "unnamed"} THEN "error" ELSE found

Headed(image) == image.signed /\ image.magic \in {"pe32", "pe32plus"}

\* diagnose_pe; "error" where it fails as a whole.
Diagnose(image) ==
  IF ~Headed(image) \/ ~image.sectionsReadable \/ ~ReadExports(image).ok THEN "error"
  ELSE CodeView(image)

\* inspect_pe_identity, for a name the caller knows or not.
Identify(image, named) ==
  IF ~Headed(image) \/ ~image.sectionsReadable \/ ~named THEN "error" ELSE SymbolCodeView(image)

\* Names that is_safe_file_name tells apart.
FileNames == {"", "image.dll", "..", "dir/image.dll", "dir\\image.dll", "c:image.dll"}
SafeFileName(name) == name = "image.dll"

\* inspect_pe_image_identity: the headers only.
ImageIdentity(image, name) ==
  IF Headed(image) /\ SafeFileName(name) THEN "identified" ELSE "error"

\* file_version_info: each step of it may fail, and only costs the version.
VersionStatus(resource) ==
  IF resource.size # 0 /\ resource.size <= resource.limit /\ resource.readable /\ resource.fixed /\ resource.signed
  THEN "captured" ELSE "unavailable"

\* bounded_pe_file_metadata; the file may have another size when it is read.
BoundedMetadata(regular, size, limit, image, resource) ==
  IF ~regular \/ size > limit \/ Diagnose(image) = "error" THEN <<"error">>
  ELSE <<"ok", Diagnose(image), VersionStatus(resource)>>

-----------------------------------------------------------------------------
(* Images to read: two sections, the second one with a part that is not in *)
(* the file, reaching the end of the address space or of the file.         *)

Section(a, v, r, o) == [address |-> a, virtual |-> v, raw |-> r, offset |-> o]
Layouts ==
  {<<>>,
   <<Section(1, 2, 2, 0), Section(3, 3, 1, 2)>>,
   <<Section(1, 2, 2, 2), Section(4, 4, 1, 1)>>,
   <<Section(1, 6, 6, 5)>>}

Names == [rva : {2, 4}, index : 0..2]
Directories ==
  [rva : {0, 1, 4}, size : {0, 2}, base : {1}, count : 0..2, functionsRva : {3}, namesRva : {5},
   functions : {<<>>, <<0, 3>>, <<2, 6>>, <<6, 1>>}, nameCount : {0, 2},
   names : {<<>>} \cup {<<a, b>> : a, b \in Names}]

Plain == [rva |-> 0, size |-> 0, base |-> 1, count |-> 0, functionsRva |-> 3, namesRva |-> 5,
          functions |-> <<>>, nameCount |-> 0, names |-> <<>>]

Image(sections, directory, rva, size, entries) ==
  [signed |-> TRUE, magic |-> "pe32plus", sectionsReadable |-> TRUE, sections |-> sections,
   directory |-> directory, debugRva |-> rva, debugSize |-> size, entries |-> entries, length |-> 4]

Exporting == {Image(l, d, 0, 0, <<>>) : l \in Layouts, d \in Directories}
Debuggable ==
  {Image(l, Plain, rva, size, entries) :
     l \in Layouts, rva \in {0, 1, 4, 5}, size \in 0..2, entries \in TupleOf(DebugEntries, 3)}

(* An address in the part of a section that is in the file is read from    *)
(* there, also at the end of the address space, unless the offset is none  *)
(* of 32 bits (rva_to_file_offset, of both crates).                        *)
OffsetsAreInTheirSection ==
  \A l \in Layouts, rva \in 0..(Top - 1) : \A i \in DOMAIN l :
    l[i].address <= rva /\ rva < l[i].address + l[i].raw =>
      /\ UnboundedOffset(rva, l) = l[i].offset + (rva - l[i].address)
      /\ UnboundedOffset(rva, l) <= Top => FileOffset(rva, l) = UnboundedOffset(rva, l)

(* Every function that has an address is listed once, in the order of its  *)
(* ordinal; its name is one the name table gives it, the last of several;  *)
(* it has a forwarder exactly if its address is inside the directory; and  *)
(* the summary counts each of them, sampled or not (read_exports,          *)
(* export_summary).                                                        *)
ExportsAreComplete ==
  \A image \in Exporting :
    LET d == image.directory
        read == ReadExports(image)
        summary == ExportSummary(read.exports)
        entry == read.exports
    IN read.ok /\ entry # <<>> =>
         /\ {entry[i].ordinal - d.base : i \in DOMAIN entry} = {i \in 0..(d.count - 1) : d.functions[i + 1] # 0}
         /\ \A i, k \in DOMAIN entry : i < k => entry[i].ordinal < entry[k].ordinal
         /\ \A i \in DOMAIN entry :
              LET named == {k \in 1..d.nameCount : d.names[k].index = entry[i].ordinal - d.base}
              IN /\ entry[i].name = IF named = {} THEN Nothing ELSE StringAt(d.names[Max(named)].rva, image)
                 /\ entry[i].forwarder # Nothing <=> entry[i].rva \in d.rva..(d.rva + d.size - 1)
         /\ summary.named + summary.ordinalOnly = summary.count
         /\ ~summary.truncated => Len(summary.sample) = summary.count

(* The two readers find the same identity wherever both find one, unless   *)
(* an NB10 record stands before the RSDS one; and where windbg-symbols     *)
(* finds one, windbg-tool fails only over its exports (read_codeview, of   *)
(* both crates).                                                           *)
ReadersAgree ==
  \A image \in Debuggable :
    LET identity == Identify(image, TRUE)
    IN identity # "error" =>
         /\ Diagnose(image) \in {identity, "NB10"}
         /\ Diagnose(image) = "NB10" => Contains(image.entries, "NB10")
         /\ ImageIdentity(image, "image.dll") # "error"
=============================================================================
