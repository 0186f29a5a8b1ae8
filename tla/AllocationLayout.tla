-------------------------- MODULE AllocationLayout --------------------------
(***************************************************************************)
(* How MemoryAllocatorEngine lays out a block (memory_facade.h), over the  *)
(* size classes of central_pool.h: header, guards and user bytes, in a     *)
(* block of a span or in a region of its own.  A behaviour is one request, *)
(* allocated, written to by its client and deallocated.  Numbers are those *)
(* of the program, except that the word ends at MaxWord.                   *)
(***************************************************************************)
EXTENDS Integers, Sequences, FiniteSets, FiniteSetsExt, SequencesExt

CONSTANTS
  MaxWord,      \* the largest std::size_t
  PageSize,
  RegionBases,  \* where the system may put a region
  SizesAsked,   \* bound: Descriptor.Size
  Alignments,   \* bound: Descriptor.Alignment
  None

HeaderBytes == 40     \* sizeof(DebugHeader)
GuardBytes == 16
MaxAlign == 16        \* alignof(std::max_align_t)
PointerAlign == 8     \* alignof(void*)
Uint16Max == 65535

VARIABLES
  guards,    \* MemoryCompileEnableDebugGuards, a choice of the build
  request,   \* Descriptor
  layout,    \* Context.Layout
  raw,       \* RawPtr
  user,      \* UserPtr
  pc,
  touched,   \* offsets from user that the client wrote, out of its bounds
  corrupt    \* a GuardCorruption event was emitted

vars == <<guards, request, layout, raw, user, pc, touched, corrupt>>

(* checkedAdd and alignUp: the first refuses to wrap, the second wraps.    *)
Fits(a, b) == a <= MaxWord - b
AlignUp(v, a) == (((v + a - 1) % (MaxWord + 1)) \div a) * a
IsPowerOfTwo(n) == \E k \in 0 .. 30 : n = 2^k

-----------------------------------------------------------------------------
(* Size classes                                                            *)

SizeClasses == <<
  8, 16, 24, 32, 40, 48, 56, 64, 80, 96, 112, 128, 160, 192, 224, 256,
  320, 384, 448, 512, 640, 768, 896, 1024, 1280, 1536, 1792, 2048, 2560, 3072, 3584, 4096,
  5120, 6144, 7168, 8192, 10240, 12288, 14336, 16384, 20480, 24576, 28672, 32768,
  40960, 49152, 57344, 65536, 81920, 98304, 114688, 131072, 163840, 196608, 229376, 262144 >>
Classes == DOMAIN SizeClasses
ClassQuantum == 8

(* sizeToClassIndex: the lookup table has an entry for each multiple of    *)
(* ClassQuantum, the first class that is not smaller.                      *)
Bucket(size) == (size + ClassQuantum - 1) \div ClassQuantum
Lookup(bucket) == Min({c \in Classes : SizeClasses[c] >= bucket * ClassQuantum})
SizeToClass(size) ==
  IF size = 0 \/ size > Last(SizeClasses) THEN None ELSE Lookup(Bucket(size))

ClassToSize(c) == AlignUp(SizeClasses[c], MaxAlign)

(* buildSizeClass: the pages and blocks of a span.                         *)
SpanOf(c) ==
  LET size == ClassToSize(c)
      wanted == Max({32, (IF size <= 4096 THEN 131072 ELSE 262144) \div size})
      pages == Max({1, AlignUp(wanted * size, PageSize) \div PageSize})
  IN [size |-> size,
      blocks |-> Min({(pages * PageSize) \div size, Uint16Max}),
      pages |-> Min({pages, Uint16Max})]

-----------------------------------------------------------------------------
(* The pipeline                                                            *)

Init ==
  /\ guards \in BOOLEAN
  /\ request \in [size : SizesAsked, alignment : Alignments]
  /\ layout = None /\ raw = 0 /\ user = 0
  /\ pc = "validate"
  /\ touched = {} /\ corrupt = FALSE

Header == IF guards THEN HeaderBytes ELSE 0
Guard == IF guards THEN GuardBytes ELSE 0

(* validateRequest                                                         *)
Validate ==
  /\ pc = "validate"
  /\ IF request.size = 0 \/ ~ IsPowerOfTwo(request.alignment)
       THEN pc' = "failed" /\ UNCHANGED request
       ELSE pc' = "layout" /\ request' = [request EXCEPT !.alignment = Max({@, PointerAlign})]
  /\ UNCHANGED <<guards, layout, raw, user, touched, corrupt>>

UserOffset == AlignUp(Header + Guard, request.alignment)
Total(offset) == offset + request.size + Guard
TotalFits(offset) == Fits(offset, request.size) /\ Fits(offset + request.size, Guard)

(* buildLayout, which deallocate runs over the same descriptor.            *)
SmallClass ==
  IF request.alignment <= MaxAlign THEN SizeToClass(Total(UserOffset)) ELSE None
IsSmall == TotalFits(UserOffset) /\ SmallClass # None
TooLarge == ~ TotalFits(UserOffset) \/ (~ IsSmall /\ ~ Fits(Total(UserOffset), request.alignment))
Built ==
  IF IsSmall
    THEN [small |-> TRUE, offset |-> UserOffset, total |-> ClassToSize(SmallClass)]
    ELSE [small |-> FALSE, offset |-> UserOffset,
          total |-> AlignUp(Total(UserOffset) + request.alignment, PageSize)]

BuildLayout ==
  /\ pc = "layout"
  /\ IF TooLarge THEN pc' = "failed" /\ UNCHANGED layout
     ELSE pc' = "allocate" /\ layout' = Built
  /\ UNCHANGED <<guards, request, raw, user, touched, corrupt>>

(* allocateRawBlock: a block of a span, blocks lie one after another from  *)
(* the start of a page; ...                                                *)
AllocateSmall ==
  /\ pc = "allocate" /\ layout.small
  /\ \E base \in RegionBases, i \in {0, 1, SpanOf(SmallClass).blocks - 1} :
       raw' = base + i * layout.total
  /\ user' = raw' + layout.offset
  /\ pc' = "live"
  /\ UNCHANGED <<guards, request, layout, touched, corrupt>>

(* ... or a region, in which the user address is aligned again.  reserve   *)
(* refuses a size that has wrapped to zero.                                *)
AllocateDedicated ==
  /\ pc = "allocate" /\ ~ layout.small
  /\ \E base \in RegionBases :
       LET at == AlignUp(base + Header + Guard, request.alignment)
           offset == (at - base) % (MaxWord + 1)
           given == layout.total # 0 /\ base <= MaxWord - layout.total
           enough == TotalFits(offset) /\ Total(offset) <= layout.total
       IN /\ pc' = (IF ~ given THEN "failed" ELSE IF enough THEN "live" ELSE "tail")
          /\ raw' = base /\ user' = at
          /\ layout' = [layout EXCEPT !.offset = offset]
  /\ UNCHANGED <<guards, request, touched, corrupt>>

(* The client writes next to its bytes.                                    *)
WriteOutside ==
  /\ pc = "live" /\ guards /\ touched = {}
  /\ \E at \in {-1, request.size, request.size + GuardBytes - 1} : touched' = {at}
  /\ UNCHANGED <<guards, request, layout, raw, user, pc, corrupt>>

(* initializeLayout writes header and guards, destroyLayout reads them.    *)
FrontGuardAt == raw + Header .. raw + Header + Guard - 1
BackGuardAt == user + request.size .. user + request.size + Guard - 1
Damaged == {user + o : o \in touched} \cap (FrontGuardAt \cup BackGuardAt) # {}

(* deallocate: the raw address of a small block is computed anew.          *)
Deallocate ==
  /\ pc = "live"
  /\ raw' = (IF layout.small THEN user - Built.offset ELSE raw)
  /\ layout' = (IF layout.small THEN Built ELSE layout)
  /\ corrupt' = Damaged
  /\ pc' = "freed"
  /\ UNCHANGED <<guards, request, user, touched>>

Rest == pc \in {"failed", "tail", "freed"} /\ UNCHANGED vars

Next ==
  \/ Validate \/ BuildLayout \/ AllocateSmall \/ AllocateDedicated
  \/ WriteOutside \/ Deallocate \/ Rest

Spec == Init /\ [][Next]_vars

-----------------------------------------------------------------------------
(* buildLayout and allocateRawBlock: the user bytes are aligned, lie behind*)
(* the header and the front guard and end, with the back guard, inside the *)
(* block or region, whatever the sizes, also at the end of the word; the   *)
(* check of RequiredTail is never what fails.                              *)
LayoutSound ==
  /\ pc # "tail"
  /\ pc \in {"live", "freed"} =>
       /\ user % request.alignment = 0
       /\ raw + Header + Guard <= user
       /\ user + request.size + Guard <= raw + layout.total
       /\ raw + layout.total - 1 <= MaxWord

(* sizeToClassIndex: the class it finds is the smallest that fits.         *)
ClassFits ==
  (pc = "layout" /\ TotalFits(UserOffset)) =>
    LET total == Total(UserOffset)
        fitting == {c \in Classes : ClassToSize(c) >= total} IN
    /\ SizeToClass(total) = None => fitting = {}
    /\ fitting # {} => /\ SizeToClass(total) \in fitting
                      /\ ClassToSize(SizeToClass(total)) = Min({ClassToSize(c) : c \in fitting})

(* buildSizeClass: the blocks of a span lie inside its pages, there are    *)
(* enough of them to be worth a span, and both counts fit their fields.    *)
SpansFit ==
  pc = "validate" => \A c \in Classes : LET s == SpanOf(c) IN
    /\ s.blocks * s.size <= s.pages * PageSize
    /\ (s.blocks + 1) * s.size > s.pages * PageSize
    /\ s.blocks >= 32

(* initializeLayout and destroyLayout: a write just behind the block is    *)
(* reported when it is freed, one just before it unless the alignment has  *)
(* put padding between the guard and the block, and nothing else is.       *)
CorruptionReported ==
  pc = "freed" =>
    /\ corrupt => touched # {}
    /\ \A o \in touched : corrupt \/ (o < 0 /\ user - raw > Header + Guard)

LayoutExact == LayoutSound /\ ClassFits /\ SpansFit /\ CorruptionReported
=============================================================================
