---------------------------- MODULE PageEntries ----------------------------
(***************************************************************************)
(* The paging-structure entries of page.h.  Each union lays a bit-field    *)
(* struct over the raw 64-bit word, so a field is a fixed range of bits of *)
(* that word and copying "raw" from one union to another (pde_2mb.raw =    *)
(* pde.raw) reinterprets the same bits.  Only the fields that steer the    *)
(* walk or enter the physical address are named.                           *)
(***************************************************************************)
EXTENDS Words

Present(e)   == 0 \in e    \* p, bit 0 in every union
LargePage(e) == 7 \in e    \* ps, bit 7, in the entries that may map a large page

PML4Entry_to_pdpt(e)    == extract(e, 12, 40)
PDPTEntry1GB_to_page(e) == extract(e, 30, 22)
PDPTEntry_to_pd(e)      == extract(e, 12, 40)
PDEntry2MB_to_page(e)   == extract(e, 21, 31)
PDEntry4MB_page_high(e) == extract(e, 13, 8)
PDEntry4MB_to_page(e)   == extract(e, 22, 10)
PDEntry_to_pt(e)        == extract(e, 12, 40)
PTEntry_to_page(e)      == extract(e, 12, 40)
=============================================================================
