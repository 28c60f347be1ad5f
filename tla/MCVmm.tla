------------------------------- MODULE MCVmm --------------------------------
(***************************************************************************)
(* Small instances of Vmm.  Two of the 512 table indices are in use, 0 and *)
(* 256.  In the first, vmm_init maps the image's page at its own address   *)
(* and a page of the direct map; clients use both places and one that      *)
(* shares only the pml4 and the pdpt with them.  In the second it maps a   *)
(* page in the kernel half.                                                *)
(***************************************************************************)
EXTENDS Vmm

MCIndices == {0, 256}

MCVPages == {<<0, 0, 0, 0>>, <<0, 0, 0, 256>>, <<0, 256, 0, 0>>}

MCBootMaps == <<[virt |-> <<0, 0, 0, 0>>, page |-> 1, kind |-> "low"],
                [virt |-> <<0, 0, 0, 256>>, page |-> 8, kind |-> "direct"]>>

MCKernelVPages == {<<0, 0, 0, 0>>, <<256, 0, 0, 0>>}

MCKernelBootMaps == <<[virt |-> <<256, 0, 0, 0>>, page |-> 1, kind |-> "rodata"]>>

MCFlagSets == {{"WRITABLE", "USER"}}
=============================================================================
