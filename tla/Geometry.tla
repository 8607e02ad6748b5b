------------------------------ MODULE Geometry ------------------------------
(***************************************************************************)
(* The geometry that the block drivers report for HDIO_GETGEO, against the *)
(* capacity that they give their disk.  A geometry of h heads, s sectors   *)
(* per track and c cylinders describes h * s * c sectors; "cylinders" is   *)
(* an unsigned short.                                                      *)
(***************************************************************************)
EXTENDS Integers, TLAPS

Short(n) == n % 65536
Geo(cylinders) == [heads |-> 4, sectors |-> 16, cylinders |-> Short(cylinders)]
Described(geo) == geo.heads * geo.sectors * geo.cylinders

\* ioctl.c, of xbc, xbe and dubfl: from the parameter size, in megabytes.
GetGeo(diskmb) == Geo((((diskmb * 1024) * 2) \div 4) \div 16)
\* The capacity of xbc and xbe; an int holds the bytes of less than 2048 MB.
Capacity(diskmb) == (diskmb * 1024 * 1024) \div 512

\* lab2_block.c divides the size in bytes, with its last bits cleared, by 64.
Lab2GetGeo(diskmb) == Geo((diskmb * 1024 * 1024) \div 64)

\* sbull.c does the same with nsectors * hardsect_size bytes.
SbullGetGeo(nsectors, hardsect) ==
    Geo(((nsectors * hardsect) * (hardsect \div 512)) \div 64)
SbullCapacity(nsectors, hardsect) == nsectors * (hardsect \div 512)

-----------------------------------------------------------------------------
\* ioctl.c:13-17: the geometry of a ram disk describes the whole disk, for every
\* size whose bytes fit an int.
THEOREM RamGeometryIsCapacity ==
    ASSUME NEW diskmb \in Nat, diskmb < 2048
    PROVE  Described(GetGeo(diskmb)) = Capacity(diskmb)
<1>1. ((diskmb * 1024 * 2) \div 4) \div 16 = diskmb * 32
  BY SMT
<1>2. Short(diskmb * 32) = diskmb * 32
  BY SMT DEF Short
<1>3. Capacity(diskmb) = diskmb * 2048
  BY SMT DEF Capacity
<1> QED
  BY <1>1, <1>2, <1>3, SMT DEF GetGeo, Geo, Described

\* lab2_block.c:56 wants the total capacity; what is reported repeats every 4 MB
\* and is empty for the default of 128 MB, since bytes are taken for sectors.
THEOREM Lab2GeometryWraps ==
    ASSUME NEW k \in Nat
    PROVE  Described(Lab2GetGeo(4 * k)) = 0
<1>1. (4 * k * 1024 * 1024) \div 64 = 65536 * k
  BY SMT
<1>2. Short(65536 * k) = 0
  BY SMT DEF Short
<1> QED
  BY <1>1, <1>2, SMT DEF Lab2GetGeo, Geo, Described

\* sbull.c:296: with sectors of 512 bytes, the geometry describes 512 times the
\* disk, as long as the cylinders fit.
THEOREM SbullGeometryTooLarge ==
    ASSUME NEW nsectors \in Nat, nsectors < 8192
    PROVE  Described(SbullGetGeo(nsectors, 512)) = 512 * SbullCapacity(nsectors, 512)
<1>1. ((nsectors * 512) * (512 \div 512)) \div 64 = nsectors * 8
  BY SMT
<1>2. Short(nsectors * 8) = nsectors * 8
  BY SMT DEF Short
<1>3. SbullCapacity(nsectors, 512) = nsectors
  BY SMT DEF SbullCapacity
<1> QED
  BY <1>1, <1>2, <1>3, SMT DEF SbullGetGeo, Geo, Described
=============================================================================
