---------------------------- MODULE MCBootMemory ----------------------------
EXTENDS BootMemory

\* Pages of 4 bytes, bytes of 2 bits, addresses below 256: 64 frames, of which
\* the first 32 are the lower half.  The low memory ends at frame 4, the image
\* is frames 4 to 6, and a page of the bitmap holds the bits of 8 frames.
Entry(addr, end, type) == [addr |-> addr, len |-> end - addr, type |-> type]

\* Low memory with its reserved end, memory from the image up with a reserved
\* end, and what may follow: nothing, a region in the upper half, or memory
\* above what an address reaches.  The ends are not all page-aligned.
Above == {<<>>, <<Entry(240, 256, 2)>>, <<Entry(192, 224, 2)>>, <<Entry(256, 304, 1)>>,
          <<Entry(240, 256, 2), Entry(256, 296, 1)>>}

PlainMaps ==
  {<<Entry(0, low, 1), Entry(low, 16, 2), Entry(16, top, 1), Entry(top, top + 8, 2)>> :
     low \in {10, 12}, top \in {28, 52, 54, 80}}

MCMaps ==
  {map \o more : map \in PlainMaps, more \in Above}
    \union {<<Entry(0, 16, 2), Entry(16, 40, 1), Entry(40, 46, 2), Entry(46, 80, 1)>>,
            <<Entry(16, 40, 1), Entry(0, 16, 2)>>,      \* not in order
            <<Entry(0, 12, 1), Entry(32, 80, 1)>>,      \* nothing below the kernel
            <<Entry(0, 160, 1)>>,                       \* up to the upper half
            <<Entry(0, 40, 1), Entry(40, 256, 2)>>,     \* reserved from half to half
            <<Entry(0, 40, 1), Entry(256, 512, 1), Entry(40, 46, 2)>>} \* cut to length 0

MCContents == {{}, 0..127, {f \in 0..127 : f % 3 = 0}}
Cleared == {{}}
=============================================================================
