------------------------------- MODULE Gzip --------------------------------
(***************************************************************************)
(* pitaya::utils::Decompress (src/utils/gzip.cpp): inflate is called again *)
(* and again, with the output block enlarged by twice the size of the      *)
(* input each time, until it leaves a part of the block unused.            *)
(*                                                                         *)
(* zlib and realloc are external.  Of the data only sizes matter: inflate  *)
(* writes the output in order, so that the bytes written so far are a      *)
(* prefix of the content.                                                  *)
(***************************************************************************)
EXTENDS Integers

VARIABLES
    zpc,              \* "idle", "realloc", "inflate" or "returned"
    size,             \* bytes of input
    stream,           \* what they are: the size of the content that can be inflated,
                      \* and whether the stream is "whole", "truncated" or "corrupt" after it
    output,           \* the block at *output: its size, or -1 for NULL
    size_uncompressed,
    output_size,      \* *output_size
    avail_out,        \* inflate_s.avail_out
    open,             \* inflate_s is between inflateInit2 and inflateEnd
    rc,               \* the value returned
    \* zlib
    inflated,         \* bytes inflate has written
    failed            \* inflate has returned an error

gzipVars == << zpc, size, stream, output, size_uncompressed, output_size, avail_out,
               open, rc, inflated, failed >>

Z_OK == 0
Z_MEM_ERROR == -4

GzipInit ==
    /\ zpc = "idle"
    /\ size = 0 /\ stream = [content |-> 0, end |-> "whole"]
    /\ output = -1 /\ size_uncompressed = 0 /\ output_size = 0 /\ avail_out = 0
    /\ open = FALSE /\ rc = Z_OK
    /\ inflated = 0 /\ failed = FALSE

\* Decompress is called; its callers set *output and *output_size to zero.
\* inflateInit2 may fail.
CallDecompress(n, s) ==
    /\ zpc = "idle"
    /\ size' = n /\ stream' = s
    /\ size_uncompressed' = 0
    /\ output' = -1 /\ output_size' = 0
    /\ inflated' = 0 /\ failed' = FALSE
    /\ \/ open' = TRUE /\ zpc' = "realloc" /\ UNCHANGED rc
       \/ open' = FALSE /\ zpc' = "returned" /\ rc' = 1
    /\ UNCHANGED avail_out

\* Mutant of resize_to: the new block is as large as the old one.
resize_to_same == 2 * size

resize_to == size_uncompressed + 2 * size

\* realloc fails when there is no memory left, and leaves the block as it is.
\* For a size of zero it gives a block too, as it does on macOS.
Realloc ==
    /\ zpc = "realloc"
    /\ \/ /\ output' = resize_to
          /\ avail_out' = 2 * size
          /\ zpc' = "inflate"
          /\ UNCHANGED rc
       \/ /\ rc' = Z_MEM_ERROR
          /\ zpc' = "returned"
          /\ UNCHANGED << output, avail_out >>
    /\ UNCHANGED << size, stream, size_uncompressed, output_size, open, inflated, failed >>

Least(m, n) == IF m <= n THEN m ELSE n

\* inflate(Z_FINISH) without an error: it writes what there is and what fits.
\* The end of a truncated stream (Z_BUF_ERROR) is no error either.
\* It comes to the end of a corrupt stream only when the output is full.
InflateOk ==
    LET n == Least(avail_out, stream.content - inflated) IN
    /\ inflated' = inflated + n
    /\ avail_out' = avail_out - n
    /\ UNCHANGED failed
    /\ stream.end = "corrupt" => avail_out' = 0

\* inflate finds the error of a corrupt stream, or has no memory.  Without input
\* it asks for more (Z_BUF_ERROR), which is no error here.
InflateError ==
    /\ size > 0
    /\ \E n \in 0..Least(avail_out, stream.content - inflated) :
          /\ inflated' = inflated + n
          /\ avail_out' = avail_out - n
    /\ failed' = TRUE

inflateEnd == open' = FALSE

\* Mutants of KeepsOn: one round only, and round and round.
KeepsOnNever == FALSE

KeepsOnAlways == TRUE

\* The condition of the loop.
KeepsOn == avail_out' = 0

\* inflate and what follows it in the loop.  inflateEnd returns Z_OK, also
\* after an error.
Inflate ==
    /\ zpc = "inflate"
    /\ \/ /\ InflateOk
          /\ size_uncompressed' = size_uncompressed + (2 * size - avail_out')
          /\ output_size' = size_uncompressed'
          /\ IF KeepsOn
             THEN zpc' = "realloc" /\ UNCHANGED << open, rc >>
             ELSE zpc' = "returned" /\ inflateEnd /\ rc' = Z_OK
       \/ /\ InflateError
          /\ inflateEnd /\ rc' = Z_OK
          /\ zpc' = "returned"
          /\ UNCHANGED << size_uncompressed, output_size >>
    /\ UNCHANGED << size, stream, output >>

\* The caller has used the result.  It frees the block only when rc is zero.
Return ==
    /\ zpc = "returned"
    /\ zpc' = "idle"
    /\ output' = IF rc = Z_OK THEN -1 ELSE output
    /\ UNCHANGED << size, stream, size_uncompressed, output_size, avail_out, open, rc, inflated, failed >>

-----------------------------------------------------------------------------
Streams == [content : Nat, end : {"whole", "truncated", "corrupt"}]

GzipNext ==
    \/ size' \in Nat /\ stream' \in Streams /\ CallDecompress(size', stream')
    \/ Realloc
    \/ Inflate
    \/ Return

GzipSpec == GzipInit /\ [][GzipNext]_gzipVars

-----------------------------------------------------------------------------
(* Properties *)

\* inflate never writes behind the block: what it may write in this round fits
\* behind what it wrote before.
InflatesInBounds ==
    zpc = "inflate" =>
        /\ inflated = size_uncompressed
        /\ size_uncompressed + avail_out <= output

\* When Decompress returns zero and inflate met no error, the block holds the
\* whole content, also when it fills the block to the last byte.  The content of
\* a truncated stream is what can be inflated of it: Decompress returns zero for
\* that as well.
DecompressedWhole ==
    zpc = "returned" /\ rc = Z_OK /\ ~failed =>
        output_size = stream.content /\ output_size <= output

\* Every way out of the loop ends the z_stream, but for the one without memory.
StreamIsEnded == zpc = "returned" /\ rc # Z_MEM_ERROR => ~open
=============================================================================
